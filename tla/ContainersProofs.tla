--------------------------- MODULE ContainersProofs ---------------------------
(***************************************************************************)
(* The ring buffer of xq.c is a bounded deque, whatever its counters have  *)
(* wrapped to and for all sizes, and the order in which xq_head_to_tail    *)
(* takes its two locks keeps threads from waiting in a circle.  The hash   *)
(* table of xhash.c is a dictionary, whatever the hashes of its keys, and  *)
(* all its loops end: the probe sequence covers every table of its sizes.  *)
(***************************************************************************)
EXTENDS Xq, Xhash, SequenceTheorems, FiniteSetTheorems, WellFoundedInduction,
        NaturalsInduction, TLAPS


(* The calls of xq_head_to_tail.                                           *)
Calls == {c \in [headq : Queues, tailq : Queues, nr : Sizes] : c.headq # c.tailq}

(* Who owns a lock is in a call that has taken it as its first one.        *)
LockInv ==
    /\ lock \in [Queues -> Callers \cup {NoCaller}]
    /\ call \in [Callers -> Calls \cup {NoCall}]
    /\ \A q \in Queues : lock[q] # NoCaller =>
          ~Idle(lock[q]) /\ LockFirst(call[lock[q]]) = q

LEMMA CallsAreNoNoCall == NoCall \notin Calls
  BY DEF NoCall, Calls

(* The second lock of a call has the lower address.                        *)
LEMMA SecondBelowFirst ==
    ASSUME NEW c \in Calls
    PROVE  /\ LockFirst(c) \in Queues /\ LockSecond(c) \in Queues
           /\ LockSecond(c) < LockFirst(c)
  <1>1. c.headq \in Queues /\ c.tailq \in Queues /\ c.headq # c.tailq
    BY DEF Calls
  <1>2. c.headq \in Nat /\ c.tailq \in Nat
    BY <1>1, QueuesAreAddresses
  <1> QED BY <1>1, <1>2 DEF LockFirst, LockSecond

LEMMA InitLockInv == XqInit => LockInv
  BY DEF XqInit, LockInv

LEMMA NextLockInv ==
    ASSUME LockInv, [XqNext]_xqVars
    PROVE  LockInv'
  <1>1. ASSUME UNCHANGED <<lock, call>> PROVE LockInv'
    BY <1>1 DEF LockInv, Idle
  <1>2. ASSUME NEW t \in Callers, NEW q \in Queues, NEW h \in Queues, NEW n \in Sizes,
               HeadToTailFirst(t, h, q, n)
        PROVE  LockInv'
    <2> DEFINE c == [headq |-> h, tailq |-> q, nr |-> n]
    <2>1. c \in Calls /\ c # NoCall
      BY <1>2, CallsAreNoNoCall DEF HeadToTailFirst, Calls
    <2>2. LockFirst(c) \in Queues
      BY <2>1, SecondBelowFirst
    <2>3. /\ lock[LockFirst(c)] = NoCaller /\ Idle(t)
          /\ lock' = [lock EXCEPT ![LockFirst(c)] = t]
          /\ call' = [call EXCEPT ![t] = c]
      BY <1>2 DEF HeadToTailFirst
    <2> HIDE DEF c
    <2>4. /\ lock' \in [Queues -> Callers \cup {NoCaller}]
          /\ call' \in [Callers -> Calls \cup {NoCall}]
      BY <2>1, <2>2, <2>3 DEF LockInv
    <2>5. ASSUME NEW p \in Queues, lock'[p] # NoCaller
          PROVE  ~(call'[lock'[p]] = NoCall) /\ LockFirst(call'[lock'[p]]) = p
      <3>1. CASE p = LockFirst(c)
        BY <2>1, <2>3, <3>1 DEF LockInv
      <3>2. CASE p # LockFirst(c)
        <4>1. lock'[p] = lock[p] /\ lock[p] # t /\ lock[p] \in Callers
          BY <2>3, <2>5, <3>2 DEF LockInv
        <4>2. call'[lock[p]] = call[lock[p]]
          BY <2>3, <4>1 DEF LockInv
        <4> QED BY <2>5, <4>1, <4>2 DEF LockInv, Idle
      <3> QED BY <3>1, <3>2
    <2> QED BY <2>4, <2>5 DEF LockInv, Idle
  <1>3. ASSUME NEW t \in Callers, HeadToTailSecond(t) PROVE LockInv'
    <2>1. PICK c \in Calls : c = call[t]
      BY <1>3 DEF HeadToTailSecond, LockInv, Idle
    <2>2. LockFirst(c) \in Queues
      BY SecondBelowFirst
    <2>3. /\ lock' = [lock EXCEPT ![LockFirst(c)] = NoCaller]
          /\ call' = [call EXCEPT ![t] = NoCall]
      BY <1>3, <2>1 DEF HeadToTailSecond
    <2>4. /\ lock' \in [Queues -> Callers \cup {NoCaller}]
          /\ call' \in [Callers -> Calls \cup {NoCall}]
      BY <2>2, <2>3 DEF LockInv
    <2>5. ASSUME NEW p \in Queues, lock'[p] # NoCaller
          PROVE  ~(call'[lock'[p]] = NoCall) /\ LockFirst(call'[lock'[p]]) = p
      <3>1. p # LockFirst(c) /\ lock'[p] = lock[p] /\ lock[p] \in Callers
        BY <2>2, <2>3, <2>5 DEF LockInv
      <3>2. lock[p] # t
        BY <2>1, <3>1, <2>5 DEF LockInv
      <3>3. call'[lock[p]] = call[lock[p]]
        BY <2>3, <3>1, <3>2 DEF LockInv
      <3> QED BY <2>5, <3>1, <3>3 DEF LockInv, Idle
    <2> QED BY <2>4, <2>5 DEF LockInv, Idle
  <1> QED BY <1>1, <1>2, <1>3
      DEF XqNext, AppendHead, AppendTail, PopHead, PopTail, PeekHead, PeekTail, Check, Resize,
          Locked, xqVars

(* Threads in xq_head_to_tail do not wait in a circle, since each waits    *)
(* for a lock of a lower address than the one it has; proved for any set   *)
(* of queues and threads.                                                  *)
THEOREM LockOrder == XqSpec => []NoWaitCycle
  <1>1. LockInv => NoWaitCycle
    <2> SUFFICES ASSUME LockInv, NEW t \in Callers, NEW u \in Callers,
                        ~Idle(t), lock[LockSecond(call[t])] = u,
                        ~Idle(u), lock[LockSecond(call[u])] = t
                 PROVE  FALSE
      BY DEF NoWaitCycle
    <2>1. call[t] \in Calls /\ call[u] \in Calls
      BY DEF LockInv, Idle
    <2>2. /\ LockSecond(call[t]) \in Queues /\ LockSecond(call[u]) \in Queues
          /\ LockSecond(call[t]) < LockFirst(call[t])
          /\ LockSecond(call[u]) < LockFirst(call[u])
      BY <2>1, SecondBelowFirst
    <2>3. LockFirst(call[u]) = LockSecond(call[t]) /\ LockFirst(call[t]) = LockSecond(call[u])
      BY <2>2, NoneIsNoValue DEF LockInv
    <2>4. LockSecond(call[t]) \in Nat /\ LockSecond(call[u]) \in Nat
      BY <2>2, QueuesAreAddresses
    <2> QED BY <2>2, <2>3, <2>4
  <1> QED BY <1>1, InitLockInv, NextLockInv, PTL DEF XqSpec

-----------------------------------------------------------------------------
(* Remainders.                                                             *)

LEMMA ModDef ==
    ASSUME NEW a \in Int, NEW m \in Nat \ {0}
    PROVE  a % m \in 0..m-1 /\ a \div m \in Int /\ a = m * (a \div m) + (a % m)
  OBVIOUS

LEMMA NoMultipleBetween ==
    ASSUME NEW d \in Int, NEW m \in Nat \ {0}, m * d < m, -m < m * d
    PROVE  d = 0
  <1>1. d >= 1 => m * d >= m
    OBVIOUS
  <1>2. d <= -1 => m * d <= -m
    OBVIOUS
  <1> QED BY <1>1, <1>2

LEMMA SameMod ==
    ASSUME NEW a \in Int, NEW j \in Int, NEW m \in Nat \ {0}
    PROVE  (a + m * j) % m = a % m
  <1> DEFINE b == a + m * j
  <1>1. b \in Int
    OBVIOUS
  <1> HIDE DEF b
  <1>2. PICK k \in Int, r \in 0..m-1 : a = m * k + r /\ r = a % m
    BY ModDef
  <1>3. PICK l \in Int, s \in 0..m-1 : b = m * l + s /\ s = b % m
    BY ModDef, <1>1
  <1>4. m * (l - k - j) = r - s
    <2>1. m * (l - k - j) = m * l - m * k - m * j
      OBVIOUS
    <2>2. m * l \in Int /\ m * k \in Int /\ m * j \in Int
      OBVIOUS
    <2>3. m * k + r + m * j = m * l + s
      BY <1>2, <1>3, <2>2 DEF b
    <2> QED BY <2>1, <2>2, <2>3
  <1>5. l - k - j = 0
    BY <1>4, NoMultipleBetween
  <1>6. r = s
    BY <1>4, <1>5
  <1> QED BY <1>2, <1>3, <1>6 DEF b

LEMMA ModDiffers ==
    ASSUME NEW a \in Int, NEW b \in Int, NEW m \in Nat \ {0}, a # b, a - b < m, b - a < m
    PROVE  a % m # b % m
  <1> SUFFICES ASSUME a % m = b % m PROVE FALSE
    OBVIOUS
  <1>1. PICK k \in Int, r \in 0..m-1 : a = m * k + r /\ r = a % m
    BY ModDef
  <1>2. PICK l \in Int, s \in 0..m-1 : b = m * l + s /\ s = b % m
    BY ModDef
  <1>3. m * (k - l) = a - b
    <2>1. m * (k - l) = m * k - m * l /\ m * k \in Int /\ m * l \in Int
      OBVIOUS
    <2> QED BY <1>1, <1>2, <2>1
  <1>4. k - l = 0
    BY <1>3, NoMultipleBetween
  <1>5. m * (k - l) = 0
    BY <1>4
  <1> QED BY <1>3, <1>5

LEMMA ModSmall ==
    ASSUME NEW m \in Nat \ {0}, NEW a \in 0..m-1
    PROVE  a % m = a
  <1>1. PICK k \in Int, r \in 0..m-1 : a = m * k + r /\ r = a % m
    BY ModDef
  <1>2. m * k = a - r /\ m * k \in Int
    BY <1>1
  <1>3. k = 0
    BY <1>2, NoMultipleBetween
  <1> QED BY <1>1, <1>3

(* A remainder is a multiple away.                                         *)
LEMMA ModAway ==
    ASSUME NEW a \in Int, NEW m \in Nat \ {0}
    PROVE  \E j \in Int : a % m = a + m * j
  <1>1. a % m \in 0..m-1 /\ a \div m \in Int /\ a = m * (a \div m) + (a % m)
    BY ModDef
  <1>2. PICK k \in Int, r \in 0..m-1 : k = a \div m /\ r = a % m
    BY <1>1
  <1>3. m * (-k) = -(m * k) /\ m * k \in Int
    OBVIOUS
  <1>4. PICK j \in Int : j = -k
    OBVIOUS
  <1>5. a % m = a + m * j
    BY <1>1, <1>2, <1>3, <1>4
  <1> QED BY <1>5, Zenon

LEMMA SizeFacts ==
    ASSUME NEW s \in Sizes
    PROVE  /\ s \in Nat \ {0} /\ s < IdxMod /\ IdxMod \in Nat \ {0}
           /\ \E c \in Nat : IdxMod = s * c
  <1>1. s \in Nat \ {0} /\ s < IdxMod /\ IdxMod \in Nat /\ IdxMod % s = 0
    BY SizesDivideIdxMod
  <1>2. IdxMod \in Int /\ IdxMod = s * (IdxMod \div s) + (IdxMod % s) /\ IdxMod \div s \in Int
    BY <1>1, ModDef
  <1>3. PICK c \in Int : c = IdxMod \div s
    BY <1>2
  <1>4. s * c \in Int /\ IdxMod = s * c
    BY <1>1, <1>2, <1>3
  <1>5. c <= -1 => s * c <= -s
    BY <1>1
  <1>6. c \in Nat
    BY <1>1, <1>4, <1>5
  <1> QED BY <1>1, <1>4, <1>6

(* Wrapping on the way changes neither a later wrap nor a slot.            *)
LEMMA WrapWrap ==
    ASSUME NEW s \in Sizes, NEW i \in Int, NEW j \in Int
    PROVE  /\ Wrap(i) \in 0..IdxMod-1 /\ Wrap(i) \in Int
           /\ Wrap(Wrap(i) + j) = Wrap(i + j)
           /\ (Wrap(i) + j) % s = (i + j) % s
  <1>1. s \in Nat \ {0} /\ IdxMod \in Nat \ {0}
    BY SizeFacts
  <1>2. PICK c \in Nat : IdxMod = s * c
    BY SizeFacts
  <1>3. Wrap(i) \in 0..IdxMod-1 /\ Wrap(i) \in Int
    BY <1>1, ModDef DEF Wrap
  <1>4. PICK k \in Int : Wrap(i) = i + IdxMod * k
    BY <1>1, ModAway DEF Wrap
  <1>5. Wrap(i) + j = (i + j) + IdxMod * k /\ i + j \in Int
    <2>1. IdxMod * k \in Int
      BY <1>1
    <2> QED BY <1>4, <2>1
  <1>6. ((i + j) + IdxMod * k) % IdxMod = (i + j) % IdxMod
    BY <1>1, <1>5, SameMod
  <1>7. IdxMod * k = s * (c * k) /\ c * k \in Int
    BY <1>1, <1>2
  <1>8. ((i + j) + s * (c * k)) % s = (i + j) % s
    BY <1>1, <1>5, <1>7, SameMod
  <1>9. Wrap(Wrap(i) + j) = Wrap(i + j)
    BY <1>5, <1>6 DEF Wrap
  <1>10. (Wrap(i) + j) % s = (i + j) % s
    BY <1>5, <1>7, <1>8
  <1> QED BY <1>3, <1>9, <1>10

LEMMA WrapSlot ==
    ASSUME NEW s \in Sizes, NEW i \in Int
    PROVE  Wrap(i) % s = i % s /\ Wrap(Wrap(i)) = Wrap(i) /\ i % s \in 0..s-1
  <1>1. i % s \in 0..s-1
    BY SizeFacts, ModDef
  <1>2. Wrap(i) \in Int /\ Wrap(i) + 0 = Wrap(i) /\ i + 0 = i
    BY WrapWrap
  <1>3. Wrap(Wrap(i) + 0) = Wrap(i + 0) /\ (Wrap(i) + 0) % s = (i + 0) % s
    BY WrapWrap
  <1> QED BY <1>1, <1>2, <1>3

(* Equal wraps stay equal under a shift, and give the same slots.          *)
LEMMA SameWrap ==
    ASSUME NEW s \in Sizes, NEW i \in Int, NEW k \in Int, Wrap(i) = Wrap(k), NEW j \in Int
    PROVE  Wrap(i + j) = Wrap(k + j) /\ (i + j) % s = (k + j) % s
  <1>1. Wrap(Wrap(i) + j) = Wrap(i + j) /\ (Wrap(i) + j) % s = (i + j) % s
    BY WrapWrap
  <1>2. Wrap(Wrap(k) + j) = Wrap(k + j) /\ (Wrap(k) + j) % s = (k + j) % s
    BY WrapWrap
  <1> QED BY <1>1, <1>2

-----------------------------------------------------------------------------
(* The structure.                                                          *)

Elements == Values \cup {Noneidx}

XqRec == [head : Int, tail : Int, size : Sizes,
          queue : UNION {[0..s-1 -> Elements] : s \in Sizes}]

(* A queue: as many slots as its size says, and no more elements.          *)
WellFormed(x) == /\ x \in XqRec
                 /\ x.queue \in [0..x.size-1 -> Elements]
                 /\ xq_count(x) <= x.size

Slot(x, i) == x.queue[i % x.size]

(* What the other lemmas need to know of one.                              *)
LEMMA WellFormedFacts ==
    ASSUME NEW x, WellFormed(x)
    PROVE  /\ x.head \in Int /\ x.tail \in Int /\ x.size \in Sizes /\ x.size \in Nat \ {0}
           /\ x.queue \in [0..x.size-1 -> Elements]
           /\ xq_count(x) \in Nat /\ xq_count(x) <= x.size
           /\ xq_count(x) \in 0..IdxMod-1
           /\ IdxMod \in Nat \ {0} /\ x.size < IdxMod
           /\ \A i \in Int : /\ xq_element(x, i) = Slot(x, i) /\ Slot(x, i) \in Elements
                             /\ Wrap(i) % x.size = i % x.size
                             /\ i % x.size \in 0..x.size-1
  <1>1. /\ x.head \in Int /\ x.tail \in Int /\ x.size \in Sizes
        /\ x.queue \in [0..x.size-1 -> Elements] /\ xq_count(x) <= x.size
    BY DEF WellFormed, XqRec
  <1>2. x.size \in Nat \ {0} /\ IdxMod \in Nat \ {0} /\ x.size < IdxMod
    BY <1>1, SizeFacts
  <1>3. xq_count(x) \in 0..IdxMod-1
    <2>1. PICK i \in Int : i = x.head - x.tail - 1
      BY <1>1
    <2>2. i % IdxMod \in 0..IdxMod-1
      BY <1>2, ModDef
    <2> QED BY <2>1, <2>2 DEF xq_count, Wrap
  <1>4. \A i \in Int : Wrap(i) % x.size = i % x.size /\ i % x.size \in 0..x.size-1
    BY <1>1, WrapSlot
  <1>5. \A i \in Int : xq_element(x, i) = Slot(x, i) /\ Slot(x, i) \in Elements
    BY <1>1, <1>4 DEF xq_element, Slot
  <1>6. xq_count(x) \in Nat
    BY <1>3
  <1> QED BY <1>1, <1>2, <1>3, <1>4, <1>5, <1>6

(* head is where one counts to from tail, modulo the wrap.                 *)
LEMMA HeadIs ==
    ASSUME NEW x, WellFormed(x), NEW j \in Int
    PROVE  /\ Wrap(x.head + j) = Wrap(x.tail + 1 + xq_count(x) + j)
           /\ (x.head + j) % x.size = (x.tail + 1 + xq_count(x) + j) % x.size
  <1>1. PICK h \in Int, t \in Int, n \in Nat, s \in Sizes :
          h = x.head /\ t = x.tail /\ n = xq_count(x) /\ s = x.size
    BY WellFormedFacts, Zenon
  <1>2. PICK i \in Int, l \in Int : i = h - t - 1 /\ l = t + 1 + j
    OBVIOUS
  <1>3. n = Wrap(i)
    BY <1>1, <1>2 DEF xq_count
  <1>4. Wrap(n) = Wrap(i) /\ n \in Int
    BY <1>3, WrapSlot
  <1>5. Wrap(i + l) = Wrap(n + l) /\ (i + l) % s = (n + l) % s
    BY <1>4, SameWrap
  <1>6. i + l = h + j /\ n + l = t + 1 + n + j
    BY <1>2
  <1> QED BY <1>1, <1>5, <1>6

(* And so one counts from the one to the other.                            *)
LEMMA CountIs ==
    ASSUME NEW s \in Sizes, NEW head \in Int, NEW tail \in Int, NEW n \in 0..IdxMod-1,
           Wrap(head) = Wrap(tail + 1 + n)
    PROVE  Wrap(head - tail - 1) = n
  <1>1. IdxMod \in Nat \ {0}
    BY SizeFacts
  <1>2. PICK k \in Int, j \in Int : k = tail + 1 + n /\ j = -tail - 1
    BY <1>1
  <1>3. Wrap(head + j) = Wrap(k + j)
    BY <1>2, SameWrap
  <1>4. head + j = head - tail - 1 /\ k + j = n
    BY <1>1, <1>2
  <1>5. Wrap(n) = n
    BY <1>1, ModSmall DEF Wrap
  <1> QED BY <1>3, <1>4, <1>5

LEMMA ContentSeq ==
    ASSUME NEW x, WellFormed(x)
    PROVE  /\ Content(x) \in Seq(Elements) /\ Len(Content(x)) = xq_count(x)
           /\ \A k \in 1..xq_count(x) : Content(x)[k] = Slot(x, x.tail + k)
  <1> DEFINE n == xq_count(x)
  <1>1. n \in Nat /\ x.tail \in Int
        /\ \A i \in Int : xq_element(x, i) = Slot(x, i) /\ Slot(x, i) \in Elements
    BY WellFormedFacts
  <1> HIDE DEF n
  <1>2. Content(x) = [k \in 1..n |-> xq_element(x, x.tail + k)]
    BY DEF Content, n
  <1>3. \A k \in 1..n : x.tail + k \in Int
    BY <1>1
  <1>4. Content(x) \in [1..n -> Elements] /\ \A k \in 1..n : Content(x)[k] = Slot(x, x.tail + k)
    BY <1>1, <1>2, <1>3
  <1>5. Content(x) \in Seq(Elements) /\ Len(Content(x)) = n
    BY <1>1, <1>4
  <1> QED BY <1>4, <1>5 DEF n

(* How a sequence is found to be the content.                              *)
LEMMA IsContent ==
    ASSUME NEW x, WellFormed(x), NEW c \in Seq(Elements), Len(c) = xq_count(x),
           \A k \in 1..xq_count(x) : c[k] = Slot(x, x.tail + k)
    PROVE  Content(x) = c
  <1>1. /\ Content(x) \in Seq(Elements) /\ Len(Content(x)) = Len(c)
        /\ \A k \in 1..Len(c) : Content(x)[k] = c[k]
    BY ContentSeq
  <1> QED BY <1>1, SeqEqual

-----------------------------------------------------------------------------
(* The operations on the structure.                                        *)

(* The fields of a well-formed structure.                                  *)
Fields(x, h, t, s, n) ==
    /\ s \in Sizes /\ n <= s
    /\ x = [head |-> h, tail |-> t, size |-> s, queue |-> x.queue]
    /\ x.queue \in [0..s-1 -> Elements]
    /\ n = xq_count(x)

Elems(x, t, s, n) ==
    /\ Content(x) \in Seq(Elements) /\ Len(Content(x)) = n
    /\ \A i \in 1..n : Content(x)[i] = x.queue[(t + i) % s]

HeadAt(h, t, s, n) ==
    \A j \in Int : /\ Wrap(h + j) = Wrap(t + 1 + n + j)
                   /\ (h + j) % s = (t + 1 + n + j) % s

LEMMA HeadAtSlot ==
    ASSUME NEW h \in Int, NEW t \in Int, NEW s, NEW n \in Nat, HeadAt(h, t, s, n)
    PROVE  h % s = (t + 1 + n) % s /\ Wrap(h) = Wrap(t + 1 + n)
  <1>1. PICK j \in Int : j = 0
    OBVIOUS
  <1>2. Wrap(h + j) = Wrap(t + 1 + n + j) /\ (h + j) % s = (t + 1 + n + j) % s
    BY DEF HeadAt
  <1>3. h + j = h /\ t + 1 + n + j = t + 1 + n
    BY <1>1
  <1> QED BY <1>2, <1>3

LEMMA AsRing ==
    ASSUME NEW x, WellFormed(x)
    PROVE  \E h \in Int, t \in Int, s \in Nat \ {0}, n \in Nat :
              Fields(x, h, t, s, n) /\ Elems(x, t, s, n) /\ HeadAt(h, t, s, n)
  <1>1. PICK h, t, s, n : h = x.head /\ t = x.tail /\ s = x.size /\ n = xq_count(x)
    OBVIOUS
  <1>2. /\ h \in Int /\ t \in Int /\ s \in Sizes /\ s \in Nat \ {0}
        /\ x.queue \in [0..s-1 -> Elements] /\ n \in Nat /\ n <= s
    BY <1>1, WellFormedFacts
  <1>3. x = [head |-> h, tail |-> t, size |-> s, queue |-> x.queue]
    BY <1>1 DEF WellFormed, XqRec
  <1>4. HeadAt(h, t, s, n)
    BY <1>1, HeadIs DEF HeadAt
  <1>5. Elems(x, t, s, n)
    BY <1>1, ContentSeq DEF Slot, Elems
  <1>6. Fields(x, h, t, s, n)
    BY <1>1, <1>2, <1>3 DEF Fields
  <1> QED BY <1>2, <1>4, <1>5, <1>6, Zenon

(* How the structure that an operation leaves is found to have a content.  *)
Leaving(y, c, h, t, s, m, n) ==
    /\ h \in Int /\ t \in Int /\ s \in Sizes /\ m \in [0..s-1 -> Elements] /\ n \in 0..s
    /\ y = [head |-> h, tail |-> t, size |-> s, queue |-> m]
    /\ Wrap(h) = Wrap(t + 1 + n)
    /\ c \in Seq(Elements) /\ Len(c) = n /\ \A i \in 1..n : c[i] = m[(t + i) % s]

LEMMA Leaves ==
    ASSUME NEW y, NEW c, NEW h, NEW t, NEW s, NEW m, NEW n, Leaving(y, c, h, t, s, m, n)
    PROVE  WellFormed(y) /\ y.size = s /\ Content(y) = c
  <1>1. h \in Int /\ t \in Int /\ s \in Sizes /\ m \in [0..s-1 -> Elements] /\ n \in 0..s
    BY DEF Leaving
  <1>2. s \in Nat \ {0} /\ s < IdxMod /\ IdxMod \in Nat \ {0} /\ n \in 0..IdxMod-1
    BY <1>1, SizeFacts
  <1>3. Wrap(h - t - 1) = n
    BY <1>1, <1>2, CountIs DEF Leaving
  <1>4. y \in XqRec /\ y.head = h /\ y.tail = t /\ y.size = s /\ y.queue = m
    BY <1>1 DEF Leaving, XqRec
  <1>5. WellFormed(y) /\ xq_count(y) = n
    BY <1>1, <1>2, <1>3, <1>4 DEF WellFormed, xq_count
  <1>6. /\ c \in Seq(Elements) /\ Len(c) = xq_count(y)
        /\ \A k \in 1..xq_count(y) : c[k] = Slot(y, y.tail + k)
    BY <1>4, <1>5 DEF Slot, Leaving
  <1> QED BY <1>4, <1>5, <1>6, IsContent

LEMMA WrapFacts ==
    ASSUME NEW s \in Sizes, NEW i \in Int
    PROVE  /\ Wrap(i) \in Int /\ Wrap(Wrap(i)) = Wrap(i)
           /\ Wrap(i) % s = i % s /\ i % s \in 0..s-1
           /\ \A j \in Int : Wrap(Wrap(i) + j) = Wrap(i + j) /\ (Wrap(i) + j) % s = (i + j) % s
  <1>1. Wrap(i) \in Int
    BY WrapWrap
  <1> QED BY <1>1, WrapWrap, WrapSlot

LEMMA AppendHeadOp ==
    ASSUME NEW x, WellFormed(x), NEW v \in Values, xq_count(x) < x.size,
           NEW y, y = append_head(x, v).x
    PROVE  /\ WellFormed(y) /\ y.size = x.size /\ append_head(x, v).r = v
           /\ Content(y) = Append(Content(x), v)
  <1>1. PICK h \in Int, t \in Int, s \in Nat \ {0}, n \in Nat :
          Fields(x, h, t, s, n) /\ Elems(x, t, s, n) /\ HeadAt(h, t, s, n)
    BY AsRing
  <1>2. x.size = s /\ n < s /\ s \in Sizes /\ x.queue \in [0..s-1 -> Elements]
    BY <1>1 DEF Fields
  <1>3. h + 1 \in Int /\ h % s \in 0..s-1 /\ Wrap(h) % s = h % s
    <2>1. h + 1 \in Int
      OBVIOUS
    <2>2. h % s \in 0..s-1 /\ Wrap(h) % s = h % s
      BY <1>2, WrapFacts
    <2> QED BY <2>1, <2>2
  <1>4. Wrap(h + 1) \in Int /\ Wrap(Wrap(h + 1)) = Wrap(h + 1)
    BY <1>2, <1>3, WrapFacts
  <1>5. PICK w \in [0..s-1 -> Elements] : w = [x.queue EXCEPT ![h % s] = v]
    BY <1>2, <1>3 DEF Elements
  <1>6. /\ y = [head |-> Wrap(h + 1), tail |-> t, size |-> s, queue |-> w]
        /\ append_head(x, v).r = v
    <2>1. xq_count(x) = n /\ ~(n >= s) /\ x.head = h
      BY <1>1, <1>2 DEF Fields
    <2>2. /\ append_head(x, v).r = v
          /\ y = [Store(x, h, v) EXCEPT !.head = Wrap(@ + 1)]
      BY <1>2, <2>1 DEF append_head
    <2>3. Store(x, h, v) = [head |-> h, tail |-> t, size |-> s, queue |-> w]
      <3>1. PICK m : m = x.queue
        OBVIOUS
      <3>2. x = [head |-> h, tail |-> t, size |-> s, queue |-> m]
        BY <1>1, <3>1 DEF Fields
      <3>3. Store(x, h, v) = [x EXCEPT !.queue[h % s] = v]
        BY <1>2, <1>3 DEF Store
      <3> QED BY <1>5, <3>1, <3>2, <3>3
    <2> QED BY <2>2, <2>3
  <1>7. PICK k \in 0..s : k = n + 1
    BY <1>2
  <1>8. Wrap(Wrap(h + 1)) = Wrap(t + 1 + k)
    <2>1. Wrap(h + 1) = Wrap(t + 1 + n + 1)
      BY <1>1 DEF HeadAt
    <2>2. t + 1 + n + 1 = t + 1 + k
      BY <1>7
    <2> QED BY <1>4, <2>1, <2>2
  <1>9. v \in Elements
    BY DEF Elements
  <1>10. PICK c \in Seq(Elements) :
           c = Append(Content(x), v) /\ Len(c) = k /\ c[k] = v
           /\ \A i \in 1..n : c[i] = Content(x)[i]
    <2>1. Content(x) \in Seq(Elements) /\ Len(Content(x)) = n
      BY <1>1 DEF Elems
    <2>2. PICK c \in Seq(Elements) : c = Append(Content(x), v)
      BY <1>9, <2>1, AppendProperties
    <2>3. Len(c) = k /\ c[k] = v /\ \A i \in 1..n : c[i] = Content(x)[i]
      BY <1>7, <1>9, <2>1, <2>2, AppendProperties
    <2> QED BY <2>2, <2>3
  <1>11. h % s = (t + k) % s
    <2>1. t + 1 + n = t + k
      BY <1>7
    <2> QED BY <1>1, <2>1, HeadAtSlot
  <1>12. ASSUME NEW i \in 1..k PROVE c[i] = w[(t + i) % s]
    <2>1. CASE i = k
      BY <1>2, <1>3, <1>5, <1>10, <1>11, <2>1
    <2>2. CASE i # k
      <3>1. i \in 1..n /\ t + i \in Int /\ t + k \in Int /\ t + i # t + k
            /\ (t + i) - (t + k) < s /\ (t + k) - (t + i) < s
        BY <1>2, <1>7, <2>2
      <3>2. (t + i) % s # (t + k) % s /\ (t + i) % s \in 0..s-1
        BY <1>2, <3>1, ModDiffers, WrapSlot
      <3>3. c[i] = x.queue[(t + i) % s]
        BY <1>1, <1>10, <3>1 DEF Elems
      <3> QED BY <1>2, <1>5, <1>11, <3>2, <3>3
    <2> QED BY <2>1, <2>2
  <1>13. WellFormed(y) /\ y.size = s /\ Content(y) = c
    <2>1. Leaving(y, c, Wrap(h + 1), t, s, w, k)
      BY <1>2, <1>4, <1>6, <1>7, <1>8, <1>10, <1>12 DEF Leaving
    <2> QED BY <2>1, Leaves, Zenon
  <1> QED BY <1>2, <1>6, <1>10, <1>13

LEMMA PopHeadOp ==
    ASSUME NEW x, WellFormed(x), xq_count(x) # 0, NEW y, y = pop_head(x).x
    PROVE  /\ WellFormed(y) /\ y.size = x.size /\ pop_head(x).r = Content(x)[xq_count(x)]
           /\ Content(y) = SubSeq(Content(x), 1, xq_count(x) - 1)
  <1>1. PICK h \in Int, t \in Int, s \in Nat \ {0}, n \in Nat :
          Fields(x, h, t, s, n) /\ Elems(x, t, s, n) /\ HeadAt(h, t, s, n)
    BY AsRing
  <1>2. /\ s \in Sizes /\ x.queue \in [0..s-1 -> Elements]
        /\ x.size = s /\ x.head = h /\ xq_count(x) = n /\ n # 0 /\ n <= s
    BY <1>1 DEF Fields
  <1>3. PICK k \in 0..s : k = n - 1
    BY <1>2
  <1>4. h - 1 \in Int /\ Wrap(h - 1) \in Int /\ Wrap(Wrap(h - 1)) = Wrap(h - 1)
    <2>1. h - 1 \in Int
      OBVIOUS
    <2> QED BY <1>2, <2>1, WrapFacts
  <1>5. y = [head |-> Wrap(h - 1), tail |-> t, size |-> s, queue |-> x.queue]
    <2>1. PICK m : m = x.queue
      OBVIOUS
    <2>2. x = [head |-> h, tail |-> t, size |-> s, queue |-> m]
      BY <1>1, <2>1 DEF Fields
    <2>3. y = [x EXCEPT !.head = Wrap(@ - 1)]
      BY <1>2 DEF pop_head
    <2> QED BY <2>1, <2>2, <2>3
  <1>6. Wrap(h - 1) = Wrap(t + 1 + k) /\ (h - 1) % s = (t + n) % s
    <2>1. PICK j \in Int : j = -1
      OBVIOUS
    <2>2. Wrap(h + j) = Wrap(t + 1 + n + j) /\ (h + j) % s = (t + 1 + n + j) % s
      BY <1>1 DEF HeadAt
    <2>3. h + j = h - 1 /\ t + 1 + n + j = t + 1 + k /\ t + 1 + n + j = t + n
      BY <1>3, <2>1
    <2> QED BY <2>2, <2>3
  <1>7. pop_head(x).r = Content(x)[n]
    <2>1. pop_head(x).r = Slot(x, h - 1)
      BY <1>2, <1>4, WellFormedFacts DEF pop_head
    <2>2. n \in 1..n
      BY <1>2
    <2> QED BY <1>1, <1>2, <1>6, <2>1, <2>2 DEF Slot, Elems
  <1>8. PICK c \in Seq(Elements) :
          /\ c = SubSeq(Content(x), 1, n - 1) /\ Len(c) = k
          /\ \A i \in 1..k : c[i] = x.queue[(t + i) % s]
    <2>1. \A i \in 1..n - 1 : Content(x)[i] \in Elements
      BY <1>1 DEF Elems
    <2>2. PICK c : c = SubSeq(Content(x), 1, n - 1)
      OBVIOUS
    <2>3. /\ c \in Seq(Elements) /\ Len(c) = IF 1 <= n - 1 THEN (n - 1) - 1 + 1 ELSE 0
          /\ \A i \in 1..(n - 1) - 1 + 1 : c[i] = Content(x)[1 + i - 1]
      BY <2>1, <2>2, SubSeqProperties
    <2>4. Len(c) = k /\ \A i \in 1..k : c[i] = Content(x)[i] /\ i \in 1..n
      BY <1>2, <1>3, <2>3
    <2>5. \A i \in 1..k : c[i] = x.queue[(t + i) % s]
      BY <1>1, <2>4 DEF Elems
    <2> QED BY <2>2, <2>3, <2>4, <2>5, Zenon
  <1>9. Leaving(y, c, Wrap(h - 1), t, s, x.queue, k)
    BY <1>2, <1>4, <1>5, <1>6, <1>8 DEF Leaving
  <1>10. WellFormed(y) /\ y.size = s /\ Content(y) = c
    BY <1>9, Leaves, Zenon
  <1> QED BY <1>2, <1>7, <1>8, <1>10

LEMMA AppendTailOp ==
    ASSUME NEW x, WellFormed(x), NEW v \in Values, xq_count(x) < x.size,
           NEW y, y = append_tail(x, v).x
    PROVE  /\ WellFormed(y) /\ y.size = x.size /\ append_tail(x, v).r = v
           /\ Content(y) = <<v>> \o Content(x)
  <1>1. PICK h \in Int, t \in Int, s \in Nat \ {0}, n \in Nat :
          Fields(x, h, t, s, n) /\ Elems(x, t, s, n) /\ HeadAt(h, t, s, n)
    BY AsRing
  <1>2. /\ s \in Sizes /\ x.queue \in [0..s-1 -> Elements]
        /\ x.size = s /\ x.tail = t /\ xq_count(x) = n /\ n < s
    BY <1>1 DEF Fields
  <1>3. PICK k \in 0..s : k = n + 1
    BY <1>2
  <1>4. t % s \in 0..s-1 /\ Wrap(t) % s = t % s
    BY <1>2, WrapFacts
  <1>5. PICK u \in Int : u = t - 1
    OBVIOUS
  <1>6. PICK g \in Int :
          /\ g = Wrap(u)
          /\ \A j \in Int : Wrap(g + j) = Wrap(u + j) /\ (g + j) % s = (u + j) % s
    BY <1>2, WrapFacts, Zenon
  <1>7. PICK w \in [0..s-1 -> Elements] : w = [x.queue EXCEPT ![t % s] = v]
    BY <1>2, <1>4 DEF Elements
  <1>8. /\ y = [head |-> h, tail |-> g, size |-> s, queue |-> w]
        /\ append_tail(x, v).r = v
    <2>1. PICK m : m = x.queue
      OBVIOUS
    <2>2. x = [head |-> h, tail |-> t, size |-> s, queue |-> m]
      BY <1>1, <2>1 DEF Fields
    <2>3. /\ append_tail(x, v).r = v
          /\ y = [Store(x, t, v) EXCEPT !.tail = Wrap(@ - 1)]
      BY <1>2 DEF append_tail
    <2>4. Store(x, t, v) = [x EXCEPT !.queue[t % s] = v]
      BY <1>2, <1>4 DEF Store
    <2>5. Store(x, t, v) = [head |-> h, tail |-> t, size |-> s, queue |-> w]
      <3>1. Store(x, t, v) = [x EXCEPT !.queue = w]
        BY <1>7, <2>4
      <3> QED BY <2>2, <3>1
    <2>6. g = Wrap(t - 1)
      BY <1>5, <1>6
    <2> QED BY <2>3, <2>5, <2>6
  <1>9. Wrap(h) = Wrap(g + 1 + k)
    <2>1. Wrap(h) = Wrap(t + 1 + n)
      BY <1>1, HeadAtSlot
    <2>2. PICK j \in Int : j = 1 + k
      BY <1>3
    <2>3. Wrap(g + j) = Wrap(u + j)
      BY <1>6
    <2>4. g + j = g + 1 + k /\ u + j = t + 1 + n
      BY <1>3, <1>5, <2>2
    <2> QED BY <2>1, <2>3, <2>4
  <1>10. v \in Elements /\ <<v>> \in Seq(Elements) /\ Len(<<v>>) = 1 /\ <<v>>[1] = v
    BY DEF Elements
  <1>11. PICK c \in Seq(Elements) :
           /\ c = <<v>> \o Content(x) /\ Len(c) = k /\ c[1] = v
           /\ \A i \in 2..k : c[i] = Content(x)[i - 1]
    <2>1. Content(x) \in Seq(Elements) /\ Len(Content(x)) = n
      BY <1>1 DEF Elems
    <2>2. PICK c : c = <<v>> \o Content(x)
      OBVIOUS
    <2>3. /\ c \in Seq(Elements) /\ Len(c) = 1 + n
          /\ \A i \in 1..1 + n : c[i] = IF i <= 1 THEN <<v>>[i] ELSE Content(x)[i - 1]
      BY <1>10, <2>1, <2>2, ConcatProperties
    <2>4. Len(c) = k /\ c[1] = v /\ \A i \in 2..k : c[i] = Content(x)[i - 1]
      BY <1>3, <1>10, <2>3
    <2> QED BY <2>2, <2>3, <2>4
  <1>12. ASSUME NEW i \in 1..k PROVE c[i] = w[(g + i) % s]
    <2>0. (g + i) % s = (u + i) % s
      BY <1>6
    <2>1. CASE i = 1
      <3>1. u + i = t
        BY <1>5, <2>1
      <3> QED BY <1>2, <1>4, <1>7, <1>11, <2>0, <2>1, <3>1
    <2>2. CASE i # 1
      <3>1. PICK l \in 1..n : l = i - 1
        BY <1>3, <2>2
      <3>2. t + l \in Int /\ t # t + l /\ t - (t + l) < s /\ (t + l) - t < s /\ u + i = t + l
        BY <1>2, <1>5, <3>1
      <3>3. (t + l) % s # t % s /\ (t + l) % s \in 0..s-1
        BY <1>2, <3>2, ModDiffers, WrapSlot
      <3>4. c[i] = x.queue[(t + l) % s]
        <4>1. i \in 2..k
          BY <2>2
        <4> QED BY <1>1, <1>11, <3>1, <4>1 DEF Elems
      <3> QED BY <1>2, <1>7, <2>0, <3>2, <3>3, <3>4
    <2> QED BY <2>1, <2>2
  <1>13. Leaving(y, c, h, g, s, w, k)
    BY <1>2, <1>8, <1>9, <1>11, <1>12 DEF Leaving
  <1>14. WellFormed(y) /\ y.size = s /\ Content(y) = c
    BY <1>13, Leaves, Zenon
  <1> QED BY <1>2, <1>8, <1>11, <1>14

LEMMA PopTailOp ==
    ASSUME NEW x, WellFormed(x), xq_count(x) # 0, NEW y, y = pop_tail(x).x
    PROVE  /\ WellFormed(y) /\ y.size = x.size /\ pop_tail(x).r = Head(Content(x))
           /\ Content(y) = Tail(Content(x))
  <1>1. PICK h \in Int, t \in Int, s \in Nat \ {0}, n \in Nat :
          Fields(x, h, t, s, n) /\ Elems(x, t, s, n) /\ HeadAt(h, t, s, n)
    BY AsRing
  <1>2. /\ s \in Sizes /\ x.queue \in [0..s-1 -> Elements]
        /\ x.size = s /\ x.tail = t /\ xq_count(x) = n /\ n # 0 /\ n <= s
    BY <1>1 DEF Fields
  <1>3. PICK k \in 0..s : k = n - 1
    BY <1>2
  <1>4. PICK u \in Int : u = t + 1
    OBVIOUS
  <1>5. PICK g \in Int :
          /\ g = Wrap(u)
          /\ \A j \in Int : Wrap(g + j) = Wrap(u + j) /\ (g + j) % s = (u + j) % s
    BY <1>2, WrapFacts, Zenon
  <1>6. y = [head |-> h, tail |-> g, size |-> s, queue |-> x.queue]
    <2>1. PICK m : m = x.queue
      OBVIOUS
    <2>2. x = [head |-> h, tail |-> t, size |-> s, queue |-> m]
      BY <1>1, <2>1 DEF Fields
    <2>3. y = [x EXCEPT !.tail = Wrap(@ + 1)]
      BY <1>2 DEF pop_tail
    <2> QED BY <1>4, <1>5, <2>1, <2>2, <2>3
  <1>7. Wrap(h) = Wrap(g + 1 + k)
    <2>1. Wrap(h) = Wrap(t + 1 + n)
      BY <1>1, HeadAtSlot
    <2>2. PICK j \in Int : j = 1 + k
      BY <1>3
    <2>3. Wrap(g + j) = Wrap(u + j)
      BY <1>5
    <2>4. g + j = g + 1 + k /\ u + j = t + 1 + n
      BY <1>3, <1>4, <2>2
    <2> QED BY <2>1, <2>3, <2>4
  <1>8. /\ Content(x) \in Seq(Elements) /\ Len(Content(x)) = n /\ Content(x) # <<>>
        /\ \A i \in 1..n : Content(x)[i] = x.queue[(t + i) % s]
    BY <1>1, <1>2 DEF Elems
  <1>9. pop_tail(x).r = Head(Content(x))
    <2>1. t + 1 \in Int /\ 1 \in 1..n
      BY <1>2
    <2>2. pop_tail(x).r = Slot(x, t + 1)
      BY <1>2, <2>1, WellFormedFacts DEF pop_tail
    <2>3. Head(Content(x)) = Content(x)[1]
      BY <1>8
    <2> QED BY <1>2, <1>8, <2>1, <2>2, <2>3 DEF Slot
  <1>10. PICK c \in Seq(Elements) :
           c = Tail(Content(x)) /\ Len(c) = k /\ \A i \in 1..k : c[i] = Content(x)[i + 1]
    <2>1. PICK c : c = Tail(Content(x))
      OBVIOUS
    <2>2. c \in Seq(Elements) /\ Len(c) = n - 1 /\ \A i \in 1..Len(c) : c[i] = Content(x)[i + 1]
      BY <1>8, <2>1, HeadTailProperties
    <2> QED BY <1>3, <2>1, <2>2
  <1>11. ASSUME NEW i \in 1..k PROVE c[i] = x.queue[(g + i) % s]
    <2>1. i + 1 \in 1..n /\ u + i = t + (i + 1)
      BY <1>3, <1>4
    <2>2. (g + i) % s = (u + i) % s
      BY <1>5
    <2> QED BY <1>8, <1>10, <2>1, <2>2
  <1>12. Leaving(y, c, h, g, s, x.queue, k)
    BY <1>2, <1>6, <1>7, <1>10, <1>11 DEF Leaving
  <1>13. WellFormed(y) /\ y.size = s /\ Content(y) = c
    BY <1>12, Leaves, Zenon
  <1> QED BY <1>2, <1>9, <1>10, <1>13

(* A copy writes to each of its slots once.                                *)
LEMMA SlotsApart ==
    ASSUME NEW s \in Sizes, NEW a \in Int, NEW b \in Int, a - b < s, b - a < s,
           Wrap(a) % s = Wrap(b) % s
    PROVE  a = b
  BY SizeFacts, WrapSlot, ModDiffers

LEMMA DownSlot ==
    ASSUME NEW s \in Sizes, NEW top \in Int, NEW n \in 0..s, NEW i \in 0..n-1,
           NEW z, z = Wrap(top - i) % s
    PROVE  /\ \E j \in 0..n-1 : Wrap(top - j) % s = z
           /\ (CHOOSE j \in 0..n-1 : Wrap(top - j) % s = z) = i
  <1>1. s \in Nat
    BY SizeFacts
  <1>2. ASSUME NEW j \in 0..n-1, Wrap(top - j) % s = z PROVE j = i
    <2>1. PICK a \in Int, b \in Int : a = top - j /\ b = top - i
      BY <1>1
    <2>2. a - b < s /\ b - a < s
      BY <1>1, <2>1
    <2>3. a = b
      BY <1>2, <2>1, <2>2, SlotsApart
    <2> QED BY <1>1, <2>1, <2>3
  <1> QED BY <1>2

UpIn(s, to, n, z) == \E j \in 0..n-1 : Wrap(to + j) % s = z

UpIndex(s, to, n, z) == CHOOSE j \in 0..n-1 : Wrap(to + j) % s = z

LEMMA UpSlot ==
    ASSUME NEW s \in Sizes, NEW to \in Int, NEW n \in Nat, n <= s, NEW i \in 0..n-1,
           NEW z, z = Wrap(to + i) % s
    PROVE  UpIn(s, to, n, z) /\ UpIndex(s, to, n, z) = i
  <1>1. s \in Nat
    BY SizeFacts
  <1>2. ASSUME NEW j \in 0..n-1, Wrap(to + j) % s = z PROVE j = i
    <2>1. PICK a \in Int, b \in Int : a = to + j /\ b = to + i
      BY <1>1
    <2>2. a - b < s /\ b - a < s
      BY <1>1, <2>1
    <2>3. a = b
      BY <1>2, <2>1, <2>2, SlotsApart
    <2> QED BY <1>1, <2>1, <2>3
  <1> QED BY <1>2 DEF UpIn, UpIndex

(* And to no other.                                                        *)
LEMMA OtherSlot ==
    ASSUME NEW s \in Sizes, NEW to \in Int, NEW n \in 0..s, NEW i \in n..s-1,
           NEW z, z = Wrap(to + i) % s
    PROVE  ~UpIn(s, to, n, z)
  <1> SUFFICES ASSUME NEW j \in 0..n-1, Wrap(to + j) % s = z PROVE FALSE
    BY DEF UpIn
  <1>1. s \in Nat
    BY SizeFacts
  <1>2. PICK a \in Int, b \in Int : a = to + j /\ b = to + i
    BY <1>1
  <1>3. a - b < s /\ b - a < s /\ a # b
    BY <1>1, <1>2
  <1>4. a = b
    BY <1>2, <1>3, SlotsApart
  <1> QED BY <1>3, <1>4

LEMMA ResizeOp ==
    ASSUME NEW x, WellFormed(x), NEW size \in Sizes, xq_count(x) <= size,
           NEW y, y = resize(x, size).x
    PROVE  /\ WellFormed(y) /\ y.size = size /\ resize(x, size).r = xq_count(x)
           /\ Content(y) = D!Upside(Content(x))
  <1>1. PICK h \in Int, t \in Int, s \in Nat \ {0}, n \in Nat :
          Fields(x, h, t, s, n) /\ Elems(x, t, s, n) /\ HeadAt(h, t, s, n)
    BY AsRing
  <1>2. /\ s \in Sizes /\ x.queue \in [0..s-1 -> Elements]
        /\ x.size = s /\ x.head = h /\ xq_count(x) = n
    BY <1>1 DEF Fields
  <1>3. size \in Nat \ {0} /\ n \in 0..size
    BY <1>2, SizeFacts
  <1>4. PICK u \in Int, l \in Int : u = 0 - n /\ l = h - n
    OBVIOUS
  <1>5. PICK g \in Int :
          /\ g = Wrap(u)
          /\ \A j \in Int : Wrap(g + j) = Wrap(u + j) /\ (g + j) % s = (u + j) % s
    BY <1>2, WrapFacts, Zenon
  <1>6. PICK low \in Int :
          /\ low = Wrap(l)
          /\ \A j \in Int : Wrap(low + j) = Wrap(l + j) /\ (low + j) % s = (l + j) % s
    BY <1>2, WrapFacts, Zenon
  <1>7. PICK top \in Int : top = g + 1 + n - 1
    OBVIOUS
  <1> DEFINE w == [z \in 0..size-1 |->
                     IF \E i \in 0..n-1 : Wrap(top - i) % size = z
                     THEN xq_element(x, low + CHOOSE i \in 0..n-1 : Wrap(top - i) % size = z)
                     ELSE Junk]
  <1>8. /\ resize(x, size).r = n
        /\ y = [head |-> 1, tail |-> g, size |-> size, queue |-> w]
    <2> DEFINE new == xq_init_empty(size)
    <2>1. new = [head |-> 1, tail |-> 0, size |-> size, queue |-> [i \in 0..size-1 |-> Junk]]
      BY DEF xq_init_empty
    <2>2. new.tail = 0 /\ \A z \in 0..size-1 : new.queue[z] = Junk
      BY <2>1
    <2>3. ~(n > size)
      BY <1>3
    <2>4. g = Wrap(new.tail - n) /\ low = Wrap(x.head - n)
      BY <1>2, <1>4, <1>5, <1>6, <2>2
    <2>5. resize(x, size) =
            [x |-> [new EXCEPT
                       !.tail  = g,
                       !.queue = [z \in 0..size-1 |->
                          IF \E i \in 0..n-1 : Wrap(top - i) % size = z
                          THEN xq_element(x, low + CHOOSE i \in 0..n-1 :
                                                     Wrap(top - i) % size = z)
                          ELSE @[z]]],
             r |-> n]
      BY <1>2, <1>7, <2>3, <2>4 DEF resize
    <2>6. w = [z \in 0..size-1 |->
                 IF \E i \in 0..n-1 : Wrap(top - i) % size = z
                 THEN xq_element(x, low + CHOOSE i \in 0..n-1 : Wrap(top - i) % size = z)
                 ELSE new.queue[z]]
      BY <2>2
    <2> HIDE DEF new, w
    <2>7. resize(x, size) = [x |-> [new EXCEPT !.tail = g, !.queue = w], r |-> n]
      BY <2>5, <2>6
    <2>8. resize(x, size).r = n /\ y = [new EXCEPT !.tail = g, !.queue = w]
      BY <2>7
    <2> QED BY <2>1, <2>8
  <1>9. ASSUME NEW z \in 0..size-1 PROVE w[z] \in Elements
    <2>1. CASE \E i \in 0..n-1 : Wrap(top - i) % size = z
      <3>1. PICK i \in 0..n-1 : i = CHOOSE j \in 0..n-1 : Wrap(top - j) % size = z
        BY <2>1
      <3>2. PICK e \in Int : e = low + i
        OBVIOUS
      <3>3. w[z] = xq_element(x, e)
        BY <2>1, <3>1, <3>2
      <3>4. xq_element(x, e) \in Elements
        BY WellFormedFacts
      <3> QED BY <3>3, <3>4, Zenon
    <2>2. CASE ~\E i \in 0..n-1 : Wrap(top - i) % size = z
      BY <2>2 DEF Junk, Elements
    <2> QED BY <2>1, <2>2
  <1>10. w \in [0..size-1 -> Elements]
    BY <1>9
  <1>11. Wrap(1) = Wrap(g + 1 + n)
    <2>1. PICK j \in Int : j = 1 + n
      OBVIOUS
    <2>2. Wrap(g + j) = Wrap(u + j)
      BY <1>5
    <2>3. g + j = g + 1 + n /\ u + j = 1
      BY <1>4, <2>1
    <2> QED BY <2>2, <2>3
  <1>12. /\ Content(x) \in Seq(Elements) /\ Len(Content(x)) = n
         /\ \A i \in 1..n : Content(x)[i] = x.queue[(t + i) % s]
    BY <1>1 DEF Elems
  <1>13. PICK c \in Seq(Elements) :
           c = D!Upside(Content(x)) /\ Len(c) = n /\ \A i \in 1..n : c[i] = Content(x)[n + 1 - i]
    <2>1. PICK c : c = [i \in 1..n |-> Content(x)[n + 1 - i]]
      OBVIOUS
    <2>2. c = D!Upside(Content(x))
      BY <1>12, <2>1 DEF D!Upside
    <2>3. \A i \in 1..n : n + 1 - i \in 1..n
      OBVIOUS
    <2>4. c \in Seq(Elements) /\ Len(c) = n /\ \A i \in 1..n : c[i] = Content(x)[n + 1 - i]
      BY <1>12, <2>1, <2>3
    <2> QED BY <2>2, <2>4, Zenon
  <1>14. ASSUME NEW k \in 1..n PROVE c[k] = w[(g + k) % size]
    <2>1. PICK i \in 0..n-1 : i = n - k
      OBVIOUS
    <2>0. PICK z : z = (g + k) % size
      OBVIOUS
    <2>2. top - i = g + k /\ g + k \in Int
      BY <1>7, <2>1
    <2>3. z \in 0..size-1 /\ z = Wrap(top - i) % size
      BY <2>0, <2>2, WrapSlot
    <2>4. /\ \E j \in 0..n-1 : Wrap(top - j) % size = z
          /\ (CHOOSE j \in 0..n-1 : Wrap(top - j) % size = z) = i
      BY <1>3, <2>3, DownSlot
    <2>5. w[z] = xq_element(x, low + i)
      BY <2>3, <2>4
    <2>6. low + i \in Int /\ (low + i) % s = (l + i) % s
      <3>1. i \in Int /\ low + i \in Int
        OBVIOUS
      <3> QED BY <1>6, <3>1, Zenon
    <2>7. w[z] = x.queue[(l + i) % s]
      BY <1>2, <2>5, <2>6, WellFormedFacts DEF Slot
    <2>8. PICK j \in Int : j = i - n
      OBVIOUS
    <2>9. (h + j) % s = (t + 1 + n + j) % s
      BY <1>1 DEF HeadAt
    <2>10. h + j = l + i /\ t + 1 + n + j = t + (n + 1 - k) /\ n + 1 - k \in 1..n
      BY <1>4, <2>1, <2>8
    <2>11. Content(x)[n + 1 - k] = x.queue[(t + (n + 1 - k)) % s]
      BY <1>12, <2>10
    <2> QED BY <1>13, <2>0, <2>7, <2>9, <2>10, <2>11
  <1> HIDE DEF w
  <1>15. Leaving(y, c, 1, g, size, w, n)
    BY <1>3, <1>8, <1>10, <1>11, <1>13, <1>14 DEF Leaving
  <1>16. WellFormed(y) /\ y.size = size /\ Content(y) = c
    BY <1>15, Leaves, Zenon
  <1> QED BY <1>2, <1>8, <1>13, <1>16

(* The two queues of xq_head_to_tail: m elements leave the one ...         *)
LEMMA MoveFromOp ==
    ASSUME NEW x, WellFormed(x), NEW m \in Nat, m <= xq_count(x),
           NEW y, y = [x EXCEPT !.head = Wrap(x.head - m)]
    PROVE  /\ WellFormed(y) /\ y.size = x.size
           /\ Content(y) = SubSeq(Content(x), 1, xq_count(x) - m)
  <1>1. PICK h \in Int, t \in Int, s \in Nat \ {0}, n \in Nat :
          Fields(x, h, t, s, n) /\ Elems(x, t, s, n) /\ HeadAt(h, t, s, n)
    BY AsRing
  <1>2. /\ s \in Sizes /\ x.queue \in [0..s-1 -> Elements]
        /\ x.size = s /\ x.head = h /\ xq_count(x) = n /\ m <= n /\ n <= s
    BY <1>1 DEF Fields
  <1>3. PICK k \in 0..s : k = n - m
    BY <1>2
  <1>4. PICK u \in Int : u = h - m
    OBVIOUS
  <1>5. PICK g \in Int : g = Wrap(u) /\ Wrap(g) = g
    BY <1>2, WrapFacts
  <1>6. y = [head |-> g, tail |-> t, size |-> s, queue |-> x.queue]
    <2>1. PICK e : e = x.queue
      OBVIOUS
    <2>2. x = [head |-> h, tail |-> t, size |-> s, queue |-> e]
      BY <1>1, <2>1 DEF Fields
    <2>3. y = [x EXCEPT !.head = g]
      BY <1>2, <1>4, <1>5
    <2> QED BY <2>1, <2>2, <2>3
  <1>7. Wrap(g) = Wrap(t + 1 + k)
    <2>1. PICK j \in Int : j = -m
      OBVIOUS
    <2>2. Wrap(h + j) = Wrap(t + 1 + n + j)
      BY <1>1 DEF HeadAt
    <2>3. h + j = u /\ t + 1 + n + j = t + 1 + k
      BY <1>3, <1>4, <2>1
    <2> QED BY <1>5, <2>2, <2>3
  <1>8. PICK c \in Seq(Elements) :
          /\ c = SubSeq(Content(x), 1, n - m) /\ Len(c) = k
          /\ \A i \in 1..k : c[i] = x.queue[(t + i) % s]
    <2>1. PICK a \in Int, b \in Int : a = 1 /\ b = k
      OBVIOUS
    <2>2. Content(x) \in Seq(Elements) /\ Len(Content(x)) = n /\ \A i \in a..b : i \in 1..n
      BY <1>1, <1>2, <1>3, <2>1 DEF Elems
    <2>3. \A i \in a..b : Content(x)[i] \in Elements
      BY <2>2
    <2>4. PICK c : c = SubSeq(Content(x), a, b)
      OBVIOUS
    <2>5. /\ c \in Seq(Elements) /\ Len(c) = IF a <= b THEN b - a + 1 ELSE 0
          /\ \A i \in 1..b - a + 1 : c[i] = Content(x)[a + i - 1]
      <3>1. PICK d : d = Content(x)
        OBVIOUS
      <3>2. \A i \in a..b : d[i] \in Elements
        BY <2>3, <3>1
      <3>3. /\ SubSeq(d, a, b) \in Seq(Elements)
            /\ Len(SubSeq(d, a, b)) = IF a <= b THEN b - a + 1 ELSE 0
            /\ \A i \in 1..b - a + 1 : SubSeq(d, a, b)[i] = d[a + i - 1]
        BY <3>2, SubSeqProperties
      <3> QED BY <2>4, <3>1, <3>3
    <2>6. b - a + 1 = k /\ (~(a <= b) => k = 0) /\ \A i \in 1..k : a + i - 1 = i
      BY <2>1
    <2>7. Len(c) = k /\ \A i \in 1..k : c[i] = Content(x)[i]
      BY <2>5, <2>6
    <2>8. \A i \in 1..k : c[i] = x.queue[(t + i) % s]
      BY <1>1, <2>1, <2>2, <2>7 DEF Elems
    <2> QED BY <1>3, <2>1, <2>4, <2>5, <2>7, <2>8, Zenon
  <1>9. Leaving(y, c, g, t, s, x.queue, k)
    BY <1>2, <1>6, <1>7, <1>8 DEF Leaving
  <1>10. WellFormed(y) /\ y.size = s /\ Content(y) = c
    BY <1>9, Leaves, Zenon
  <1> QED BY <1>2, <1>8, <1>10

(* ... and come to the other.                                              *)
MovedTo(x, q, m) ==
    [q EXCEPT !.tail = Wrap(q.tail - m),
              !.queue = copied(x, q, Wrap(x.head - m), Wrap(q.tail - m) + 1, m)]

MayMove(x, q, m, y) == /\ WellFormed(x) /\ WellFormed(q) /\ m \in Nat /\ m <= xq_count(x)
                       /\ xq_count(q) + m <= q.size /\ y = MovedTo(x, q, m)

Joined(x, q, m, y) ==
    /\ WellFormed(y) /\ y.size = q.size
    /\ Content(y) = SubSeq(Content(x), xq_count(x) - m + 1, xq_count(x) - m + m) \o Content(q)

LEMMA MoveToOp ==
    ASSUME NEW x, NEW q, NEW m, NEW y, MayMove(x, q, m, y) PROVE Joined(x, q, m, y)
  <1> SUFFICES ASSUME WellFormed(x), WellFormed(q), m \in Nat, m <= xq_count(x),
                      xq_count(q) + m <= q.size, y = MovedTo(x, q, m)
               PROVE  /\ WellFormed(y) /\ y.size = q.size
                      /\ Content(y) = SubSeq(Content(x), xq_count(x) - m + 1, xq_count(x) - m + m)
                                      \o Content(q)
    BY DEF MayMove, Joined
  <1>1. PICK hx \in Int, tx \in Int, sx \in Nat \ {0}, nx \in Nat :
          Fields(x, hx, tx, sx, nx) /\ Elems(x, tx, sx, nx) /\ HeadAt(hx, tx, sx, nx)
    BY AsRing
  <1>2. /\ sx \in Sizes /\ x.queue \in [0..sx-1 -> Elements]
        /\ x.size = sx /\ x.head = hx /\ xq_count(x) = nx /\ m <= nx /\ nx <= sx
    BY <1>1 DEF Fields
  <1>3. PICK h \in Int, t \in Int, s \in Nat \ {0}, n \in Nat :
          Fields(q, h, t, s, n) /\ Elems(q, t, s, n) /\ HeadAt(h, t, s, n)
    BY AsRing
  <1>4. /\ s \in Sizes /\ q.queue \in [0..s-1 -> Elements]
        /\ q.size = s /\ q.tail = t /\ xq_count(q) = n /\ n + m <= s
    BY <1>3 DEF Fields
  <1>5. PICK k \in 0..s : k = n + m
    BY <1>4
  <1>6. PICK u \in Int, l \in Int : u = t - m /\ l = hx - m
    OBVIOUS
  <1>7. PICK g \in Int :
          /\ g = Wrap(u)
          /\ \A j \in Int : Wrap(g + j) = Wrap(u + j) /\ (g + j) % s = (u + j) % s
    <2>1. s \in Sizes /\ u \in Int
      BY <1>4, <1>6
    <2>2. /\ Wrap(u) \in Int
          /\ \A j \in Int : Wrap(Wrap(u) + j) = Wrap(u + j) /\ (Wrap(u) + j) % s = (u + j) % s
      BY <2>1, WrapFacts, Zenon
    <2> QED BY <2>2, Zenon
  <1>8. PICK from \in Int :
          /\ from = Wrap(l)
          /\ \A j \in Int : Wrap(from + j) = Wrap(l + j) /\ (from + j) % sx = (l + j) % sx
    <2>1. sx \in Sizes /\ l \in Int
      BY <1>2, <1>6
    <2>2. /\ Wrap(l) \in Int
          /\ \A j \in Int : Wrap(Wrap(l) + j) = Wrap(l + j) /\ (Wrap(l) + j) % sx = (l + j) % sx
      BY <2>1, WrapFacts, Zenon
    <2> QED BY <2>2, Zenon
  <1>9. PICK to \in Int : to = g + 1
    OBVIOUS
  <1> DEFINE w == copied(x, q, from, to, m)
  <1>10. w = [z \in 0..s-1 |-> IF UpIn(s, to, m, z) THEN xq_element(x, from + UpIndex(s, to, m, z))
                                                  ELSE q.queue[z]]
    BY <1>4 DEF copied, UpIn, UpIndex
  <1> HIDE DEF w
  <1>11. y = [head |-> h, tail |-> g, size |-> s, queue |-> w]
    <2>1. PICK e : e = q.queue
      OBVIOUS
    <2>2. q = [head |-> h, tail |-> t, size |-> s, queue |-> e]
      BY <1>3, <2>1 DEF Fields
    <2>3. Wrap(x.head - m) = from /\ Wrap(q.tail - m) = g
      BY <1>2, <1>4, <1>6, <1>7, <1>8
    <2>4. y = [q EXCEPT !.tail = g, !.queue = w]
      BY <1>9, <2>3 DEF w, MovedTo
    <2> QED BY <2>2, <2>4
  <1>12. ASSUME NEW z \in 0..s-1 PROVE w[z] \in Elements
    <2>1. CASE UpIn(s, to, m, z)
      <3>1. PICK i \in 0..m-1 : i = UpIndex(s, to, m, z)
        BY <2>1 DEF UpIn, UpIndex
      <3>2. PICK e \in Int : e = from + i
        OBVIOUS
      <3>3. w[z] = xq_element(x, e)
        BY <1>10, <2>1, <3>1, <3>2
      <3>4. xq_element(x, e) \in Elements
        BY WellFormedFacts
      <3> QED BY <3>3, <3>4, Zenon
    <2>2. CASE ~UpIn(s, to, m, z)
      BY <1>4, <1>10, <2>2
    <2> QED BY <2>1, <2>2
  <1>13. w \in [0..s-1 -> Elements]
    BY <1>10, <1>12
  <1>14. Wrap(h) = Wrap(g + 1 + k)
    <2>1. Wrap(h) = Wrap(t + 1 + n)
      BY <1>3, HeadAtSlot
    <2>2. PICK j \in Int : j = 1 + k
      BY <1>5
    <2>3. Wrap(g + j) = Wrap(u + j)
      BY <1>7
    <2>4. g + j = g + 1 + k /\ u + j = t + 1 + n
      BY <1>5, <1>6, <2>2
    <2> QED BY <2>1, <2>3, <2>4
  <1>15. PICK c \in Seq(Elements) :
           /\ c = SubSeq(Content(x), nx - m + 1, nx - m + m) \o Content(q) /\ Len(c) = k
           /\ \A i \in 1..m : c[i] = Content(x)[nx - m + i]
           /\ \A i \in m+1..k : c[i] = Content(q)[i - m]
    <2>1. PICK a \in Int, b \in Int : a = nx - m + 1 /\ b = nx - m + m
      OBVIOUS
    <2>2. \A i \in a..b : Content(x)[i] \in Elements
      BY <1>1, <1>2, <2>1 DEF Elems
    <2>3. PICK d : d = SubSeq(Content(x), a, b)
      OBVIOUS
    <2>4. /\ d \in Seq(Elements) /\ Len(d) = IF a <= b THEN b - a + 1 ELSE 0
          /\ \A i \in 1..b - a + 1 : d[i] = Content(x)[a + i - 1]
      BY <2>2, <2>3, SubSeqProperties
    <2>5. Len(d) = m /\ \A i \in 1..m : d[i] = Content(x)[nx - m + i]
      <3>1. b - a + 1 = m /\ (~(a <= b) => m = 0)
        BY <2>1
      <3>2. \A i \in 1..m : a + i - 1 = nx - m + i
        BY <2>1
      <3> QED BY <2>4, <3>1, <3>2
    <2>6. Content(q) \in Seq(Elements) /\ Len(Content(q)) = n
      BY <1>3 DEF Elems
    <2>7. PICK c, p : p = Content(q) /\ c = d \o p
      OBVIOUS
    <2>8. /\ c \in Seq(Elements) /\ Len(c) = Len(d) + Len(p)
          /\ \A i \in 1..Len(d) + Len(p) : c[i] = IF i <= Len(d) THEN d[i] ELSE p[i - Len(d)]
      <3>1. d \in Seq(Elements) /\ p \in Seq(Elements)
        BY <2>4, <2>6, <2>7
      <3> QED BY <2>7, <3>1, ConcatProperties
    <2>11. /\ c \in Seq(Elements) /\ Len(c) = m + n
          /\ \A i \in 1..m + n : c[i] = IF i <= m THEN d[i] ELSE Content(q)[i - m]
      BY <2>5, <2>6, <2>7, <2>8
    <2>9. /\ Len(c) = k
          /\ \A i \in 1..m : c[i] = Content(x)[nx - m + i]
          /\ \A i \in m+1..k : c[i] = Content(q)[i - m]
      BY <1>5, <2>5, <2>11
    <2>10. c = SubSeq(Content(x), nx - m + 1, nx - m + m) \o Content(q)
      BY <2>1, <2>3, <2>7
    <2> QED BY <2>11, <2>9, <2>10, Zenon
  <1>16. ASSUME NEW i \in 1..k PROVE c[i] = w[(g + i) % s]
    <2>1. PICK p \in 0..s-1 : p = i - 1
      BY <1>5
    <2>0. PICK z : z = (g + i) % s
      OBVIOUS
    <2>2. to + p = g + i /\ g + i \in Int
      BY <1>9, <2>1
    <2>3. z \in 0..s-1 /\ z = Wrap(to + p) % s
      BY <1>4, <2>0, <2>2, WrapSlot
    <2>4. CASE i <= m
      <3>1. p \in 0..m-1 /\ m \in 0..s
        BY <1>4, <2>1, <2>4
      <3>2. UpIn(s, to, m, z) /\ UpIndex(s, to, m, z) = p
        <4>1. s \in Sizes /\ m <= s /\ p \in 0..m-1 /\ z = Wrap(to + p) % s
          BY <1>4, <2>3, <3>1
        <4> HIDE <2>3, <3>1
        <4> QED BY <4>1, UpSlot
      <3>3. w[z] = xq_element(x, from + p)
        BY <1>10, <2>3, <3>2
      <3>4. from + p \in Int /\ (from + p) % sx = (l + p) % sx
        <4>1. p \in Int /\ from + p \in Int
          OBVIOUS
        <4> QED BY <1>8, <4>1, Zenon
      <3>5. w[z] = x.queue[(l + p) % sx]
        BY <1>2, <3>3, <3>4, WellFormedFacts DEF Slot
      <3>6. PICK b \in Int : b = p - m
        OBVIOUS
      <3>7. (hx + b) % sx = (tx + 1 + nx + b) % sx
        BY <1>1 DEF HeadAt
      <3>8. /\ hx + b = l + p /\ tx + 1 + nx + b = tx + (nx - m + i)
            /\ nx - m + i \in 1..nx /\ i \in 1..m
        <4>1. i \in Int /\ m \in Int /\ p = i - 1 /\ b = p - m /\ l = hx - m
          BY <1>6, <2>1, <3>6
        <4>2. hx + b = l + p /\ tx + 1 + nx + b = tx + (nx - m + i)
          BY <4>1
        <4>3. 1 <= i /\ i <= m /\ m <= nx
          BY <1>2, <2>4
        <4>4. nx - m + i \in 1..nx /\ i \in 1..m
          BY <4>1, <4>3
        <4> QED BY <4>2, <4>4
      <3>9. Content(x)[nx - m + i] = x.queue[(tx + (nx - m + i)) % sx]
        BY <1>1, <3>8 DEF Elems
      <3> QED BY <1>15, <2>0, <2>1, <3>5, <3>7, <3>8, <3>9
    <2>5. CASE i > m
      <3>1. p \in m..s-1 /\ m \in 0..s
        BY <1>4, <2>1, <2>5
      <3>2. ~UpIn(s, to, m, z)
        BY <1>4, <2>3, <3>1, OtherSlot
      <3>3. w[z] = q.queue[z]
        BY <1>10, <2>3, <3>2
      <3>4. (g + i) % s = (u + i) % s
        BY <1>7
      <3>5. u + i = t + (i - m) /\ i - m \in 1..n /\ i \in m+1..k
        BY <1>5, <1>6, <2>5
      <3>6. Content(q)[i - m] = q.queue[(t + (i - m)) % s]
        BY <1>3, <3>5 DEF Elems
      <3> QED BY <1>15, <2>0, <2>1, <3>3, <3>4, <3>5, <3>6
    <2> QED BY <2>4, <2>5
  <1>17. Leaving(y, c, h, g, s, w, k)
    BY <1>4, <1>11, <1>13, <1>14, <1>15, <1>16 DEF Leaving
  <1>18. WellFormed(y) /\ y.size = s /\ Content(y) = c
    BY <1>17, Leaves, Zenon
  <1> QED BY <1>2, <1>4, <1>15, <1>18

-----------------------------------------------------------------------------
(* The queues as the deques they stand for.                                *)

Deq == [q \in Queues |-> Content(xq[q])]
Cap == [q \in Queues |-> xq[q].size]

RingInv == /\ xq = [q \in Queues |-> xq[q]]
           /\ \A q \in Queues : WellFormed(xq[q])

(* What Deque says of an operation, in these terms.                        *)
PushStep(q, v, s) == /\ IF Len(Deq[q]) < Cap[q] THEN Deq' = [Deq EXCEPT ![q] = s] /\ ret' = v
                                                ELSE Deq' = Deq /\ ret' = Noneidx
                     /\ Cap' = Cap

PopStep(q, v, s) == /\ IF Deq[q] = <<>> THEN Deq' = Deq /\ ret' = Noneidx
                                        ELSE Deq' = [Deq EXCEPT ![q] = s] /\ ret' = v
                    /\ Cap' = Cap

LEMMA DequeSteps ==
    ASSUME NEW q \in Queues
    PROVE  /\ \A v \in Values : PushStep(q, v, Append(Deq[q], v)) => D!AppendHead(q, v)
           /\ \A v \in Values : PushStep(q, v, <<v>> \o Deq[q]) => D!AppendTail(q, v)
           /\ PopStep(q, Deq[q][Len(Deq[q])], SubSeq(Deq[q], 1, Len(Deq[q]) - 1)) => D!PopHead(q)
           /\ PopStep(q, Head(Deq[q]), Tail(Deq[q])) => D!PopTail(q)
           /\ PopStep(q, Deq[q][Len(Deq[q])], Deq[q]) => D!PeekHead(q)
           /\ PopStep(q, Head(Deq[q]), Deq[q]) => D!PeekTail(q)
  BY DEF PushStep, PopStep, Deq, Cap, D!AppendHead, D!AppendTail, D!PopHead, D!PopTail,
         D!PeekHead, D!PeekTail, D!Push, D!Pop, D!Room

LEMMA OneQueue ==
    ASSUME RingInv, NEW q \in Queues, NEW y, WellFormed(y), xq' = [xq EXCEPT ![q] = y]
    PROVE  /\ RingInv'
           /\ Deq' = [Deq EXCEPT ![q] = Content(y)]
           /\ Cap' = [Cap EXCEPT ![q] = y.size]
           /\ y.size = xq[q].size => Cap' = Cap
           /\ y = xq[q] => xq' = xq /\ Deq' = Deq /\ Cap' = Cap
  <1>1. /\ xq' = [p \in Queues |-> xq'[p]] /\ xq'[q] = y
        /\ \A p \in Queues \ {q} : xq'[p] = xq[p]
    BY DEF RingInv
  <1>2. RingInv'
    BY <1>1 DEF RingInv
  <1>3. Deq' = [Deq EXCEPT ![q] = Content(y)]
    BY <1>1 DEF Deq
  <1>4. Cap' = [Cap EXCEPT ![q] = y.size]
    BY <1>1 DEF Cap
  <1>5. y.size = xq[q].size => Cap' = Cap
    BY <1>1 DEF Cap
  <1>6. y = xq[q] => xq' = xq
    BY <1>1 DEF RingInv
  <1>7. xq' = xq => Deq' = Deq /\ Cap' = Cap
    BY DEF Deq, Cap
  <1> QED BY <1>2, <1>3, <1>4, <1>5, <1>6, <1>7

LEMMA DeqFacts ==
    ASSUME RingInv, NEW q \in Queues
    PROVE  /\ WellFormed(xq[q]) /\ Deq[q] = Content(xq[q]) /\ Cap[q] = xq[q].size
           /\ Len(Deq[q]) = xq_count(xq[q]) /\ xq_count(xq[q]) \in Nat
           /\ xq[q].size \in Sizes /\ xq[q].size \in Nat
           /\ Deq[q] = <<>> <=> xq_count(xq[q]) = 0
  <1>1. WellFormed(xq[q]) /\ Deq[q] = Content(xq[q]) /\ Cap[q] = xq[q].size
    BY DEF RingInv, Deq, Cap
  <1>2. Content(xq[q]) \in Seq(Elements) /\ Len(Content(xq[q])) = xq_count(xq[q])
    BY <1>1, ContentSeq
  <1>3. xq_count(xq[q]) \in Nat /\ xq[q].size \in Sizes /\ xq[q].size \in Nat
    BY <1>1, WellFormedFacts
  <1>4. Content(xq[q]) = <<>> <=> xq_count(xq[q]) = 0
    BY <1>2, EmptySeq
  <1> QED BY <1>1, <1>2, <1>3, <1>4

LEMMA AppendSteps ==
    ASSUME RingInv, NEW t \in Callers, NEW q \in Queues, NEW v \in Values,
           AppendHead(t, q, v) \/ AppendTail(t, q, v)
    PROVE  RingInv' /\ (D!AppendHead(q, v) \/ D!AppendTail(q, v))
  <1>1. PICK x : x = xq[q]
    OBVIOUS
  <1>2. /\ WellFormed(x) /\ Deq[q] = Content(x) /\ Cap[q] = x.size
        /\ Len(Deq[q]) = xq_count(x) /\ xq_count(x) \in Nat /\ x.size \in Nat
    BY <1>1, DeqFacts
  <1>3. CASE AppendHead(t, q, v)
    <2>1. PICK y : y = append_head(x, v).x /\ xq' = [xq EXCEPT ![q] = y] /\ ret' = append_head(x, v).r
      BY <1>1, <1>3 DEF AppendHead, Locked
    <2>2. CASE xq_count(x) < x.size
      <3>1. /\ WellFormed(y) /\ y.size = x.size /\ append_head(x, v).r = v
            /\ Content(y) = Append(Content(x), v)
        BY <1>2, <2>1, <2>2, AppendHeadOp
      <3>2. RingInv' /\ Deq' = [Deq EXCEPT ![q] = Content(y)] /\ Cap' = Cap
        BY <1>1, <2>1, <3>1, OneQueue
      <3>3. PushStep(q, v, Append(Deq[q], v))
        BY <1>2, <2>1, <2>2, <3>1, <3>2 DEF PushStep
      <3> QED BY <3>2, <3>3, DequeSteps
    <2>3. CASE ~(xq_count(x) < x.size)
      <3>1. y = x /\ ret' = Noneidx
        BY <1>2, <2>1, <2>3 DEF append_head
      <3>2. RingInv' /\ Deq' = Deq /\ Cap' = Cap
        BY <1>1, <1>2, <2>1, <3>1, OneQueue
      <3>3. PushStep(q, v, Append(Deq[q], v))
        BY <1>2, <2>3, <3>1, <3>2 DEF PushStep
      <3> QED BY <3>2, <3>3, DequeSteps
    <2> QED BY <2>2, <2>3
  <1>4. CASE AppendTail(t, q, v)
    <2>1. PICK y : y = append_tail(x, v).x /\ xq' = [xq EXCEPT ![q] = y] /\ ret' = append_tail(x, v).r
      BY <1>1, <1>4 DEF AppendTail, Locked
    <2>2. CASE xq_count(x) < x.size
      <3>1. /\ WellFormed(y) /\ y.size = x.size /\ append_tail(x, v).r = v
            /\ Content(y) = <<v>> \o Content(x)
        BY <1>2, <2>1, <2>2, AppendTailOp
      <3>2. RingInv' /\ Deq' = [Deq EXCEPT ![q] = Content(y)] /\ Cap' = Cap
        BY <1>1, <2>1, <3>1, OneQueue
      <3>3. PushStep(q, v, <<v>> \o Deq[q])
        BY <1>2, <2>1, <2>2, <3>1, <3>2 DEF PushStep
      <3> QED BY <3>2, <3>3, DequeSteps
    <2>3. CASE ~(xq_count(x) < x.size)
      <3>1. y = x /\ ret' = Noneidx
        BY <1>2, <2>1, <2>3 DEF append_tail
      <3>2. RingInv' /\ Deq' = Deq /\ Cap' = Cap
        BY <1>1, <1>2, <2>1, <3>1, OneQueue
      <3>3. PushStep(q, v, <<v>> \o Deq[q])
        BY <1>2, <2>3, <3>1, <3>2 DEF PushStep
      <3> QED BY <3>2, <3>3, DequeSteps
    <2> QED BY <2>2, <2>3
  <1> QED BY <1>3, <1>4

LEMMA PopHeadSteps ==
    ASSUME RingInv, NEW t \in Callers, NEW q \in Queues, PopHead(t, q) \/ PeekHead(t, q)
    PROVE  RingInv' /\ (D!PopHead(q) \/ D!PeekHead(q))
  <1>1. PICK x : x = xq[q]
    OBVIOUS
  <1>2. /\ WellFormed(x) /\ Deq[q] = Content(x) /\ Cap[q] = x.size
        /\ Len(Deq[q]) = xq_count(x) /\ (Deq[q] = <<>> <=> xq_count(x) = 0)
    BY <1>1, DeqFacts
  <1>3. ASSUME xq_count(x) = 0 PROVE RingInv' /\ (D!PopHead(q) \/ D!PeekHead(q))
    <2>1. PICK y : y = x /\ xq' = [xq EXCEPT ![q] = y] /\ ret' = Noneidx
      BY <1>1, <1>3 DEF PopHead, PeekHead, Locked, pop_head, peek_head
    <2>2. RingInv' /\ Deq' = Deq /\ Cap' = Cap
      BY <1>1, <1>2, <2>1, OneQueue
    <2>3. PopStep(q, Deq[q][Len(Deq[q])], Deq[q])
      BY <1>2, <1>3, <2>1, <2>2 DEF PopStep
    <2> QED BY <2>2, <2>3, DequeSteps
  <1>4. ASSUME xq_count(x) # 0 PROVE RingInv' /\ (D!PopHead(q) \/ D!PeekHead(q))
    <2>1. PICK y : y = pop_head(x).x
      OBVIOUS
    <2>2. /\ WellFormed(y) /\ y.size = x.size /\ pop_head(x).r = Content(x)[xq_count(x)]
          /\ Content(y) = SubSeq(Content(x), 1, xq_count(x) - 1)
      BY <1>2, <1>4, <2>1, PopHeadOp
    <2>3. CASE PopHead(t, q)
      <3>1. xq' = [xq EXCEPT ![q] = y] /\ ret' = pop_head(x).r
        BY <1>1, <2>1, <2>3 DEF PopHead, Locked
      <3>2. RingInv' /\ Deq' = [Deq EXCEPT ![q] = Content(y)] /\ Cap' = Cap
        BY <1>1, <2>2, <3>1, OneQueue
      <3>3. PopStep(q, Deq[q][Len(Deq[q])], SubSeq(Deq[q], 1, Len(Deq[q]) - 1))
        BY <1>2, <1>4, <2>2, <3>1, <3>2 DEF PopStep
      <3> QED BY <3>2, <3>3, DequeSteps
    <2>4. CASE PeekHead(t, q)
      <3>1. xq' = [xq EXCEPT ![q] = x] /\ ret' = pop_head(x).r
        BY <1>1, <2>4 DEF PeekHead, Locked, peek_head
      <3>2. RingInv' /\ Deq' = [Deq EXCEPT ![q] = Content(x)] /\ Cap' = Cap
        BY <1>1, <1>2, <3>1, OneQueue
      <3>3. PopStep(q, Deq[q][Len(Deq[q])], Deq[q])
        BY <1>2, <1>4, <2>2, <3>1, <3>2 DEF PopStep
      <3> QED BY <3>2, <3>3, DequeSteps
    <2> QED BY <2>3, <2>4
  <1> QED BY <1>3, <1>4

LEMMA PopTailSteps ==
    ASSUME RingInv, NEW t \in Callers, NEW q \in Queues, PopTail(t, q) \/ PeekTail(t, q)
    PROVE  RingInv' /\ (D!PopTail(q) \/ D!PeekTail(q))
  <1>1. PICK x : x = xq[q]
    OBVIOUS
  <1>2. /\ WellFormed(x) /\ Deq[q] = Content(x) /\ Cap[q] = x.size
        /\ Len(Deq[q]) = xq_count(x) /\ (Deq[q] = <<>> <=> xq_count(x) = 0)
    BY <1>1, DeqFacts
  <1>3. ASSUME xq_count(x) = 0 PROVE RingInv' /\ (D!PopTail(q) \/ D!PeekTail(q))
    <2>1. PICK y : y = x /\ xq' = [xq EXCEPT ![q] = y] /\ ret' = Noneidx
      BY <1>1, <1>3 DEF PopTail, PeekTail, Locked, pop_tail, peek_tail
    <2>2. RingInv' /\ Deq' = Deq /\ Cap' = Cap
      BY <1>1, <1>2, <2>1, OneQueue
    <2>3. PopStep(q, Head(Deq[q]), Deq[q])
      BY <1>2, <1>3, <2>1, <2>2 DEF PopStep
    <2> QED BY <2>2, <2>3, DequeSteps
  <1>4. ASSUME xq_count(x) # 0 PROVE RingInv' /\ (D!PopTail(q) \/ D!PeekTail(q))
    <2>1. PICK y : y = pop_tail(x).x
      OBVIOUS
    <2>2. /\ WellFormed(y) /\ y.size = x.size /\ pop_tail(x).r = Head(Content(x))
          /\ Content(y) = Tail(Content(x))
      BY <1>2, <1>4, <2>1, PopTailOp
    <2>3. CASE PopTail(t, q)
      <3>1. xq' = [xq EXCEPT ![q] = y] /\ ret' = pop_tail(x).r
        BY <1>1, <2>1, <2>3 DEF PopTail, Locked
      <3>2. RingInv' /\ Deq' = [Deq EXCEPT ![q] = Content(y)] /\ Cap' = Cap
        BY <1>1, <2>2, <3>1, OneQueue
      <3>3. PopStep(q, Head(Deq[q]), Tail(Deq[q]))
        BY <1>2, <1>4, <2>2, <3>1, <3>2 DEF PopStep
      <3> QED BY <3>2, <3>3, DequeSteps
    <2>4. CASE PeekTail(t, q)
      <3>1. xq' = [xq EXCEPT ![q] = x] /\ ret' = pop_tail(x).r
        BY <1>1, <2>4 DEF PeekTail, Locked, peek_tail
      <3>2. RingInv' /\ Deq' = [Deq EXCEPT ![q] = Content(x)] /\ Cap' = Cap
        BY <1>1, <1>2, <3>1, OneQueue
      <3>3. PopStep(q, Head(Deq[q]), Deq[q])
        BY <1>2, <1>4, <2>2, <3>1, <3>2 DEF PopStep
      <3> QED BY <3>2, <3>3, DequeSteps
    <2> QED BY <2>3, <2>4
  <1> QED BY <1>3, <1>4

LEMMA CheckStep ==
    ASSUME RingInv, NEW t \in Callers, NEW q \in Queues, NEW v \in Values, Check(t, q, v)
    PROVE  RingInv' /\ D!Check(q, v)
  <1>1. PICK x, n : x = xq[q] /\ n = xq_count(x)
    OBVIOUS
  <1>2. /\ WellFormed(x) /\ Deq[q] = Content(x) /\ Len(Deq[q]) = n
    BY <1>1, DeqFacts
  <1>3. /\ xq' = [xq EXCEPT ![q] = x]
        /\ ret' = IF \E k \in 1..n : xq_element(x, x.tail + k) = v THEN 1 ELSE 0
    BY <1>1 DEF Check, Locked, check
  <1>4. \A k \in 1..n : Deq[q][k] = xq_element(x, x.tail + k)
    BY <1>1, <1>2 DEF Content
  <1>5. RingInv' /\ Deq' = Deq /\ Cap' = Cap
    BY <1>1, <1>2, <1>3, OneQueue
  <1>6. ret' = IF \E i \in 1..Len(Deq[q]) : Deq[q][i] = v THEN 1 ELSE 0
    BY <1>2, <1>3, <1>4
  <1> QED BY <1>5, <1>6 DEF D!Check, Deq, Cap

LEMMA ResizeStep ==
    ASSUME RingInv, NEW t \in Callers, NEW q \in Queues, NEW size \in Sizes, Resize(t, q, size)
    PROVE  RingInv' /\ D!Resize(q, size)
  <1>1. PICK x, n : x = xq[q] /\ n = xq_count(x)
    OBVIOUS
  <1>2. /\ WellFormed(x) /\ Deq[q] = Content(x) /\ Len(Deq[q]) = n /\ n \in Nat
    BY <1>1, DeqFacts
  <1>3. PICK y : /\ y = resize(x, size).x /\ xq' = [xq EXCEPT ![q] = y]
                 /\ ret' = resize(x, size).r
    BY <1>1 DEF Resize, Locked
  <1>4. size \in Nat
    BY SizeFacts
  <1>5. CASE n <= size
    <2>1. /\ WellFormed(y) /\ y.size = size /\ ret' = n
          /\ Content(y) = D!Upside(Deq[q])
      BY <1>1, <1>2, <1>3, <1>5, ResizeOp
    <2>4. PICK e : e = D!Upside(Deq[q])
      OBVIOUS
    <2>5. /\ RingInv' /\ Deq' = [Deq EXCEPT ![q] = Content(y)]
          /\ Cap' = [Cap EXCEPT ![q] = y.size]
      BY <1>3, <2>1, OneQueue
    <2>2. /\ RingInv' /\ Deq' = [Deq EXCEPT ![q] = D!Upside(Deq[q])]
          /\ Cap' = [Cap EXCEPT ![q] = size]
      BY <2>1, <2>4, <2>5
    <2>3. /\ Len(Deq[q]) <= size /\ ret' = Len(Deq[q])
      BY <1>2, <1>5, <2>1
    <2> QED BY <2>2, <2>3 DEF D!Resize, Deq, Cap
  <1>6. CASE ~(n <= size)
    <2>1. y = x /\ ret' = Noneidx
      BY <1>1, <1>2, <1>3, <1>4, <1>6 DEF resize
    <2>2. RingInv' /\ Deq' = Deq /\ Cap' = Cap
      BY <1>1, <1>2, <1>3, <2>1, OneQueue
    <2>3. ~(Len(Deq[q]) <= size)
      BY <1>2, <1>6
    <2> QED BY <2>1, <2>2, <2>3 DEF D!Resize, Deq, Cap
  <1> QED BY <1>5, <1>6

(* xq_head_to_tail takes effect when it has its second lock.               *)
LEMMA MoveStep ==
    ASSUME RingInv, LockInv, NEW t \in Callers, HeadToTailSecond(t)
    PROVE  /\ RingInv'
           /\ \E h, q \in Queues, n \in Sizes : h # q /\ D!HeadToTail(h, q, n)
  <1>1. PICK c \in Calls : c = call[t]
    BY DEF HeadToTailSecond, LockInv, Idle
  <1>2. PICK h \in Queues, q \in Queues, m \in Sizes :
          h = c.headq /\ q = c.tailq /\ m = c.nr /\ h # q
    BY DEF Calls
  <1>3. PICK x, z : x = xq[h] /\ z = xq[q]
    OBVIOUS
  <1>4. /\ WellFormed(x) /\ Deq[h] = Content(x) /\ Len(Deq[h]) = xq_count(x) /\ xq_count(x) \in Nat
        /\ WellFormed(z) /\ Deq[q] = Content(z) /\ Len(Deq[q]) = xq_count(z) /\ xq_count(z) \in Nat
        /\ Cap[q] = z.size /\ z.size \in Nat
    BY <1>3, DeqFacts
  <1>5. m \in Nat
    BY SizeFacts
  <1>6. Fits(c) <=> m <= xq_count(x) /\ xq_count(z) + m <= z.size
    BY <1>2, <1>3, <1>4, <1>5 DEF Fits
  <1>7. CASE ~Fits(c)
    <2>1. xq' = xq /\ ret' = Noneidx
      BY <1>1, <1>7 DEF HeadToTailSecond
    <2>2. RingInv' /\ Deq' = Deq /\ Cap' = Cap
      BY <2>1 DEF RingInv, Deq, Cap
    <2>3. ~(Len(Deq[h]) - m >= 0 /\ Len(Deq[q]) + m <= Cap[q])
      BY <1>4, <1>5, <1>6, <1>7
    <2>4. D!HeadToTail(h, q, m)
      BY <2>1, <2>2, <2>3 DEF D!HeadToTail, Deq, Cap
    <2> QED BY <1>2, <2>2, <2>4
  <1>8. CASE Fits(c)
    <2>1. PICK y, w : /\ y = [x EXCEPT !.head = Wrap(x.head - m)]
                      /\ w = MovedTo(x, z, m)
      OBVIOUS
    <2>2. /\ WellFormed(y) /\ y.size = x.size
          /\ Content(y) = SubSeq(Content(x), 1, xq_count(x) - m)
      BY <1>4, <1>5, <1>6, <1>8, <2>1, MoveFromOp
    <2>3. /\ WellFormed(w) /\ w.size = z.size
          /\ Content(w) = SubSeq(Content(x), xq_count(x) - m + 1, xq_count(x) - m + m) \o Content(z)
      <3>1. m <= xq_count(x) /\ xq_count(z) + m <= z.size
        BY <1>6, <1>8
      <3>2. WellFormed(x) /\ WellFormed(z)
        BY <1>4
      <3>3. w = MovedTo(x, z, m)
        BY <2>1
      <3>4. MayMove(x, z, m, w)
        BY <1>5, <3>1, <3>2, <3>3 DEF MayMove
      <3>5. Joined(x, z, m, w)
        BY <3>4, MoveToOp, Zenon
      <3> QED BY <3>5 DEF Joined
    <2>4. /\ ret' = 0
          /\ xq' = [xq EXCEPT ![h].head = Wrap(x.head - m),
                              ![q].tail = Wrap(z.tail - m),
                              ![q].queue = copied(x, z, Wrap(x.head - m), Wrap(z.tail - m) + 1, m)]
      BY <1>1, <1>2, <1>3, <1>8 DEF HeadToTailSecond
    <2>5. xq' = [[xq EXCEPT ![h] = y] EXCEPT ![q] = w]
      BY <1>2, <1>3, <2>1, <2>4 DEF RingInv, MovedTo
    <2>6. /\ xq' = [p \in Queues |-> xq'[p]] /\ xq'[h] = y /\ xq'[q] = w
          /\ \A p \in Queues \ {h, q} : xq'[p] = xq[p]
      BY <1>2, <2>5 DEF RingInv
    <2>7. RingInv'
      BY <2>2, <2>3, <2>6 DEF RingInv
    <2>8. Cap' = Cap
      BY <1>3, <2>2, <2>3, <2>6 DEF Cap
    <2>9. PICK k : k = Len(Deq[h]) - m
      OBVIOUS
    <2>10. /\ Content(y) = SubSeq(Deq[h], 1, k)
           /\ Content(w) = SubSeq(Deq[h], k + 1, k + m) \o Deq[q]
           /\ k >= 0 /\ Len(Deq[q]) + m <= Cap[q]
      BY <1>4, <1>5, <1>6, <1>8, <2>2, <2>3, <2>9
    <2>11. Deq' = [Deq EXCEPT ![h] = SubSeq(@, 1, k),
                              ![q] = SubSeq(Deq[h], k + 1, k + m) \o @]
      <3>1. Deq'[h] = SubSeq(Deq[h], 1, k) /\ Deq'[q] = SubSeq(Deq[h], k + 1, k + m) \o Deq[q]
        BY <2>6, <2>10 DEF Deq
      <3>2. \A p \in Queues \ {h, q} : Deq'[p] = Deq[p]
        BY <2>6 DEF Deq
      <3>3. Deq = [p \in Queues |-> Deq[p]] /\ Deq' = [p \in Queues |-> Deq'[p]]
        BY DEF Deq
      <3> QED BY <1>2, <3>1, <3>2, <3>3
    <2>12. D!HeadToTail(h, q, m)
      BY <2>4, <2>8, <2>9, <2>10, <2>11 DEF D!HeadToTail, Deq, Cap
    <2> QED BY <1>2, <2>7, <2>12
  <1> QED BY <1>7, <1>8

(* What the queues are made as.                                            *)
LEMMA InitEmpty ==
    ASSUME NEW s \in Sizes, NEW y, y = xq_init_empty(s)
    PROVE  WellFormed(y) /\ y.size = s /\ Content(y) = <<>>
  <1>1. s \in Nat \ {0}
    BY SizeFacts
  <1>2. PICK m \in [0..s-1 -> Elements] : m = [i \in 0..s-1 |-> Junk]
    BY DEF Junk, Elements
  <1>7. <<>> \in Seq(Elements) /\ Len(<<>>) = 0
    BY EmptySeq
  <1>3. PICK c \in Seq(Elements) : c = <<>> /\ Len(c) = 0
    BY <1>7
  <1>4. y = [head |-> 1, tail |-> 0, size |-> s, queue |-> m]
    BY <1>2 DEF xq_init_empty
  <1>5. Leaving(y, c, 1, 0, s, m, 0)
    BY <1>1, <1>3, <1>4 DEF Leaving
  <1>6. WellFormed(y) /\ y.size = s /\ Content(y) = c
    BY <1>5, Leaves, Zenon
  <1> QED BY <1>3, <1>6

LEMMA InitSeq ==
    ASSUME NEW s \in Sizes, NEW y, y = xq_init_seq(s)
    PROVE  WellFormed(y) /\ y.size = s /\ Content(y) \in [1..s -> Values]
  <1>1. s \in Nat \ {0} /\ 0..s-1 \subseteq Values
    BY SizeFacts, IndicesAreValues
  <1>2. PICK m \in [0..s-1 -> Elements] : m = [i \in 0..s-1 |-> i]
    BY <1>1 DEF Elements
  <1>3. PICK c : c = [i \in 1..s |-> i % s]
    OBVIOUS
  <1>4. \A i \in 1..s : i \in Int /\ 0 + i = i /\ i % s \in 0..s-1
    <2>1. ASSUME NEW i \in 1..s PROVE i \in Int /\ 0 + i = i /\ i % s \in 0..s-1
      <3>1. i \in Int /\ 0 + i = i
        BY <1>1
      <3> QED BY <1>1, <3>1, ModDef
    <2> QED BY <2>1
  <1>5. c \in [1..s -> Values] /\ \A i \in 1..s : c[i] = m[(0 + i) % s]
    BY <1>1, <1>2, <1>3, <1>4
  <1>6. c \in Seq(Elements) /\ Len(c) = s
    BY <1>1, <1>5 DEF Elements
  <1>7. y = [head |-> s + 1, tail |-> 0, size |-> s, queue |-> m]
    BY <1>2 DEF xq_init_seq
  <1>8. s + 1 \in Int /\ s + 1 = 0 + 1 + s /\ s \in 0..s
    BY <1>1
  <1>9. Leaving(y, c, s + 1, 0, s, m, s)
    <2>1. PICK g \in Int : g = s + 1
      BY <1>8
    <2>2. Wrap(g) = Wrap(0 + 1 + s)
      BY <1>8, <2>1
    <2>3. y = [head |-> g, tail |-> 0, size |-> s, queue |-> m]
      BY <1>7, <2>1
    <2>5. 0 \in Int /\ \A i \in 1..s : c[i] = m[(0 + i) % s]
      BY <1>5
    <2>4. Leaving(y, c, g, 0, s, m, s)
      BY <1>2, <1>6, <1>8, <2>2, <2>3, <2>5, Zenon DEF Leaving
    <2> QED BY <2>1, <2>4
  <1>10. WellFormed(y) /\ y.size = s /\ Content(y) = c
    BY <1>9, Leaves, Zenon
  <1> QED BY <1>5, <1>10

LEMMA InitRing == XqInit => RingInv /\ D!Init
  <1> SUFFICES ASSUME XqInit PROVE RingInv /\ D!Init
    OBVIOUS
  <1>1. ASSUME NEW q \in Queues
        PROVE  /\ WellFormed(xq[q]) /\ xq[q].size \in Sizes
               /\ Content(xq[q]) \in UNION {[1..n -> Values] : n \in Sizes \cup {0}}
               /\ Len(Content(xq[q])) <= xq[q].size
    <2>1. CASE \E s \in Sizes : xq[q] = xq_init_empty(s)
      <3>1. PICK s \in Sizes : xq[q] = xq_init_empty(s)
        BY <2>1
      <3>2. WellFormed(xq[q]) /\ xq[q].size = s /\ Content(xq[q]) = <<>>
        BY <3>1, InitEmpty
      <3>3. <<>> \in [1..0 -> Values] /\ Len(<<>>) = 0
        OBVIOUS
      <3>4. s \in Nat
        BY SizeFacts
      <3> QED BY <3>2, <3>3, <3>4
    <2>2. CASE \E s \in Sizes : xq[q] = xq_init_seq(s)
      <3>1. PICK s \in Sizes : xq[q] = xq_init_seq(s)
        BY <2>2
      <3>2. WellFormed(xq[q]) /\ xq[q].size = s /\ Content(xq[q]) \in [1..s -> Values]
        BY <3>1, InitSeq
      <3>3. s \in Nat
        BY SizeFacts
      <3>4. Len(Content(xq[q])) = s
        BY <3>2, <3>3
      <3> QED BY <3>2, <3>3, <3>4
    <2> QED BY <2>1, <2>2 DEF XqInit
  <1>2. xq = [q \in Queues |-> xq[q]] /\ ret = Noneidx
    BY DEF XqInit
  <1>3. RingInv
    BY <1>1, <1>2 DEF RingInv
  <1>4. D!Init
    BY <1>1, <1>2 DEF D!Init
  <1> QED BY <1>3, <1>4

LEMMA NextRing ==
    ASSUME RingInv, LockInv, [XqNext]_xqVars
    PROVE  RingInv' /\ [D!Next]_(D!dvars)
  <1>1. ASSUME NEW t \in Callers, NEW q \in Queues, NEW v \in Values,
               AppendHead(t, q, v) \/ AppendTail(t, q, v) \/ Check(t, q, v)
        PROVE  RingInv' /\ D!Next
    BY <1>1, AppendSteps, CheckStep DEF D!Next
  <1>2. ASSUME NEW t \in Callers, NEW q \in Queues,
               PopHead(t, q) \/ PopTail(t, q) \/ PeekHead(t, q) \/ PeekTail(t, q)
        PROVE  RingInv' /\ D!Next
    BY <1>2, PopHeadSteps, PopTailSteps DEF D!Next
  <1>3. ASSUME NEW t \in Callers, NEW q \in Queues, NEW size \in Sizes, Resize(t, q, size)
        PROVE  RingInv' /\ D!Next
    BY <1>3, ResizeStep DEF D!Next
  <1>4. ASSUME NEW t \in Callers, HeadToTailSecond(t) PROVE RingInv' /\ D!Next
    <2>1. PICK h \in Queues, q \in Queues, n \in Sizes : h # q /\ D!HeadToTail(h, q, n)
      BY <1>4, MoveStep
    <2>2. RingInv'
      BY <1>4, MoveStep
    <2> QED BY <2>1, <2>2 DEF D!Next
  <1>5. ASSUME UNCHANGED <<xq, ret>> PROVE RingInv' /\ UNCHANGED D!dvars
    BY <1>5 DEF RingInv, D!dvars
  <1> QED BY <1>1, <1>2, <1>3, <1>4, <1>5 DEF XqNext, HeadToTailFirst, xqVars

(* xq.c implements a bounded deque: under whatever interleaving of calls,  *)
(* and however often the counters have wrapped, each operation does to the *)
(* content of its queue, and returns, what that of Deque does; proved for  *)
(* any queues, threads, values, sizes and width of the counters that the   *)
(* sizes divide.                                                           *)
THEOREM XqIsADeque == XqSpec => RefinesDeque
  <1>1. XqInit => RingInv /\ LockInv /\ D!Init
    BY InitRing, InitLockInv
  <1>2. RingInv /\ LockInv /\ [XqNext]_xqVars => RingInv' /\ LockInv' /\ [D!Next]_(D!dvars)
    BY NextRing, NextLockInv
  <1> QED BY <1>1, <1>2, PTL DEF XqSpec, RefinesDeque, D!Spec

-----------------------------------------------------------------------------
(* Induction, for a set of numbers.                                        *)
LEMMA SetInduction ==
    ASSUME NEW T, 0 \in T, \A n \in Nat : n \in T => n + 1 \in T
    PROVE  \A n \in Nat : n \in T
  <1> SUFFICES ASSUME Nat \ T # {} PROVE FALSE
    OBVIOUS
  <1> DEFINE Less == {ss \in Nat \X Nat : ss[1] < ss[2]}
  <1>1. IsWellFoundedOn(Less, Nat)
    BY NatLessThanWellFounded DEF OpToRel
  <1> HIDE DEF Less
  <1>2. PICK n \in Nat \ T : \A m \in Nat \ T : ~(<<m, n>> \in Less)
    <2>1. Nat \ T \in SUBSET Nat
      OBVIOUS
    <2> QED BY <1>1, <2>1, WFMin
  <1>3. n # 0 /\ n - 1 \in Nat /\ n - 1 + 1 = n
    OBVIOUS
  <1>4. n - 1 \in Nat \ T
    BY <1>3
  <1>5. <<n - 1, n>> \in Nat \X Nat /\ <<n - 1, n>>[1] < <<n - 1, n>>[2]
    BY <1>3
  <1>6. <<n - 1, n>> \in Less
    BY <1>5, Zenon DEF Less
  <1> QED BY <1>2, <1>4, <1>6

(* A function on the naturals may be defined by a first value and a step.  *)
StepFunctions(S) == [Nat \X S -> S]
Recursions(S, z, F) == {g \in [Nat -> S] :
                          g[0] = z /\ \A n \in Nat : g[n + 1] = F[<<n, g[n]>>]}

LEMMA RecursionExists ==
    ASSUME NEW S, NEW z \in S, NEW F \in StepFunctions(S)
    PROVE  Recursions(S, z, F) # {}
  <1> USE DEF StepFunctions
  <1> DEFINE Upto(n) == {h \in [0..n -> S] :
                           h[0] = z /\ \A m \in 0..n-1 : h[m + 1] = F[<<m, h[m]>>]}
  <1>1. \A n \in Nat : Upto(n) # {}
    <2> DEFINE T == {n \in Nat : Upto(n) # {}}
    <2>1. 0 \in T
      <3>1. [m \in 0..0 |-> z] \in Upto(0)
        OBVIOUS
      <3> QED BY <3>1
    <2>2. ASSUME NEW n \in Nat, n \in T PROVE n + 1 \in T
      <3>1. PICK h \in [0..n -> S] : h[0] = z /\ \A m \in 0..n-1 : h[m + 1] = F[<<m, h[m]>>]
        BY <2>2
      <3> DEFINE h2 == [m \in 0..n+1 |-> IF m = n + 1 THEN F[<<n, h[n]>>] ELSE h[m]]
      <3>2. h[n] \in S /\ F[<<n, h[n]>>] \in S
        OBVIOUS
      <3>3. h2 \in [0..n+1 -> S]
        BY <3>2
      <3>4. h2[0] = z
        BY <3>1
      <3>5. ASSUME NEW m \in 0..(n+1)-1 PROVE h2[m + 1] = F[<<m, h2[m]>>]
        <4>1. CASE m = n
          <5>1. h2[n + 1] = F[<<n, h[n]>>] /\ h2[n] = h[n]
            OBVIOUS
          <5> HIDE DEF h2
          <5> QED BY <4>1, <5>1
        <4>2. CASE m \in 0..n-1
          BY <4>2, <3>1
        <4> QED BY <4>1, <4>2
      <3>6. h2 \in Upto(n + 1)
        BY <3>3, <3>4, <3>5
      <3> HIDE DEF h2, Upto
      <3>7. Upto(n + 1) # {} /\ n + 1 \in Nat
        BY <3>6
      <3> QED BY <3>7
    <2> HIDE DEF T
    <2>3. \A n \in Nat : n \in T
      BY <2>1, <2>2, SetInduction
    <2> QED BY <2>3 DEF T
  <1>2. ASSUME NEW n \in Nat, NEW k \in Nat, NEW h \in Upto(n), NEW h2 \in Upto(k)
        PROVE  \A m \in Nat : m <= n /\ m <= k => h[m] = h2[m]
    <2> DEFINE T == {m \in Nat : m <= n /\ m <= k => h[m] = h2[m]}
    <2>1. 0 \in T
      OBVIOUS
    <2>2. ASSUME NEW m \in Nat, m \in T PROVE m + 1 \in T
      <3> SUFFICES ASSUME m + 1 <= n, m + 1 <= k PROVE h[m + 1] = h2[m + 1]
        OBVIOUS
      <3>1. m \in 0..n-1 /\ m \in 0..k-1 /\ h[m] = h2[m]
        BY <2>2
      <3> QED BY <3>1
    <2> HIDE DEF T
    <2>3. \A m \in Nat : m \in T
      BY <2>1, <2>2, SetInduction
    <2> QED BY <2>3 DEF T
  <1> DEFINE H(n) == CHOOSE h \in Upto(n) : TRUE
             g == [n \in Nat |-> H(n)[n]]
  <1>3. ASSUME NEW n \in Nat PROVE H(n) \in Upto(n)
    BY <1>1
  <1> HIDE DEF H
  <1>4. g \in [Nat -> S]
    <2> SUFFICES ASSUME NEW n \in Nat PROVE H(n)[n] \in S
      OBVIOUS
    <2> QED BY <1>3
  <1>5. g[0] = z
    BY <1>3
  <1>6. ASSUME NEW n \in Nat PROVE g[n + 1] = F[<<n, g[n]>>]
    <2>1. H(n + 1)[n + 1] = F[<<n, H(n + 1)[n]>>]
      BY <1>3
    <2>2. H(n + 1)[n] = H(n)[n]
      <3>1. H(n) \in Upto(n) /\ H(n + 1) \in Upto(n + 1) /\ n + 1 \in Nat
        BY <1>3
      <3> HIDE DEF Upto
      <3> QED BY <3>1, <1>2
    <2> QED BY <2>1, <2>2
  <1> HIDE DEF g
  <1> QED BY <1>4, <1>5, <1>6 DEF Recursions

(* Shifting left doubles.                                                  *)
LEMMA OneShlDef ==
    /\ OneShl \in [Nat -> Nat \ {0}]
    /\ OneShl[0] = 1
    /\ \A n \in Nat : OneShl[n + 1] = 2 * OneShl[n]
  <1> DEFINE S == Nat \ {0}
             F == [w \in Nat \X S |-> 2 * w[2]]
  <1>1. F \in [Nat \X S -> S]
    OBVIOUS
  <1>2. 1 \in S
    OBVIOUS
  <1> HIDE DEF F
  <1>3. PICK g \in [Nat -> S] : g[0] = 1 /\ \A n \in Nat : g[n + 1] = F[<<n, g[n]>>]
    <2> HIDE DEF S
    <2>1. Recursions(S, 1, F) # {}
      BY <1>1, <1>2, RecursionExists DEF StepFunctions
    <2> QED BY <2>1 DEF Recursions
  <1>4. \A n \in Nat : g[n + 1] = 2 * g[n]
    BY <1>3 DEF F
  <1>5. g = [n \in Nat |-> IF n = 0 THEN 1 ELSE 2 * g[n - 1]]
    <2>1. ASSUME NEW n \in Nat PROVE g[n] = (IF n = 0 THEN 1 ELSE 2 * g[n - 1])
      <3>1. CASE n = 0
        BY <3>1, <1>3
      <3>2. CASE n # 0
        <4>1. n - 1 \in Nat /\ n - 1 + 1 = n
          BY <3>2
        <4> QED BY <4>1, <3>2, <1>4
      <3> QED BY <3>1, <3>2
    <2> QED BY <2>1
  <1>6. OneShl = [n \in Nat |-> IF n = 0 THEN 1 ELSE 2 * OneShl[n - 1]]
    BY <1>5, Zenon DEF OneShl
  <1> DEFINE T == {n \in Nat : OneShl[n] \in S}
  <1>7. 0 \in T
    BY <1>6
  <1>8. ASSUME NEW n \in Nat, n \in T PROVE n + 1 \in T
    BY <1>6, <1>8
  <1>9. \A n \in Nat : n \in T
    <2> HIDE DEF T
    <2> QED BY <1>7, <1>8, SetInduction
  <1>10. \A n \in Nat : OneShl[n] \in S
    BY <1>9
  <1>11. DOMAIN OneShl = Nat
    BY <1>6
  <1>12. OneShl \in [Nat -> S]
    BY <1>6, <1>10
  <1>13. \A n \in Nat : OneShl[n + 1] = 2 * OneShl[n]
    BY <1>6
  <1>14. OneShl[0] = 1
    BY <1>6
  <1> QED BY <1>12, <1>13, <1>14

LEMMA OneShlAtLeast ==
    ASSUME NEW m \in Nat
    PROVE  \A d \in Nat : OneShl[m + d] >= OneShl[m]
  <1> DEFINE T == {d \in Nat : OneShl[m + d] >= OneShl[m]}
  <1>1. 0 \in T
    BY OneShlDef
  <1>2. ASSUME NEW d \in Nat, d \in T PROVE d + 1 \in T
    <2>1. OneShl[m] \in Nat /\ OneShl[m + d] \in Nat /\ OneShl[m + d] >= OneShl[m]
      BY <1>2, OneShlDef
    <2>2. OneShl[m + d + 1] = 2 * OneShl[m + d]
      BY OneShlDef
    <2>3. m + d + 1 = m + (d + 1)
      OBVIOUS
    <2> QED BY <2>1, <2>2, <2>3
  <1>3. \A d \in Nat : d \in T
    <2> HIDE DEF T
    <2> QED BY <1>1, <1>2, SetInduction
  <1> QED BY <1>3

-----------------------------------------------------------------------------
(* The sequence i, 5i + 1, ... goes through all the remainders by a power  *)
(* of two.  2^s of its steps are an odd multiple of 2^s.                   *)

LEMMA JumpDoubles ==
    ASSUME NEW q \in [Nat -> Int], \A n \in Nat : q[n + 1] = 5 * q[n] + 1,
           NEW P \in Nat, NEW n \in Nat, NEW a \in Int,
           q[n + P] - q[n] = P * (2 * a + 1)
    PROVE  \A m \in Nat : \E c \in Int : q[n + m + P] - q[n + m] = P * (2 * (a + 2 * c) + 1)
  <1> DEFINE T == {m \in Nat : \E c \in Int : q[n + m + P] - q[n + m] = P * (2 * (a + 2 * c) + 1)}
  <1>1. 0 \in T
    <2>1. q[n + 0 + P] - q[n + 0] = P * (2 * (a + 2 * 0) + 1) /\ 0 \in Int /\ 0 \in Nat
      OBVIOUS
    <2>2. \E c \in Int : q[n + 0 + P] - q[n + 0] = P * (2 * (a + 2 * c) + 1)
      BY <2>1, Zenon
    <2> QED BY <2>1, <2>2, Zenon
  <1>2. ASSUME NEW m \in Nat, m \in T PROVE m + 1 \in T
    <2>1. PICK c \in Int : q[n + m + P] - q[n + m] = P * (2 * (a + 2 * c) + 1)
      BY <1>2
    <2>2. q[n + m + P + 1] = 5 * q[n + m + P] + 1 /\ q[n + m + 1] = 5 * q[n + m] + 1
      OBVIOUS
    <2>3. n + m + P + 1 = n + (m + 1) + P /\ n + m + 1 = n + (m + 1)
      OBVIOUS
    <2>4. q[n + m + P] \in Int /\ q[n + m] \in Int
      OBVIOUS
    <2>5. q[n + (m + 1) + P] - q[n + (m + 1)] = 5 * (q[n + m + P] - q[n + m])
      BY <2>2, <2>3, <2>4
    <2>6. PICK d \in Int : d = c + 2 * (a + 2 * c) + 1
      OBVIOUS
    <2>7. 5 * (P * (2 * (a + 2 * c) + 1)) = P * (2 * (a + 2 * d) + 1)
      BY <2>6
    <2>8. q[n + (m + 1) + P] - q[n + (m + 1)] = P * (2 * (a + 2 * d) + 1)
      BY <2>1, <2>5, <2>7, Zenon
    <2>9. m + 1 \in Nat
      OBVIOUS
    <2> QED BY <2>8, <2>9, Zenon
  <1>3. \A m \in Nat : m \in T
    <2> HIDE DEF T
    <2> QED BY <1>1, <1>2, SetInduction
  <1> QED BY <1>3

LEMMA Jump ==
    ASSUME NEW q \in [Nat -> Int], \A n \in Nat : q[n + 1] = 5 * q[n] + 1
    PROVE  \A s \in Nat : \A n \in Nat : \E a \in Int :
              q[n + OneShl[s]] - q[n] = OneShl[s] * (2 * a + 1)
  <1> DEFINE T == {s \in Nat : \A n \in Nat : \E a \in Int :
                     q[n + OneShl[s]] - q[n] = OneShl[s] * (2 * a + 1)}
  <1>1. 0 \in T
    <2> SUFFICES ASSUME NEW n \in Nat
                 PROVE  \E a \in Int : q[n + 1] - q[n] = 1 * (2 * a + 1)
      BY OneShlDef
    <2>1. q[n + 1] - q[n] = 1 * (2 * (2 * q[n]) + 1) /\ 2 * q[n] \in Int
      OBVIOUS
    <2> QED BY <2>1
  <1>2. ASSUME NEW s \in Nat, s \in T PROVE s + 1 \in T
    <2> SUFFICES ASSUME NEW n \in Nat
                 PROVE  \E a \in Int : q[n + OneShl[s + 1]] - q[n] = OneShl[s + 1] * (2 * a + 1)
      OBVIOUS
    <2>1. PICK P \in Nat : P = OneShl[s] /\ OneShl[s + 1] = 2 * P
      BY OneShlDef
    <2>2. PICK a \in Int : q[n + P] - q[n] = P * (2 * a + 1)
      BY <1>2, <2>1
    <2>3. PICK c \in Int : q[n + P + P] - q[n + P] = P * (2 * (a + 2 * c) + 1)
      BY <2>2, JumpDoubles
    <2>4. n + P + P = n + 2 * P
      OBVIOUS
    <2>5. q[n] \in Int /\ q[n + P] \in Int /\ q[n + 2 * P] \in Int
      OBVIOUS
    <2>6. q[n + 2 * P] - q[n] = P * (2 * (a + 2 * c) + 1) + P * (2 * a + 1)
      <3>1. P * (2 * (a + 2 * c) + 1) \in Int /\ P * (2 * a + 1) \in Int
        OBVIOUS
      <3>2. q[n + 2 * P] - q[n + P] = P * (2 * (a + 2 * c) + 1)
        BY <2>3, <2>4, Zenon
      <3>3. PICK u \in Int, w \in Int : u = P * (2 * (a + 2 * c) + 1) /\ w = P * (2 * a + 1)
        BY <3>1, Zenon
      <3>4. q[n + 2 * P] - q[n + P] = u /\ q[n + P] - q[n] = w
        BY <3>2, <3>3, <2>2, Zenon
      <3>5. q[n + 2 * P] - q[n] = u + w
        BY <3>4, <2>5
      <3> QED BY <3>3, <3>5, Zenon
    <2>7. P * (2 * (a + 2 * c) + 1) + P * (2 * a + 1) = 2 * P * (2 * (a + c) + 1)
      OBVIOUS
    <2>8. a + c \in Int
      OBVIOUS
    <2> QED BY <2>1, <2>6, <2>7, <2>8
  <1>3. \A s \in Nat : s \in T
    <2> HIDE DEF T
    <2> QED BY <1>1, <1>2, SetInduction
  <1> QED BY <1>3

LEMMA Reaches ==
    ASSUME NEW q \in [Nat -> Int], \A n \in Nat : q[n + 1] = 5 * q[n] + 1
    PROVE  \A s \in Nat : \A r \in Int : \E n \in Nat, c \in Int :
              n < OneShl[s] /\ q[n] - r = OneShl[s] * c
  <1> DEFINE T == {s \in Nat : \A r \in Int : \E n \in Nat, c \in Int :
                     n < OneShl[s] /\ q[n] - r = OneShl[s] * c}
  <1>1. 0 \in T
    <2> SUFFICES ASSUME NEW r \in Int
                 PROVE  \E n \in Nat, c \in Int : n < 1 /\ q[n] - r = 1 * c
      BY OneShlDef
    <2>1. 0 < 1 /\ q[0] - r = 1 * (q[0] - r) /\ q[0] - r \in Int /\ 0 \in Nat
      OBVIOUS
    <2> QED BY <2>1
  <1>2. ASSUME NEW s \in Nat, s \in T PROVE s + 1 \in T
    <2> SUFFICES ASSUME NEW r \in Int
                 PROVE  \E n \in Nat, c \in Int :
                           n < OneShl[s + 1] /\ q[n] - r = OneShl[s + 1] * c
      OBVIOUS
    <2>1. PICK P \in Nat : P = OneShl[s] /\ OneShl[s + 1] = 2 * P
      BY OneShlDef
    <2>2. PICK n \in Nat, c \in Int : n < P /\ q[n] - r = P * c
      BY <1>2, <2>1
    <2>3. PICK d \in Int : c = 2 * d \/ c = 2 * d + 1
      <3>1. c = 2 * (c \div 2) \/ c = 2 * (c \div 2) + 1
        OBVIOUS
      <3> QED BY <3>1
    <2>4. CASE c = 2 * d
      <3>1. P * c = 2 * P * d /\ n < 2 * P
        BY <2>4, <2>2
      <3> QED BY <3>1, <2>1, <2>2
    <2>5. CASE c = 2 * d + 1
      <3>1. PICK a \in Int : q[n + P] - q[n] = P * (2 * a + 1)
        BY Jump, <2>1
      <3>2. q[n] \in Int /\ q[n + P] \in Int /\ n + P \in Nat /\ n + P < 2 * P
        BY <2>2
      <3>3. P * (2 * a + 1) \in Int /\ P * (2 * d + 1) \in Int
        OBVIOUS
      <3>4. q[n + P] - r = P * (2 * a + 1) + P * (2 * d + 1)
        BY <2>2, <2>5, <3>1, <3>2, <3>3
      <3>5. P * (2 * a + 1) + P * (2 * d + 1) = 2 * P * (a + d + 1) /\ a + d + 1 \in Int
        OBVIOUS
      <3> QED BY <2>1, <3>2, <3>4, <3>5
    <2> QED BY <2>3, <2>4, <2>5
  <1>3. \A s \in Nat : s \in T
    <2> HIDE DEF T
    <2> QED BY <1>1, <1>2, SetInduction
  <1> QED BY <1>3

-----------------------------------------------------------------------------
(* The probes of a key.                                                    *)
Probed(size) == [idx : 0..size-1, perturb : Nat]

LEMMA NextProbeIn ==
    ASSUME NEW size \in Nat \ {0}, NEW p \in Probed(size)
    PROVE  NextProbe(p, size) \in Probed(size)
  <1>1. (5 * p.idx + 1 + p.perturb) % size \in 0..size-1
    <2>1. 5 * p.idx + 1 + p.perturb \in Int
      BY DEF Probed
    <2> QED BY <2>1, ModDef
  <1>2. p.perturb \div 2 ^ PERTURB_SHIFT \in Nat
    BY DEF Probed, PERTURB_SHIFT
  <1> QED BY <1>1, <1>2 DEF NextProbe, Probed

LEMMA NextProbeParts ==
    ASSUME NEW p, NEW size
    PROVE  /\ NextProbe(p, size).idx = (5 * p.idx + 1 + p.perturb) % size
           /\ NextProbe(p, size).perturb = p.perturb \div 2 ^ PERTURB_SHIFT
  BY Zenon DEF NextProbe

LEMMA ProbeDef ==
    ASSUME NEW hash \in Nat, NEW size \in Nat \ {0}
    PROVE  /\ Probe(hash, size) \in [Nat -> Probed(size)]
           /\ Probe(hash, size)[0] = [idx |-> hash % size, perturb |-> hash]
           /\ \A n \in Nat : Probe(hash, size)[n + 1] = NextProbe(Probe(hash, size)[n], size)
  <1> DEFINE S == Probed(size)
             z == [idx |-> hash % size, perturb |-> hash]
             F == [w \in Nat \X S |-> NextProbe(w[2], size)]
  <1>1. z \in S
    BY ModDef DEF Probed
  <1>2. F \in StepFunctions(S)
    <2> SUFFICES ASSUME NEW w \in Nat \X S PROVE NextProbe(w[2], size) \in S
      BY DEF StepFunctions
    <2>1. w[2] \in Probed(size)
      OBVIOUS
    <2> QED BY <2>1, NextProbeIn
  <1> HIDE DEF S, z, F
  <1>3. Recursions(S, z, F) # {}
    BY <1>1, <1>2, RecursionExists
  <1>4. PICK g \in [Nat -> S] : g[0] = z /\ \A n \in Nat : g[n + 1] = F[<<n, g[n]>>]
    BY <1>3 DEF Recursions
  <1>5. \A n \in Nat : g[n + 1] = NextProbe(g[n], size)
    BY <1>4 DEF F
  <1>6. g = [n \in Nat |-> IF n = 0 THEN z ELSE NextProbe(g[n - 1], size)]
    <2>1. ASSUME NEW n \in Nat PROVE g[n] = (IF n = 0 THEN z ELSE NextProbe(g[n - 1], size))
      <3>1. CASE n = 0
        BY <3>1, <1>4
      <3>2. CASE n # 0
        <4>1. n - 1 \in Nat /\ n - 1 + 1 = n
          BY <3>2
        <4> QED BY <4>1, <3>2, <1>5
      <3> QED BY <3>1, <3>2
    <2> QED BY <2>1
  <1> DEFINE pr == Probe(hash, size)
  <1>7. pr = [n \in Nat |-> IF n = 0 THEN z ELSE NextProbe(pr[n - 1], size)]
    BY <1>6, Zenon DEF Probe, z
  <1> HIDE DEF pr
  <1>8. pr[0] = z
    BY <1>7
  <1>9. \A n \in Nat : pr[n + 1] = NextProbe(pr[n], size)
    BY <1>7
  <1> DEFINE T == {n \in Nat : pr[n] \in S}
  <1>10. 0 \in T
    BY <1>8, <1>1
  <1>11. ASSUME NEW n \in Nat, n \in T PROVE n + 1 \in T
    BY <1>9, <1>11, NextProbeIn DEF S
  <1>12. \A n \in Nat : n \in T
    <2> HIDE DEF T
    <2> QED BY <1>10, <1>11, SetInduction
  <1>13. pr \in [Nat -> S]
    BY <1>7, <1>12
  <1> QED BY <1>8, <1>9, <1>13 DEF pr, S, z

(* Nothing is left of perturb after as many probes as the hash is large.   *)
LEMMA PerturbEnds ==
    ASSUME NEW hash \in Nat, NEW size \in Nat \ {0}
    PROVE  \A n \in Nat : Probe(hash, size)[hash + n].perturb = 0
  <1> DEFINE pr == Probe(hash, size)
  <1>p. /\ pr \in [Nat -> Probed(size)] /\ pr[0] = [idx |-> hash % size, perturb |-> hash]
        /\ \A n \in Nat : pr[n + 1] = NextProbe(pr[n], size)
    BY ProbeDef
  <1> HIDE DEF pr
  <1>d. 2 ^ PERTURB_SHIFT = 32
    BY DEF PERTURB_SHIFT
  <1>0. /\ pr[0].perturb = hash
        /\ \A n \in Nat : pr[n + 1].perturb = pr[n].perturb \div 32
    <2>1. ASSUME NEW n \in Nat PROVE pr[n + 1].perturb = pr[n].perturb \div 32
      <3>1. pr[n + 1] = NextProbe(pr[n], size)
        BY <1>p
      <3>2. NextProbe(pr[n], size).perturb = pr[n].perturb \div 2 ^ PERTURB_SHIFT
        BY NextProbeParts, Zenon
      <3> QED BY <3>1, <3>2, <1>d, Zenon
    <2>2. pr[0].perturb = hash
      BY <1>p
    <2> QED BY <2>1, <2>2
  <1>1. \A n \in Nat : pr[n].perturb \in Nat
    BY <1>p DEF Probed
  <1> DEFINE T == {n \in Nat : pr[n].perturb = 0 \/ pr[n].perturb + n <= hash}
  <1>2. 0 \in T
    BY <1>0
  <1>3. ASSUME NEW n \in Nat, n \in T PROVE n + 1 \in T
    <2>1. PICK u \in Nat : u = pr[n].perturb /\ pr[n + 1].perturb = u \div 32
      BY <1>0, <1>1
    <2>2. u = 0 => u \div 32 = 0
      OBVIOUS
    <2>3. u # 0 => u \div 32 < u /\ u \div 32 \in Nat
      OBVIOUS
    <2> QED BY <2>1, <2>2, <2>3, <1>3
  <1>4. \A n \in Nat : n \in T
    <2> HIDE DEF T
    <2> QED BY <1>2, <1>3, SetInduction
  <1>5. ASSUME NEW n \in Nat PROVE pr[hash + n].perturb = 0
    <2>1. hash + n \in T /\ hash + n \in Nat
      BY <1>4
    <2> QED BY <2>1, <1>1
  <1> QED BY <1>5 DEF pr

(* ... and then the probes go through the whole table.                     *)
LEMMA ProbeCovers ==
    ASSUME NEW hash \in Nat, NEW s \in Nat, NEW i \in 0..OneShl[s]-1
    PROVE  \E n \in 0..hash + OneShl[s] : Probe(hash, OneShl[s])[n].idx = i
  <1>0. PICK size \in Nat \ {0} : size = OneShl[s]
    BY OneShlDef
  <1> DEFINE pr == Probe(hash, size)
  <1>1. /\ pr \in [Nat -> Probed(size)]
        /\ \A n \in Nat : pr[n + 1].idx = (5 * pr[n].idx + 1 + pr[n].perturb) % size
    <2>1. pr \in [Nat -> Probed(size)] /\ \A n \in Nat : pr[n + 1] = NextProbe(pr[n], size)
      BY ProbeDef
    <2> HIDE DEF pr
    <2>2. ASSUME NEW n \in Nat
          PROVE  pr[n + 1].idx = (5 * pr[n].idx + 1 + pr[n].perturb) % size
      <3>1. pr[n + 1] = NextProbe(pr[n], size)
        BY <2>1
      <3> QED BY <3>1, NextProbeParts, Zenon
    <2> QED BY <2>1, <2>2
  <1>2. \A n \in Nat : pr[hash + n].perturb = 0
    BY PerturbEnds
  <1> HIDE DEF pr
  <1>3. \A n \in Nat : pr[n].idx \in 0..size-1
    BY <1>1 DEF Probed
  <1>4. PICK q \in [Nat -> Int] : q[0] = pr[hash].idx /\ \A n \in Nat : q[n + 1] = 5 * q[n] + 1
    <2> DEFINE F == [w \in Nat \X Int |-> 5 * w[2] + 1]
    <2>1. F \in StepFunctions(Int)
      BY DEF StepFunctions
    <2>2. pr[hash].idx \in Int
      BY <1>3
    <2> HIDE DEF F
    <2>3. Recursions(Int, pr[hash].idx, F) # {}
      BY <2>1, <2>2, RecursionExists
    <2>4. PICK g \in [Nat -> Int] : g[0] = pr[hash].idx /\ \A n \in Nat : g[n + 1] = F[<<n, g[n]>>]
      BY <2>3 DEF Recursions
    <2>5. \A n \in Nat : g[n + 1] = 5 * g[n] + 1
      BY <2>4 DEF F
    <2> QED BY <2>4, <2>5
  <1>5. \A n \in Nat : pr[hash + n].idx = q[n] % size
    <2> DEFINE T == {n \in Nat : pr[hash + n].idx = q[n] % size}
    <2>1. 0 \in T
      <3>1. pr[hash].idx % size = pr[hash].idx
        BY <1>3, ModSmall
      <3> QED BY <1>4, <3>1
    <2>2. ASSUME NEW n \in Nat, n \in T PROVE n + 1 \in T
      <3>1. PICK u \in Int : u = q[n]
        OBVIOUS
      <3>2. pr[hash + n].idx = u % size
        BY <2>2, <3>1
      <3>3. pr[hash + n + 1].idx = (5 * (u % size) + 1) % size
        <4>1. hash + n \in Nat
          OBVIOUS
        <4>2. pr[hash + n + 1].idx = (5 * pr[hash + n].idx + 1 + pr[hash + n].perturb) % size
          BY <1>1, <4>1
        <4>3. 5 * (u % size) + 1 + 0 = 5 * (u % size) + 1
          BY ModDef
        <4> QED BY <4>2, <4>3, <3>2, <1>2
      <3>4. PICK j \in Int : u % size = u + size * j
        BY ModAway
      <3>5. 5 * (u % size) + 1 = (5 * u + 1) + size * (5 * j)
        BY <3>4
      <3>6. ((5 * u + 1) + size * (5 * j)) % size = (5 * u + 1) % size
        <4>1. 5 * u + 1 \in Int /\ 5 * j \in Int
          OBVIOUS
        <4> QED BY <4>1, SameMod
      <3>7. pr[hash + (n + 1)].idx = q[n + 1] % size
        <4>1. hash + (n + 1) = hash + n + 1 /\ q[n + 1] = 5 * u + 1
          BY <1>4, <3>1
        <4> QED BY <4>1, <3>3, <3>5, <3>6
      <3> QED BY <3>7
    <2>3. \A n \in Nat : n \in T
      <3> HIDE DEF T
      <3> QED BY <2>1, <2>2, SetInduction
    <2> QED BY <2>3
  <1>6. PICK n \in Nat, c \in Int : n < size /\ q[n] - i = size * c
    <2>1. \A r \in Int : \E n \in Nat, c \in Int : n < OneShl[s] /\ q[n] - r = OneShl[s] * c
      BY <1>4, Reaches
    <2> QED BY <2>1, <1>0
  <1>7. q[n] % size = i
    <2>1. i \in 0..size-1 /\ i \in Int
      BY <1>0
    <2>2. q[n] = i + size * c
      BY <1>6, <2>1
    <2>3. (i + size * c) % size = i % size
      BY <2>1, SameMod
    <2>4. i % size = i
      BY <2>1, ModSmall
    <2> QED BY <2>2, <2>3, <2>4
  <1>8. pr[hash + n].idx = i /\ hash + n \in 0..hash + size
    BY <1>5, <1>6, <1>7
  <1> QED BY <1>8, <1>0 DEF pr

ProbesOf(key, shift) == 0..Hash[key] + OneShl[shift]

LEMMA SlotsFacts ==
    ASSUME NEW key \in Keys, NEW shift \in MinShift..MaxShift
    PROVE  /\ DOMAIN Slots[key][shift] = ProbesOf(key, shift)
           /\ \A n \in ProbesOf(key, shift) : Slots[key][shift][n] \in 0..OneShl[shift]-1
           /\ \A i \in 0..OneShl[shift]-1 : \E n \in ProbesOf(key, shift) : Slots[key][shift][n] = i
  <1> DEFINE pr == Probe(Hash[key], OneShl[shift])
  <1>1. Hash[key] \in Nat /\ shift \in Nat /\ OneShl[shift] \in Nat \ {0}
    BY HashAssumption, OneShlDef
  <1>2. Slots[key][shift] = [n \in ProbesOf(key, shift) |-> pr[n].idx]
    BY DEF Slots, ProbesOf
  <1>3. \A n \in Nat : pr[n].idx \in 0..OneShl[shift]-1
    <2>1. pr \in [Nat -> Probed(OneShl[shift])]
      BY <1>1, ProbeDef
    <2> HIDE DEF pr
    <2> QED BY <2>1 DEF Probed
  <1>4. \A i \in 0..OneShl[shift]-1 : \E n \in ProbesOf(key, shift) : pr[n].idx = i
    BY <1>1, ProbeCovers DEF ProbesOf
  <1>5. ProbesOf(key, shift) \subseteq Nat
    BY <1>1 DEF ProbesOf
  <1> HIDE DEF pr
  <1> QED BY <1>2, <1>3, <1>4, <1>5

-----------------------------------------------------------------------------
(* A table: what its fields hold, that its counters are exact, and that    *)
(* every item is on the way of its key: no slot before it on that way was  *)
(* never used.                                                             *)
Entry == Item \cup {UNUSED, DUMMY}
Arrays == UNION {[0..n-1 -> Entry] : n \in Nat}

IsTable(x) ==
    /\ x \in [shift : MinShift..MaxShift, used : Nat, dummies : Nat, items : Arrays]
    /\ x.items \in [0..xhash_size(x)-1 -> Entry]

Valids(x) == {i \in DOMAIN x.items : item_valid(x, i)}
Dummies(x) == {i \in DOMAIN x.items : item_dummy(x, i)}

Counted(x) == x.used = Cardinality(Valids(x)) /\ x.dummies = Cardinality(Dummies(x))

Reached(x, i, key) ==
    \E n \in ProbesOf(key, x.shift) :
       /\ Slots[key][x.shift][n] = i
       /\ \A m \in 0..n-1 : ~item_unused(x, Slots[key][x.shift][m])

OnTheWay(x) == \A i \in Valids(x) : Reached(x, i, x.items[i].key)

Good(x) == IsTable(x) /\ Counted(x) /\ OnTheWay(x)

(* Not full, of items and dummies.                                         *)
Room(x) == x.used + x.dummies < xhash_size(x)

(* The keys that nobody sets twice are in one slot.                        *)
OwnedOnce(x) ==
    \A i, j \in Valids(x) :
       x.items[i].key = x.items[j].key /\ x.items[i].key \in Owned => i = j

(* A table that has grown has not been emptied: it is shrunk before.       *)
Dense(x) == x.shift > MinShift => 4 * (x.used + 1) >= xhash_size(x)

Below(x, n) == {i \in Valids(x) : i < n}

-----------------------------------------------------------------------------
(* The first of some numbers.                                              *)
LEMMA LeastOf ==
    ASSUME NEW ns \in SUBSET Nat, ns # {}
    PROVE  \E n \in ns : \A m \in 0..n-1 : m \notin ns
  <1> DEFINE Less == {ss \in Nat \X Nat : ss[1] < ss[2]}
  <1>1. IsWellFoundedOn(Less, Nat)
    BY NatLessThanWellFounded DEF OpToRel
  <1> HIDE DEF Less
  <1>2. PICK n \in ns : \A m \in ns : ~(<<m, n>> \in Less)
    BY <1>1, WFMin
  <1>3. ASSUME NEW m \in 0..n-1 PROVE m \notin ns
    <2>1. <<m, n>> \in Nat \X Nat /\ <<m, n>>[1] < <<m, n>>[2]
      OBVIOUS
    <2>2. <<m, n>> \in Less
      BY <2>1, Zenon DEF Less
    <2> QED BY <1>2, <2>2
  <1> QED BY <1>3

LEMMA SizeAtLeast ==
    ASSUME NEW s \in MinShift..MaxShift
    PROVE  s \in Nat /\ OneShl[s] \in Nat /\ OneShl[s] >= 4
  <1>1. s \in Nat /\ s >= 2 /\ s - 2 \in Nat /\ 2 + (s - 2) = s
    BY HashAssumption
  <1>2. OneShl[0 + 1] = 2 * OneShl[0] /\ OneShl[0] = 1
    BY OneShlDef
  <1>3. OneShl[1 + 1] = 2 * OneShl[1] /\ OneShl[s] \in Nat /\ OneShl[2] \in Nat
    BY OneShlDef, <1>1
  <1>4. OneShl[2] = 4
    BY <1>2, <1>3
  <1>5. OneShl[2 + (s - 2)] >= OneShl[2]
    BY OneShlAtLeast, <1>1
  <1> QED BY <1>1, <1>3, <1>4, <1>5

LEMMA TableFacts ==
    ASSUME NEW x, IsTable(x)
    PROVE  /\ x.shift \in Nat /\ x.shift \in MinShift..MaxShift
           /\ xhash_size(x) \in Nat /\ xhash_size(x) >= 4
           /\ DOMAIN x.items = 0..xhash_size(x)-1
           /\ IsFiniteSet(DOMAIN x.items) /\ Cardinality(DOMAIN x.items) = xhash_size(x)
           /\ IsFiniteSet(Valids(x)) /\ IsFiniteSet(Dummies(x))
           /\ x.used \in Nat /\ x.dummies \in Nat
           /\ \A i \in Valids(x) : x.items[i] \in Item /\ x.items[i].key \in Keys
                                   /\ x.items[i].val \in Nat
  <1>1. x.shift \in MinShift..MaxShift
    BY DEF IsTable
  <1>2. x.shift \in Nat /\ xhash_size(x) \in Nat /\ xhash_size(x) >= 4
    BY <1>1, SizeAtLeast DEF xhash_size
  <1>3. DOMAIN x.items = 0..xhash_size(x)-1
    BY DEF IsTable
  <1>4. IsFiniteSet(0..xhash_size(x)-1) /\ Cardinality(0..xhash_size(x)-1) = xhash_size(x)
    <2>1. PICK b \in Int : b = xhash_size(x) - 1 /\ b >= 0
      BY <1>2
    <2>2. IsFiniteSet(0..b) /\ Cardinality(0..b) = IF 0 > b THEN 0 ELSE b - 0 + 1
      BY FS_Interval
    <2> QED BY <1>2, <2>1, <2>2
  <1>5. IsFiniteSet(Valids(x)) /\ IsFiniteSet(Dummies(x))
    <2>1. Valids(x) \subseteq 0..xhash_size(x)-1 /\ Dummies(x) \subseteq 0..xhash_size(x)-1
      BY <1>3 DEF Valids, Dummies
    <2> QED BY <2>1, <1>4, FS_Subset
  <1>6. \A i \in Valids(x) : x.items[i] \in Item
    BY DEF IsTable, Valids, item_valid, item_unused, item_dummy, Entry
  <1>7. \A i \in Valids(x) : x.items[i].key \in Keys /\ x.items[i].val \in Nat
    BY <1>6 DEF Item
  <1>8. x.used \in Nat /\ x.dummies \in Nat
    BY DEF IsTable
  <1> QED BY <1>1, <1>2, <1>3, <1>4, <1>5, <1>6, <1>7, <1>8

(* A loop that has slots to end at ends at the first of them.              *)
LEMMA FirstOfFacts ==
    ASSUME NEW x, IsTable(x), NEW key \in Keys,
           NEW ends \in SUBSET DOMAIN x.items, ends # {}
    PROVE  /\ FirstOf(x, key, ends) \in ends
           /\ \E n \in ProbesOf(key, x.shift) :
                 /\ Slots[key][x.shift][n] = FirstOf(x, key, ends)
                 /\ \A m \in 0..n-1 : Slots[key][x.shift][m] \notin ends
  <1> DEFINE p == Slots[key][x.shift]
             Dom == ProbesOf(key, x.shift)
             Ends(n) == p[n] \in ends /\ \A m \in 0..n-1 : p[m] \notin ends
  <1>1. x.shift \in MinShift..MaxShift /\ DOMAIN x.items = 0..OneShl[x.shift]-1
    BY DEF IsTable, xhash_size
  <1>2. /\ DOMAIN p = Dom
        /\ \A i \in 0..OneShl[x.shift]-1 : \E n \in Dom : p[n] = i
    BY <1>1, SlotsFacts
  <1>3. Dom \subseteq Nat /\ \A n \in Dom : 0..n-1 \subseteq Dom
    <2>1. Hash[key] \in Nat /\ OneShl[x.shift] \in Nat
      BY TableFacts, HashAssumption DEF xhash_size
    <2> QED BY <2>1 DEF ProbesOf
  <1> HIDE DEF p, Dom
  <1>4. \E n \in Dom : Ends(n)
    <2> DEFINE ns == {n \in Dom : p[n] \in ends}
    <2>1. ns \in SUBSET Nat
      BY <1>3
    <2>2. ns # {}
      BY <1>1, <1>2
    <2> HIDE DEF ns
    <2>3. PICK n \in ns : \A m \in 0..n-1 : m \notin ns
      BY <2>1, <2>2, LeastOf
    <2>4. n \in Dom /\ p[n] \in ends
      BY DEF ns
    <2>5. \A m \in 0..n-1 : p[m] \notin ends
      BY <2>3, <2>4, <1>3 DEF ns
    <2> QED BY <2>4, <2>5
  <1> DEFINE c == CHOOSE n \in Dom : Ends(n)
  <1>5. c \in Dom /\ Ends(c)
    BY <1>4, Zenon
  <1>6. FirstOf(x, key, ends) = p[c]
    BY <1>2, Zenon DEF FirstOf, FirstIn, p
  <1> HIDE DEF c
  <1> QED BY <1>5, <1>6 DEF p, Dom

(* A table that is not full has a slot that was never used.                *)
LEMMA RoomUnused ==
    ASSUME NEW x, Good(x), Room(x)
    PROVE  \E i \in DOMAIN x.items : item_unused(x, i)
  <1> SUFFICES ASSUME \A i \in DOMAIN x.items : ~item_unused(x, i) PROVE FALSE
    OBVIOUS
  <1>1. DOMAIN x.items = Valids(x) \cup Dummies(x)
    BY DEF Valids, Dummies, item_valid
  <1>2. Valids(x) \cap Dummies(x) = {}
    BY DEF Valids, Dummies, item_valid
  <1>3. IsFiniteSet(Valids(x)) /\ IsFiniteSet(Dummies(x))
    BY TableFacts DEF Good
  <1>4. Cardinality(Valids(x) \cup Dummies(x))
          = Cardinality(Valids(x)) + Cardinality(Dummies(x)) - Cardinality(Valids(x) \cap Dummies(x))
    BY <1>3, FS_Union
  <1>5. Cardinality(Valids(x) \cap Dummies(x)) = 0
    BY <1>2, FS_EmptySet
  <1>6. Cardinality(DOMAIN x.items) = xhash_size(x) /\ x.used \in Nat /\ x.dummies \in Nat
    BY TableFacts DEF Good
  <1>7. x.used = Cardinality(Valids(x)) /\ x.dummies = Cardinality(Dummies(x))
    BY DEF Good, Counted
  <1> QED BY <1>1, <1>4, <1>5, <1>6, <1>7 DEF Room

-----------------------------------------------------------------------------
(* What storing an item in a slot, and deleting one, make of a table.      *)
Stored(x, y, i, key, val) ==
    /\ i \in DOMAIN x.items
    /\ holds(x, i, key) \/ (~item_valid(x, i) /\ Reached(x, i, key))
    /\ y = [shift |-> x.shift,
            used |-> IF item_valid(x, i) THEN x.used ELSE x.used + 1,
            dummies |-> IF item_dummy(x, i) THEN x.dummies - 1 ELSE x.dummies,
            items |-> [x.items EXCEPT ![i] = [key |-> key, val |-> val]]]

Deleted(x, y, i) ==
    /\ i \in Valids(x)
    /\ y = [shift |-> x.shift, used |-> x.used - 1, dummies |-> x.dummies + 1,
            items |-> [x.items EXCEPT ![i] = DUMMY]]

LEMMA ArraysIn ==
    ASSUME NEW n \in Nat, NEW f \in [0..n-1 -> Entry]
    PROVE  f \in Arrays
  BY DEF Arrays

LEMMA ItemIs ==
    ASSUME NEW key \in Keys, NEW val \in Nat
    PROVE  /\ [key |-> key, val |-> val] \in Item /\ [key |-> key, val |-> val] \in Entry
           /\ [key |-> key, val |-> val] # UNUSED /\ [key |-> key, val |-> val] # DUMMY
  <1>1. [key |-> key, val |-> val] \in Item
    BY DEF Item
  <1> QED BY <1>1, HashAssumption DEF Entry

LEMMA StoredSets ==
    ASSUME NEW x, Good(x), NEW y, NEW i, NEW key \in Keys, NEW val \in Nat,
           Stored(x, y, i, key, val)
    PROVE  /\ DOMAIN y.items = DOMAIN x.items
           /\ y.items[i] = [key |-> key, val |-> val]
           /\ \A j \in DOMAIN x.items : j # i => y.items[j] = x.items[j]
           /\ Valids(y) = Valids(x) \cup {i}
           /\ Dummies(y) = Dummies(x) \ {i}
           /\ y.items \in [0..xhash_size(x)-1 -> Entry]
  <1>1. x.items \in [0..xhash_size(x)-1 -> Entry] /\ DOMAIN x.items = 0..xhash_size(x)-1
    BY DEF Good, IsTable
  <1>2. y.items = [x.items EXCEPT ![i] = [key |-> key, val |-> val]] /\ i \in DOMAIN x.items
    BY DEF Stored
  <1> DEFINE new == [key |-> key, val |-> val]
  <1>3. new \in Entry /\ new # UNUSED /\ new # DUMMY
    BY ItemIs
  <1> HIDE DEF new
  <1>4. /\ DOMAIN y.items = DOMAIN x.items
        /\ y.items[i] = new
        /\ \A j \in DOMAIN x.items : j # i => y.items[j] = x.items[j]
        /\ y.items \in [0..xhash_size(x)-1 -> Entry]
    BY <1>1, <1>2, <1>3 DEF new
  <1>5. Valids(y) = Valids(x) \cup {i}
    BY <1>2, <1>3, <1>4 DEF Valids, item_valid, item_unused, item_dummy
  <1>6. Dummies(y) = Dummies(x) \ {i}
    BY <1>2, <1>3, <1>4 DEF Dummies, item_dummy
  <1> QED BY <1>4, <1>5, <1>6 DEF new

(* A slot stays on the way of a key while no slot becomes unused.          *)
LEMMA ReachedKept ==
    ASSUME NEW x, IsTable(x), NEW y, y.shift = x.shift,
           \A sl \in DOMAIN x.items : item_unused(y, sl) => item_unused(x, sl),
           NEW k \in Keys, NEW j, Reached(x, j, k)
    PROVE  Reached(y, j, k)
  <1>1. PICK n \in ProbesOf(k, x.shift) :
           /\ Slots[k][x.shift][n] = j
           /\ \A m \in 0..n-1 : ~item_unused(x, Slots[k][x.shift][m])
    BY DEF Reached
  <1>2. \A m \in 0..n-1 : Slots[k][x.shift][m] \in DOMAIN x.items
    <2>1. \A m \in ProbesOf(k, x.shift) : Slots[k][x.shift][m] \in 0..OneShl[x.shift]-1
      BY TableFacts, SlotsFacts
    <2>2. 0..n-1 \subseteq ProbesOf(k, x.shift)
      <3>1. Hash[k] \in Nat /\ OneShl[x.shift] \in Nat
        BY HashAssumption, TableFacts DEF xhash_size
      <3> QED BY <3>1 DEF ProbesOf
    <2>3. DOMAIN x.items = 0..OneShl[x.shift]-1
      BY DEF IsTable, xhash_size
    <2> QED BY <2>1, <2>2, <2>3
  <1>3. \A m \in 0..n-1 : ~item_unused(y, Slots[k][x.shift][m])
    BY <1>1, <1>2
  <1> QED BY <1>1, <1>3 DEF Reached

LEMMA StoredGood ==
    ASSUME NEW x, Good(x), NEW y, NEW i, NEW key \in Keys, NEW val \in Nat,
           Stored(x, y, i, key, val)
    PROVE  /\ Good(y) /\ y.shift = x.shift
           /\ y.used = (IF item_valid(x, i) THEN x.used ELSE x.used + 1)
           /\ y.used + y.dummies <= x.used + x.dummies + 1
           /\ item_valid(x, i) => y.dummies = x.dummies
           /\ y.dummies <= x.dummies
  <1> DEFINE u == IF item_valid(x, i) THEN x.used ELSE x.used + 1
             d == IF item_dummy(x, i) THEN x.dummies - 1 ELSE x.dummies
  <1>1. IsTable(x) /\ x.used = Cardinality(Valids(x)) /\ x.dummies = Cardinality(Dummies(x))
    BY DEF Good, Counted
  <1>2. /\ IsFiniteSet(Valids(x)) /\ IsFiniteSet(Dummies(x)) /\ x.used \in Nat /\ x.dummies \in Nat
        /\ x.shift \in MinShift..MaxShift /\ xhash_size(x) \in Nat
    BY <1>1, TableFacts
  <1>3. y.shift = x.shift /\ y.used = u /\ y.dummies = d /\ i \in DOMAIN x.items
    BY DEF Stored
  <1>s. xhash_size(y) = xhash_size(x)
    BY <1>3 DEF xhash_size
  <1>4. /\ DOMAIN y.items = DOMAIN x.items
        /\ y.items[i] = [key |-> key, val |-> val]
        /\ \A j \in DOMAIN x.items : j # i => y.items[j] = x.items[j]
        /\ Valids(y) = Valids(x) \cup {i}
        /\ Dummies(y) = Dummies(x) \ {i}
        /\ y.items \in [0..xhash_size(x)-1 -> Entry]
    BY StoredSets
  <1>5. u = Cardinality(Valids(y))
    <2>1. CASE item_valid(x, i)
      <3>1. Valids(x) \cup {i} = Valids(x)
        BY <1>3, <2>1 DEF Valids
      <3> QED BY <2>1, <3>1, <1>1, <1>4
    <2>2. CASE ~item_valid(x, i)
      <3>1. i \notin Valids(x)
        BY <2>2 DEF Valids
      <3>2. Cardinality(Valids(x) \cup {i}) = Cardinality(Valids(x)) + 1
        BY <3>1, <1>2, FS_AddElement
      <3> QED BY <2>2, <3>2, <1>1, <1>4
    <2> QED BY <2>1, <2>2
  <1>6. d = Cardinality(Dummies(y)) /\ d \in Nat
    <2>1. CASE item_dummy(x, i)
      <3>1. i \in Dummies(x)
        BY <1>3, <2>1 DEF Dummies
      <3>2. Cardinality(Dummies(x) \ {i}) = Cardinality(Dummies(x)) - 1 /\ IsFiniteSet(Dummies(x) \ {i})
        BY <3>1, <1>2, FS_RemoveElement
      <3>3. Cardinality(Dummies(x) \ {i}) \in Nat
        BY <3>2, FS_CardinalityType
      <3> QED BY <2>1, <3>2, <3>3, <1>1, <1>4
    <2>2. CASE ~item_dummy(x, i)
      <3>1. Dummies(x) \ {i} = Dummies(x)
        BY <2>2 DEF Dummies
      <3> QED BY <2>2, <3>1, <1>1, <1>2, <1>4
    <2> QED BY <2>1, <2>2
  <1>7. u \in Nat /\ (item_valid(x, i) => ~item_dummy(x, i))
    BY <1>2 DEF item_valid
  <1>8. IsTable(y)
    <2>1. y.items \in Arrays
      BY <1>4, <1>2, ArraysIn
    <2>2. y \in [shift : MinShift..MaxShift, used : Nat, dummies : Nat, items : Arrays]
      <3>1. y = [shift |-> x.shift, used |-> u, dummies |-> d, items |-> y.items]
        BY DEF Stored
      <3> HIDE DEF u, d
      <3>2. PICK I \in Arrays : I = y.items
        BY <2>1
      <3> QED BY <3>1, <3>2, <1>2, <1>6, <1>7
    <2> QED BY <2>2, <1>s, <1>4 DEF IsTable
  <1>9. OnTheWay(y)
    <2> SUFFICES ASSUME NEW j \in Valids(y) PROVE Reached(y, j, y.items[j].key)
      BY DEF OnTheWay
    <2>1. \A sl \in DOMAIN x.items : item_unused(y, sl) => item_unused(x, sl)
      <3> SUFFICES ASSUME NEW sl \in DOMAIN x.items, y.items[sl] = UNUSED PROVE x.items[sl] = UNUSED
        BY DEF item_unused
      <3>1. y.items[i] # UNUSED
        BY <1>4, ItemIs
      <3> QED BY <3>1, <1>4
    <2>2. PICK k \in Keys : k = y.items[j].key /\ Reached(x, j, k)
      <3>1. CASE j = i
        <4>1. y.items[j].key = key
          BY <3>1, <1>4
        <4>2. Reached(x, i, key)
          <5>1. CASE holds(x, i, key)
            BY <5>1, <1>3 DEF Good, OnTheWay, holds, Valids
          <5>2. CASE ~item_valid(x, i) /\ Reached(x, i, key)
            BY <5>2
          <5> QED BY <5>1, <5>2 DEF Stored
        <4> QED BY <3>1, <4>1, <4>2
      <3>2. CASE j # i
        <4>1. j \in Valids(x) /\ y.items[j] = x.items[j]
          BY <3>2, <1>4 DEF Valids
        <4>2. Reached(x, j, x.items[j].key) /\ x.items[j].key \in Keys
          BY <4>1, <1>1, TableFacts DEF Good, OnTheWay
        <4> QED BY <4>1, <4>2
      <3> QED BY <3>1, <3>2
    <2> QED BY <2>1, <2>2, <1>1, <1>3, ReachedKept
  <1>10. Good(y)
    BY <1>3, <1>5, <1>6, <1>8, <1>9 DEF Good, Counted
  <1> QED BY <1>2, <1>3, <1>7, <1>10 

LEMMA DeletedGood ==
    ASSUME NEW x, Good(x), NEW y, NEW i, Deleted(x, y, i)
    PROVE  /\ Good(y) /\ y.shift = x.shift
           /\ DOMAIN y.items = DOMAIN x.items
           /\ \A j \in DOMAIN x.items : j # i => y.items[j] = x.items[j]
           /\ Valids(y) = Valids(x) \ {i}
           /\ y.used = x.used - 1
           /\ y.used + y.dummies = x.used + x.dummies
  <1>1. IsTable(x) /\ x.used = Cardinality(Valids(x)) /\ x.dummies = Cardinality(Dummies(x))
    BY DEF Good, Counted
  <1>2. /\ IsFiniteSet(Valids(x)) /\ IsFiniteSet(Dummies(x)) /\ x.used \in Nat /\ x.dummies \in Nat
        /\ x.shift \in MinShift..MaxShift /\ xhash_size(x) \in Nat
    BY <1>1, TableFacts
  <1>3. /\ y.shift = x.shift /\ y.used = x.used - 1 /\ y.dummies = x.dummies + 1
        /\ i \in Valids(x) /\ i \in DOMAIN x.items /\ y.items = [x.items EXCEPT ![i] = DUMMY]
    BY DEF Deleted, Valids
  <1>s. xhash_size(y) = xhash_size(x)
    BY <1>3 DEF xhash_size
  <1>4. /\ DOMAIN y.items = DOMAIN x.items
        /\ y.items[i] = DUMMY
        /\ \A j \in DOMAIN x.items : j # i => y.items[j] = x.items[j]
        /\ y.items \in [0..xhash_size(x)-1 -> Entry]
    <2>1. x.items \in [0..xhash_size(x)-1 -> Entry] /\ DUMMY \in Entry
      BY <1>1 DEF IsTable, Entry
    <2> QED BY <1>3, <2>1
  <1>5. Valids(y) = Valids(x) \ {i} /\ Dummies(y) = Dummies(x) \cup {i} /\ i \notin Dummies(x)
    BY <1>3, <1>4 DEF Valids, Dummies, item_valid, item_dummy, item_unused
  <1>6. x.used - 1 = Cardinality(Valids(y)) /\ x.used - 1 \in Nat
    <2>1. Cardinality(Valids(x) \ {i}) = Cardinality(Valids(x)) - 1 /\ IsFiniteSet(Valids(x) \ {i})
      BY <1>2, <1>3, FS_RemoveElement
    <2>2. Cardinality(Valids(x) \ {i}) \in Nat
      BY <2>1, FS_CardinalityType
    <2> QED BY <1>1, <1>5, <2>1, <2>2
  <1>7. x.dummies + 1 = Cardinality(Dummies(y))
    <2>1. Cardinality(Dummies(x) \cup {i}) = Cardinality(Dummies(x)) + 1
      BY <1>2, <1>5, FS_AddElement
    <2> QED BY <1>1, <1>5, <2>1
  <1>8. IsTable(y)
    <2>1. y.items \in Arrays
      BY <1>4, <1>2, ArraysIn
    <2>2. y \in [shift : MinShift..MaxShift, used : Nat, dummies : Nat, items : Arrays]
      <3>1. y = [shift |-> x.shift, used |-> x.used - 1, dummies |-> x.dummies + 1, items |-> y.items]
        BY DEF Deleted
      <3>2. PICK I \in Arrays : I = y.items
        BY <2>1
      <3>3. PICK u \in Nat, d \in Nat : u = x.used - 1 /\ d = x.dummies + 1
        BY <1>2, <1>6
      <3> QED BY <3>1, <3>2, <3>3, <1>2
    <2> QED BY <2>2, <1>s, <1>4 DEF IsTable
  <1>9. OnTheWay(y)
    <2> SUFFICES ASSUME NEW j \in Valids(y) PROVE Reached(y, j, y.items[j].key)
      BY DEF OnTheWay
    <2>1. \A sl \in DOMAIN x.items : item_unused(y, sl) => item_unused(x, sl)
      BY <1>4, HashAssumption DEF item_unused
    <2>2. PICK k \in Keys : k = y.items[j].key /\ Reached(x, j, k)
      <3>1. j \in Valids(x) /\ y.items[j] = x.items[j]
        BY <1>5, <1>4 DEF Valids
      <3>2. Reached(x, j, x.items[j].key) /\ x.items[j].key \in Keys
        BY <3>1, <1>1, TableFacts DEF Good, OnTheWay
      <3> QED BY <3>1, <3>2
    <2> QED BY <2>1, <2>2, <1>1, <1>3, ReachedKept
  <1>10. Good(y)
    BY <1>3, <1>6, <1>7, <1>8, <1>9 DEF Good, Counted
  <1> QED BY <1>2, <1>3, <1>4, <1>5, <1>10

-----------------------------------------------------------------------------
(* A lookup finds a key if, and only if, it is there.                      *)
LEMMA LookupFinds ==
    ASSUME NEW x, Good(x), Room(x), NEW key \in Keys
    PROVE  \/ /\ xhash_lookup__(x, key) \in Valids(x)
              /\ holds(x, xhash_lookup__(x, key), key)
              /\ xhash_lookup__(x, key) # None
           \/ /\ xhash_lookup__(x, key) = None
              /\ \A j \in Valids(x) : x.items[j].key # key
  <1> DEFINE ends == {s \in DOMAIN x.items : item_unused(x, s) \/ holds(x, s, key)}
             i == FirstOf(x, key, ends)
             p == Slots[key][x.shift]
             Dom == ProbesOf(key, x.shift)
  <1>1. IsTable(x) /\ DOMAIN x.items \subseteq Nat /\ None \notin Nat
    BY TableFacts, HashAssumption DEF Good
  <1>2. ends # {} /\ ends \in SUBSET DOMAIN x.items
    BY RoomUnused
  <1>3. i \in ends /\ \E n \in Dom : p[n] = i /\ \A m \in 0..n-1 : p[m] \notin ends
    <2> HIDE DEF ends
    <2> QED BY <1>1, <1>2, FirstOfFacts
  <1>4. xhash_lookup__(x, key) = IF i # None /\ holds(x, i, key) THEN i ELSE None
    BY DEF xhash_lookup__
  <1>5. i # None /\ i \in DOMAIN x.items
    BY <1>1, <1>3
  <1> HIDE DEF i
  <1>6. CASE holds(x, i, key)
    BY <1>4, <1>5, <1>6 DEF holds, Valids
  <1>7. CASE ~holds(x, i, key)
    <2>1. item_unused(x, i)
      BY <1>3, <1>7
    <2>2. PICK n \in Dom : p[n] = i /\ \A m \in 0..n-1 : p[m] \notin ends
      BY <1>3
    <2>3. ASSUME NEW j \in Valids(x), x.items[j].key = key PROVE FALSE
      <3>1. j \in ends /\ j # i
        BY <2>3, <2>1 DEF Valids, holds, item_valid
      <3>2. PICK n2 \in Dom : p[n2] = j /\ \A m \in 0..n2-1 : ~item_unused(x, p[m])
        BY <2>3 DEF Good, OnTheWay, Reached
      <3>3. Dom \subseteq Nat
        <4>1. Hash[key] \in Nat /\ OneShl[x.shift] \in Nat
          BY HashAssumption, TableFacts, <1>1 DEF xhash_size
        <4> QED BY <4>1 DEF ProbesOf
      <3>4. n \in Nat /\ n2 \in Nat
        BY <3>3
      <3> HIDE DEF p, Dom, ends
      <3>5. CASE n < n2
        <4>1. n \in 0..n2-1
          BY <3>4, <3>5
        <4> QED BY <4>1, <3>2, <2>1, <2>2
      <3>6. CASE n2 < n
        <4>1. n2 \in 0..n-1
          BY <3>4, <3>6
        <4> QED BY <4>1, <3>1, <3>2, <2>2
      <3>7. CASE n = n2
        BY <3>7, <3>1, <3>2, <2>2
      <3> QED BY <3>4, <3>5, <3>6, <3>7
    <2> QED BY <1>4, <1>7, <2>3
  <1> QED BY <1>6, <1>7

(* The slot in which an item is stored.                                    *)
LEMMA UpdateSlotFacts ==
    ASSUME NEW x, Good(x), Room(x), NEW key \in Keys
    PROVE  /\ UpdateSlot(x, key) \in DOMAIN x.items
           /\ \/ holds(x, UpdateSlot(x, key), key)
              \/ ~item_valid(x, UpdateSlot(x, key)) /\ Reached(x, UpdateSlot(x, key), key)
  <1> DEFINE ends == {s \in DOMAIN x.items : ~item_valid(x, s) \/ holds(x, s, key)}
             i == UpdateSlot(x, key)
             p == Slots[key][x.shift]
             Dom == ProbesOf(key, x.shift)
  <1>1. IsTable(x)
    BY DEF Good
  <1>2. ends # {} /\ ends \in SUBSET DOMAIN x.items
    BY RoomUnused DEF item_valid
  <1>3. i = FirstOf(x, key, ends)
    BY DEF UpdateSlot
  <1>4. i \in ends /\ \E n \in Dom : p[n] = i /\ \A m \in 0..n-1 : p[m] \notin ends
    <2> HIDE DEF ends, i
    <2> QED BY <1>1, <1>2, <1>3, FirstOfFacts
  <1> HIDE DEF i
  <1>5. CASE holds(x, i, key)
    BY <1>4, <1>5 DEF i
  <1>6. CASE ~item_valid(x, i)
    <2>1. PICK n \in Dom : p[n] = i /\ \A m \in 0..n-1 : p[m] \notin ends
      BY <1>4
    <2>2. ASSUME NEW m \in 0..n-1 PROVE ~item_unused(x, p[m])
      <3>1. p[m] \in DOMAIN x.items
        <4>1. \A l \in Dom : p[l] \in 0..OneShl[x.shift]-1
          BY <1>1, TableFacts, SlotsFacts
        <4>2. 0..n-1 \subseteq Dom
          <5>1. Hash[key] \in Nat /\ OneShl[x.shift] \in Nat
            BY HashAssumption, TableFacts, <1>1 DEF xhash_size
          <5> QED BY <5>1 DEF ProbesOf
        <4>3. DOMAIN x.items = 0..OneShl[x.shift]-1
          BY <1>1 DEF IsTable, xhash_size
        <4> QED BY <4>1, <4>2, <4>3
      <3> QED BY <3>1, <2>1 DEF item_valid
    <2>3. Reached(x, i, key)
      BY <2>1, <2>2 DEF Reached
    <2> QED BY <1>4, <1>6, <2>3 DEF i
  <1> QED BY <1>4, <1>5, <1>6

(* The operations store and delete.                                        *)
LEMMA RecordParts ==
    ASSUME NEW x, IsTable(x), NEW i \in DOMAIN x.items, NEW key \in Keys, NEW val \in Nat
    PROVE  /\ xhash_upd_set(x, i, key, val) =
                 [shift |-> x.shift, used |-> x.used + 1,
                  dummies |-> IF item_dummy(x, i) THEN x.dummies - 1 ELSE x.dummies,
                  items |-> [x.items EXCEPT ![i] = [key |-> key, val |-> val]]]
           /\ holds(x, i, key) =>
              set_val(x, i, val) =
                 [shift |-> x.shift, used |-> x.used, dummies |-> x.dummies,
                  items |-> [x.items EXCEPT ![i] = [key |-> key, val |-> val]]]
  <1> DEFINE I == x.items
             new == [key |-> key, val |-> val]
  <1>1. x = [shift |-> x.shift, used |-> x.used, dummies |-> x.dummies, items |-> I]
    BY DEF IsTable
  <1>2. I = x.items
    OBVIOUS
  <1>3. xhash_upd_set(x, i, key, val) =
                 [shift |-> x.shift, used |-> x.used + 1,
                  dummies |-> IF item_dummy(x, i) THEN x.dummies - 1 ELSE x.dummies,
                  items |-> [I EXCEPT ![i] = new]]
    <2> DEFINE dd == IF item_dummy(x, i) THEN x.dummies - 1 ELSE x.dummies
    <2>1. xhash_upd_set(x, i, key, val) = [x EXCEPT !.dummies = dd, !.used = @ + 1, !.items[i] = new]
      BY DEF xhash_upd_set
    <2> HIDE DEF dd, new
    <2>2. [x EXCEPT !.dummies = dd, !.used = @ + 1, !.items[i] = new]
            = [shift |-> x.shift, used |-> x.used + 1, dummies |-> dd, items |-> [I EXCEPT ![i] = new]]
      <3>1. PICK u \in Nat : \E s, d : x = [shift |-> s, used |-> u, dummies |-> d, items |-> I]
        <4>1. x.used \in Nat
          BY TableFacts
        <4> QED BY <1>1, <4>1, Zenon
      <3>p. PICK s, d : x = [shift |-> s, used |-> u, dummies |-> d, items |-> I]
        BY <3>1
      <3> HIDE DEF I
      <3>2. x.shift = s /\ x.used = u
        BY <3>p
      <3>3. [x EXCEPT !.dummies = dd, !.used = @ + 1, !.items[i] = new]
              = [shift |-> s, used |-> u + 1, dummies |-> dd, items |-> [I EXCEPT ![i] = new]]
        <4>1. PICK e : e = [x EXCEPT !.dummies = dd]
          OBVIOUS
        <4>2. e = [shift |-> s, used |-> u, dummies |-> dd, items |-> I]
          BY <3>p, <4>1
        <4>3. PICK f : f = [e EXCEPT !.used = @ + 1]
          OBVIOUS
        <4>4. f = [shift |-> s, used |-> u + 1, dummies |-> dd, items |-> I]
          BY <4>2, <4>3
        <4>5. [f EXCEPT !.items[i] = new]
                = [shift |-> s, used |-> u + 1, dummies |-> dd, items |-> [I EXCEPT ![i] = new]]
          BY <4>4
        <4>6. [x EXCEPT !.dummies = dd, !.used = @ + 1, !.items[i] = new]
                = [f EXCEPT !.items[i] = new]
          BY <4>1, <4>3
        <4> QED BY <4>5, <4>6
      <3> QED BY <3>2, <3>3
    <2> QED BY <2>1, <2>2 DEF dd
  <1>4. ASSUME holds(x, i, key)
        PROVE  set_val(x, i, val) =
                 [shift |-> x.shift, used |-> x.used, dummies |-> x.dummies,
                  items |-> [I EXCEPT ![i] = new]]
    <2>1. set_val(x, i, val) =
                 [shift |-> x.shift, used |-> x.used, dummies |-> x.dummies,
                  items |-> [I EXCEPT ![i].val = val]]
      BY <1>1 DEF set_val
    <2>2. I[i] \in Item /\ I[i].key = key
      BY <1>4, TableFacts DEF holds, Valids
    <2>3. [I[i] EXCEPT !.val = val] = new
      BY <2>2 DEF Item
    <2>4. [I EXCEPT ![i].val = val] = [I EXCEPT ![i] = new]
      BY <2>3
    <2> QED BY <2>1, <2>4
  <1> QED BY <1>3, <1>4

LEMMA InsertStores ==
    ASSUME NEW x, Good(x), Room(x), NEW key \in Keys, NEW val \in Nat
    PROVE  Stored(x, xhash_insert__(x, key, val), UpdateSlot(x, key), key, val)
  <1> DEFINE i == UpdateSlot(x, key)
  <1>1. i \in DOMAIN x.items /\ (holds(x, i, key) \/ (~item_valid(x, i) /\ Reached(x, i, key)))
    BY UpdateSlotFacts
  <1>2. IsTable(x)
    BY DEF Good
  <1>3. xhash_insert__(x, key, val)
          = IF item_valid(x, i) THEN set_val(x, i, val) ELSE xhash_upd_set(x, i, key, val)
    BY DEF xhash_insert__
  <1> HIDE DEF i
  <1>4. CASE item_valid(x, i)
    <2>1. holds(x, i, key) /\ ~item_dummy(x, i)
      BY <1>1, <1>4 DEF item_valid
    <2> QED BY <1>1, <1>2, <1>3, <1>4, <2>1, RecordParts DEF Stored, i
  <1>5. CASE ~item_valid(x, i)
    BY <1>1, <1>2, <1>3, <1>5, RecordParts DEF Stored, i
  <1> QED BY <1>4, <1>5

LEMMA FreqlStores ==
    ASSUME NEW x, Good(x), Room(x), NEW key \in Keys, NEW val \in Nat
    PROVE  \E v \in Nat :
              /\ Stored(x, xhash_freql_update__(x, key, val), UpdateSlot(x, key), key, v)
              /\ (\A j \in Valids(x) : x.items[j].key # key) => v = val
  <1> DEFINE i == UpdateSlot(x, key)
  <1>1. i \in DOMAIN x.items /\ (holds(x, i, key) \/ (~item_valid(x, i) /\ Reached(x, i, key)))
    BY UpdateSlotFacts
  <1>2. IsTable(x)
    BY DEF Good
  <1>3. xhash_freql_update__(x, key, val)
          = IF item_valid(x, i) THEN set_val(x, i, x.items[i].val + val)
            ELSE xhash_upd_set(x, i, key, val)
    BY DEF xhash_freql_update__
  <1> HIDE DEF i
  <1>4. CASE item_valid(x, i)
    <2>1. holds(x, i, key) /\ ~item_dummy(x, i) /\ i \in Valids(x) /\ x.items[i].key = key
      BY <1>1, <1>4 DEF item_valid, holds, Valids
    <2>2. PICK v \in Nat : v = x.items[i].val + val
      BY <1>2, <2>1, TableFacts
    <2>3. Stored(x, xhash_freql_update__(x, key, val), i, key, v)
      BY <1>1, <1>2, <1>3, <1>4, <2>1, <2>2, RecordParts DEF Stored
    <2> QED BY <2>1, <2>3 DEF i
  <1>5. CASE ~item_valid(x, i)
    <2>1. Stored(x, xhash_freql_update__(x, key, val), i, key, val)
      BY <1>1, <1>2, <1>3, <1>5, RecordParts DEF Stored
    <2> QED BY <2>1 DEF i
  <1> QED BY <1>4, <1>5

LEMMA UpdateStores ==
    ASSUME NEW x, Good(x), NEW key \in Keys, NEW val \in Nat,
           \E j \in Valids(x) : x.items[j].key = key
    PROVE  \E i \in Valids(x) : /\ x.items[i].key = key
                                /\ Stored(x, xhash_update(x, key, val), i, key, val)
  <1> DEFINE ends == {s \in DOMAIN x.items : holds(x, s, key)}
             i == FirstOf(x, key, ends)
  <1>1. ends # {} /\ ends \in SUBSET DOMAIN x.items
    BY DEF holds, Valids
  <1>2. IsTable(x)
    BY DEF Good
  <1>3. i \in ends
    <2> HIDE DEF ends
    <2> QED BY <1>1, <1>2, FirstOfFacts
  <1>4. xhash_update(x, key, val) = set_val(x, i, val)
    BY DEF xhash_update
  <1> HIDE DEF i
  <1>5. holds(x, i, key) /\ item_valid(x, i) /\ i \in DOMAIN x.items /\ ~item_dummy(x, i)
    BY <1>3 DEF holds, item_valid
  <1>6. Stored(x, xhash_update(x, key, val), i, key, val)
    BY <1>2, <1>4, <1>5, RecordParts DEF Stored
  <1>7. i \in Valids(x) /\ x.items[i].key = key
    BY <1>5 DEF Valids, holds
  <1> QED BY <1>6, <1>7

LEMMA DeleteDeletes ==
    ASSUME NEW x, Good(x), Room(x), NEW key \in Keys,
           \E j \in Valids(x) : x.items[j].key = key
    PROVE  \E i \in Valids(x) : /\ x.items[i].key = key
                                /\ i = xhash_lookup__(x, key)
                                /\ Deleted(x, xhash_delete__(x, key), i)
  <1> DEFINE i == xhash_lookup__(x, key)
             I == x.items
  <1>1. i \in Valids(x) /\ x.items[i].key = key
    BY LookupFinds DEF holds
  <1>2. x = [shift |-> x.shift, used |-> x.used, dummies |-> x.dummies, items |-> I]
    BY DEF Good, IsTable
  <1>3. xhash_delete__(x, key) = [x EXCEPT !.items[i] = DUMMY, !.dummies = @ + 1, !.used = @ - 1]
    BY DEF xhash_delete__
  <1> HIDE DEF i
  <1>4. xhash_delete__(x, key) = [shift |-> x.shift, used |-> x.used - 1, dummies |-> x.dummies + 1,
                                  items |-> [I EXCEPT ![i] = DUMMY]]
    BY <1>2, <1>3
  <1>5. Deleted(x, xhash_delete__(x, key), i)
    BY <1>1, <1>4 DEF Deleted
  <1> QED BY <1>1, <1>5 DEF i

-----------------------------------------------------------------------------
(* An empty table, of any size.                                            *)
LEMMA InitGood ==
    ASSUME NEW shift \in MinShift..MaxShift
    PROVE  /\ Good(xhash_init(shift)) /\ Valids(xhash_init(shift)) = {}
           /\ xhash_init(shift).shift = shift
           /\ xhash_init(shift).used = 0 /\ xhash_init(shift).dummies = 0
  <1> DEFINE x == xhash_init(shift)
             I == [i \in 0..OneShl[shift]-1 |-> UNUSED]
  <1>1. x = [shift |-> shift, used |-> 0, dummies |-> 0, items |-> I]
    BY DEF xhash_init
  <1>2. OneShl[shift] \in Nat /\ shift \in Nat
    BY SizeAtLeast
  <1>3. I \in [0..OneShl[shift]-1 -> Entry]
    BY DEF Entry
  <1>4. I \in Arrays
    BY <1>2, <1>3, ArraysIn
  <1> HIDE DEF x
  <1>5. x.items = I /\ x.shift = shift /\ x.used = 0 /\ x.dummies = 0
    BY <1>1
  <1>6. IsTable(x)
    <2>1. x \in [shift : MinShift..MaxShift, used : Nat, dummies : Nat, items : Arrays]
      <3> HIDE DEF I
      <3> QED BY <1>1, <1>4
    <2> QED BY <2>1, <1>3, <1>5 DEF IsTable, xhash_size
  <1>7. Valids(x) = {} /\ Dummies(x) = {}
    BY <1>5, HashAssumption DEF Valids, Dummies, item_valid, item_unused, item_dummy
  <1>8. Good(x)
    BY <1>5, <1>6, <1>7, FS_EmptySet DEF Good, Counted, OnTheWay
  <1> QED BY <1>5, <1>7, <1>8 DEF x

-----------------------------------------------------------------------------
(* What is in a table.                                                     *)
InTable(x, k) == \E i \in Valids(x) : x.items[i].key = k

Has(x, k, v) == \E i \in Valids(x) : x.items[i].key = k /\ x.items[i].val = v

LEMMA StoredHas ==
    ASSUME NEW x, Good(x), OwnedOnce(x), NEW y, NEW i, NEW key \in Keys, NEW val \in Nat,
           Stored(x, y, i, key, val),
           key \in Owned => item_valid(x, i) \/ ~InTable(x, key)
    PROVE  /\ OwnedOnce(y)
           /\ \A k : InTable(y, k) <=> InTable(x, k) \/ k = key
           /\ \A k \in Owned : \A v : Has(y, k, v) <=> IF k = key THEN v = val ELSE Has(x, k, v)
  <1>1. /\ Valids(y) = Valids(x) \cup {i}
        /\ y.items[i].key = key /\ y.items[i].val = val
        /\ \A j \in Valids(x) : j # i => y.items[j] = x.items[j]
    <2>1. /\ DOMAIN y.items = DOMAIN x.items
          /\ y.items[i] = [key |-> key, val |-> val]
          /\ \A j \in DOMAIN x.items : j # i => y.items[j] = x.items[j]
          /\ Valids(y) = Valids(x) \cup {i}
          /\ Dummies(y) = Dummies(x) \ {i}
          /\ y.items \in [0..xhash_size(x)-1 -> Entry]
      BY StoredSets
    <2> QED BY <2>1 DEF Valids
  <1>2. i \in Valids(x) => x.items[i].key = key
    BY DEF Stored, holds, Valids
  <1>3. item_valid(x, i) => i \in Valids(x)
    BY DEF Stored, Valids
  <1>4. ASSUME NEW j \in Valids(x), x.items[j].key = key, key \in Owned PROVE j = i
    BY <1>2, <1>3, <1>4 DEF OwnedOnce, InTable
  <1>5. OwnedOnce(y)
    <2> SUFFICES ASSUME NEW a \in Valids(y), NEW c \in Valids(y),
                        y.items[a].key = y.items[c].key, y.items[a].key \in Owned, a # c
                 PROVE  FALSE
      BY DEF OwnedOnce
    <2>1. CASE a = i
      BY <2>1, <1>1, <1>4
    <2>2. CASE c = i
      BY <2>2, <1>1, <1>4
    <2>3. CASE a # i /\ c # i
      BY <2>3, <1>1 DEF OwnedOnce
    <2> QED BY <2>1, <2>2, <2>3
  <1>6. ASSUME NEW k PROVE InTable(y, k) <=> InTable(x, k) \/ k = key
    BY <1>1, <1>2 DEF InTable
  <1>7. ASSUME NEW k \in Owned, NEW v
        PROVE  Has(y, k, v) <=> IF k = key THEN v = val ELSE Has(x, k, v)
    <2>1. CASE k = key
      BY <2>1, <1>1, <1>4 DEF Has
    <2>2. CASE k # key
      BY <2>2, <1>1, <1>2 DEF Has
    <2> QED BY <2>1, <2>2
  <1> QED BY <1>5, <1>6, <1>7

LEMMA DeletedHas ==
    ASSUME NEW x, Good(x), OwnedOnce(x), NEW y, NEW i, Deleted(x, y, i)
    PROVE  /\ OwnedOnce(y)
           /\ \A k \in Owned : \A v :
                 Has(y, k, v) <=> k # x.items[i].key /\ Has(x, k, v)
  <1>1. Valids(y) = Valids(x) \ {i} /\ i \in Valids(x)
    BY DeletedGood DEF Deleted
  <1>2. \A j \in Valids(y) : y.items[j] = x.items[j]
    BY <1>1, DeletedGood DEF Valids
  <1>3. OwnedOnce(y)
    BY <1>1, <1>2 DEF OwnedOnce
  <1>4. ASSUME NEW k \in Owned, NEW v
        PROVE  Has(y, k, v) <=> k # x.items[i].key /\ Has(x, k, v)
    BY <1>1, <1>2 DEF Has, OwnedOnce
  <1> QED BY <1>3, <1>4

-----------------------------------------------------------------------------
(* A resize moves everything.                                              *)
Moves(g, x, z) == g = [i \in Nat |-> IF i = 0 THEN z ELSE Moved(g[i - 1], x, i - 1)]

LEMMA MovesExist ==
    ASSUME NEW x, NEW z
    PROVE  \E g : Moves(g, x, z)
  <1> DEFINE Approx(h, n) == h[0] = z /\ \A m \in 0..n-1 : h[m + 1] = Moved(h[m], x, m)
  <1>1. \A n \in Nat : \E h : Approx(h, n)
    <2> DEFINE T == {n \in Nat : \E h : Approx(h, n)}
    <2>1. 0 \in T
      <3>1. Approx([m \in {0} |-> z], 0)
        OBVIOUS
      <3> QED BY <3>1
    <2>2. ASSUME NEW n \in Nat, n \in T PROVE n + 1 \in T
      <3>1. PICK h : Approx(h, n)
        BY <2>2
      <3> DEFINE h2 == [m \in 0..n+1 |-> IF m = n + 1 THEN Moved(h[n], x, n) ELSE h[m]]
      <3>2. h2[n + 1] = Moved(h[n], x, n) /\ \A m \in 0..n : h2[m] = h[m]
        OBVIOUS
      <3> HIDE DEF h2
      <3>3. h2[0] = z
        BY <3>1, <3>2
      <3>4. ASSUME NEW m \in 0..(n+1)-1 PROVE h2[m + 1] = Moved(h2[m], x, m)
        <4>1. CASE m = n
          BY <4>1, <3>2
        <4>2. CASE m \in 0..n-1
          <5>1. m \in 0..n /\ m + 1 \in 0..n
            BY <4>2
          <5>2. h2[m + 1] = h[m + 1] /\ h2[m] = h[m]
            BY <3>2, <5>1
          <5> QED BY <3>1, <4>2, <5>2
        <4> QED BY <4>1, <4>2
      <3>5. Approx(h2, n + 1)
        BY <3>3, <3>4
      <3> HIDE DEF Approx
      <3> QED BY <3>5
    <2> HIDE DEF T
    <2>3. \A n \in Nat : n \in T
      BY <2>1, <2>2, SetInduction
    <2> QED BY <2>3 DEF T
  <1>2. ASSUME NEW n \in Nat, NEW l \in Nat, NEW h, NEW h2, Approx(h, n), Approx(h2, l)
        PROVE  \A m \in Nat : m <= n /\ m <= l => h[m] = h2[m]
    <2> DEFINE T == {m \in Nat : m <= n /\ m <= l => h[m] = h2[m]}
    <2>1. 0 \in T
      BY <1>2
    <2>2. ASSUME NEW m \in Nat, m \in T PROVE m + 1 \in T
      <3> SUFFICES ASSUME m + 1 <= n, m + 1 <= l PROVE h[m + 1] = h2[m + 1]
        OBVIOUS
      <3>1. m \in 0..n-1 /\ m \in 0..l-1 /\ h[m] = h2[m]
        BY <2>2
      <3>2. h[m + 1] = Moved(h[m], x, m) /\ h2[m + 1] = Moved(h2[m], x, m)
        BY <3>1, <1>2
      <3> QED BY <3>1, <3>2, Zenon
    <2> HIDE DEF T
    <2>3. \A m \in Nat : m \in T
      BY <2>1, <2>2, SetInduction
    <2> QED BY <2>3 DEF T
  <1> DEFINE H(n) == CHOOSE h : Approx(h, n)
             g == [n \in Nat |-> H(n)[n]]
  <1>3. ASSUME NEW n \in Nat PROVE Approx(H(n), n)
    <2> HIDE DEF Approx
    <2> QED BY <1>1, Zenon
  <1>4. \A n \in Nat : g[n] = H(n)[n]
    OBVIOUS
  <1>5. ASSUME NEW n \in Nat, n # 0 PROVE g[n] = Moved(g[n - 1], x, n - 1)
    <2>1. PICK l \in Nat : n = l + 1 /\ n - 1 = l
      BY <1>5
    <2>2. Approx(H(l + 1), l + 1) /\ Approx(H(l), l)
      BY <1>3, <2>1
    <2>3. H(l + 1)[l + 1] = Moved(H(l + 1)[l], x, l)
      <3> HIDE DEF H
      <3>1. l \in 0..(l + 1)-1
        OBVIOUS
      <3> QED BY <2>2, <3>1
    <2>4. H(l + 1)[l] = H(l)[l]
      <3> HIDE DEF Approx, H
      <3>1. l + 1 \in Nat /\ l <= l + 1 /\ l <= l
        OBVIOUS
      <3> QED BY <2>2, <3>1, <1>2
    <2> HIDE DEF H, g
    <2>5. g[l + 1] = H(l + 1)[l + 1] /\ g[l] = H(l)[l]
      BY <1>4, <2>1
    <2>6. g[l + 1] = Moved(g[l], x, l)
      BY <2>3, <2>4, <2>5, Zenon
    <2> QED BY <2>1, <2>6
  <1>6. g[0] = z
    <2>1. Approx(H(0), 0)
      BY <1>3
    <2> HIDE DEF H
    <2> QED BY <2>1, <1>4
  <1>7. g = [n \in Nat |-> g[n]]
    OBVIOUS
  <1> HIDE DEF g
  <1>8. \A n \in Nat : g[n] = IF n = 0 THEN z ELSE Moved(g[n - 1], x, n - 1)
    BY <1>5, <1>6
  <1>9. g = [i \in Nat |-> IF i = 0 THEN z ELSE Moved(g[i - 1], x, i - 1)]
    BY <1>7, <1>8
  <1> QED BY <1>9 DEF Moves

LEMMA ResizeDef ==
    ASSUME NEW x, NEW shift
    PROVE  \E new : /\ new[0] = xhash_init(shift)
                    /\ \A n \in Nat : new[n + 1] = Moved(new[n], x, n)
                    /\ xhash_resize(x, shift) = new[xhash_size(x)]
  <1> DEFINE z == xhash_init(shift)
             new == CHOOSE g : Moves(g, x, z)
  <1>1. \E g : Moves(g, x, z)
    BY MovesExist
  <1>2. Moves(new, x, z)
    BY <1>1, Zenon
  <1>3. xhash_resize(x, shift) = new[xhash_size(x)]
    BY Zenon DEF xhash_resize, Moves
  <1> HIDE DEF new, z
  <1>4. new[0] = z
    BY <1>2 DEF Moves
  <1>5. ASSUME NEW n \in Nat PROVE new[n + 1] = Moved(new[n], x, n)
    <2>1. n + 1 \in Nat /\ n + 1 # 0 /\ n + 1 - 1 = n
      OBVIOUS
    <2>2. new[n + 1] = Moved(new[n + 1 - 1], x, n + 1 - 1)
      BY <1>2, <2>1 DEF Moves
    <2> QED BY <2>1, <2>2
  <1> QED BY <1>3, <1>4, <1>5 DEF z

LEMMA BelowNext ==
    ASSUME NEW x, IsTable(x), NEW n \in 0..xhash_size(x)-1
    PROVE  /\ IsFiniteSet(Below(x, n)) /\ Cardinality(Below(x, n)) \in Nat
           /\ Cardinality(Below(x, n)) <= Cardinality(Valids(x))
           /\ item_valid(x, n) => /\ n \in Valids(x) /\ n \notin Below(x, n)
                                  /\ Below(x, n + 1) = Below(x, n) \cup {n}
                                  /\ Cardinality(Below(x, n + 1)) = Cardinality(Below(x, n)) + 1
                                  /\ Cardinality(Below(x, n)) < Cardinality(Valids(x))
           /\ ~item_valid(x, n) => Below(x, n + 1) = Below(x, n)
  <1>1. IsFiniteSet(Valids(x)) /\ DOMAIN x.items = 0..xhash_size(x)-1 /\ xhash_size(x) \in Nat
    BY TableFacts
  <1>2. Below(x, n) \subseteq Valids(x) /\ Below(x, n + 1) \subseteq Valids(x)
    BY DEF Below
  <1>3. IsFiniteSet(Below(x, n)) /\ Cardinality(Below(x, n)) <= Cardinality(Valids(x))
    BY <1>1, <1>2, FS_Subset
  <1>4. Cardinality(Below(x, n)) \in Nat /\ Cardinality(Valids(x)) \in Nat
    BY <1>1, <1>3, FS_CardinalityType
  <1>5. \A i \in Valids(x) : i \in Nat
    BY <1>1 DEF Valids
  <1>b. \A i \in Valids(x) : i < n + 1 <=> i < n \/ i = n
    BY <1>5
  <1>6. ASSUME item_valid(x, n)
        PROVE  /\ n \in Valids(x) /\ n \notin Below(x, n)
               /\ Below(x, n + 1) = Below(x, n) \cup {n}
               /\ Cardinality(Below(x, n + 1)) = Cardinality(Below(x, n)) + 1
               /\ Cardinality(Below(x, n)) < Cardinality(Valids(x))
    <2>1. n \in Valids(x) /\ n \notin Below(x, n)
      BY <1>1, <1>6 DEF Valids, Below
    <2>2. Below(x, n + 1) = Below(x, n) \cup {n}
      BY <1>b, <2>1 DEF Below
    <2>3. Cardinality(Below(x, n + 1)) = Cardinality(Below(x, n)) + 1
      BY <1>3, <2>1, <2>2, FS_AddElement
    <2>4. Cardinality(Below(x, n + 1)) <= Cardinality(Valids(x))
      BY <1>1, <1>2, FS_Subset
    <2> QED BY <1>4, <2>1, <2>2, <2>3, <2>4
  <1>7. ASSUME ~item_valid(x, n) PROVE Below(x, n + 1) = Below(x, n)
    <2>1. n \notin Valids(x)
      BY <1>7 DEF Valids
    <2> QED BY <1>b, <2>1 DEF Below
  <1> QED BY <1>3, <1>4, <1>6, <1>7

LEMMA BelowEnds ==
    ASSUME NEW x, IsTable(x)
    PROVE  Below(x, 0) = {} /\ Below(x, xhash_size(x)) = Valids(x)
  <1>1. DOMAIN x.items = 0..xhash_size(x)-1 /\ xhash_size(x) \in Nat
    BY TableFacts
  <1> QED BY <1>1 DEF Below, Valids

(* The new table after the first n slots of the old one.                   *)
MovedSoFar(new, x, shift, n) ==
    /\ Good(new) /\ new.shift = shift /\ new.dummies = 0
    /\ new.used <= Cardinality(Below(x, n))
    /\ Owned = Keys => new.used = Cardinality(Below(x, n))
    /\ OwnedOnce(new)
    /\ \A k : InTable(new, k) <=> \E i \in Below(x, n) : x.items[i].key = k
    /\ \A k \in Owned : \A v :
          Has(new, k, v) <=> \E i \in Below(x, n) : x.items[i].key = k /\ x.items[i].val = v

LEMMA MovedKeeps ==
    ASSUME NEW x, Good(x), OwnedOnce(x), NEW shift \in MinShift..MaxShift,
           x.used < OneShl[shift], NEW n \in 0..xhash_size(x)-1, NEW new,
           MovedSoFar(new, x, shift, n)
    PROVE  MovedSoFar(Moved(new, x, n), x, shift, n + 1)
  <1>1. IsTable(x) /\ Good(new) /\ x.used = Cardinality(Valids(x))
    BY DEF Good, Counted, MovedSoFar
  <1>2. CASE ~item_valid(x, n)
    BY <1>1, <1>2, BelowNext DEF Moved, MovedSoFar
  <1>3. CASE item_valid(x, n)
    <2>1. /\ n \in Valids(x) /\ n \notin Below(x, n)
          /\ Below(x, n + 1) = Below(x, n) \cup {n}
          /\ Cardinality(Below(x, n + 1)) = Cardinality(Below(x, n)) + 1
          /\ Cardinality(Below(x, n)) < Cardinality(Valids(x))
          /\ Cardinality(Below(x, n)) \in Nat
      BY <1>1, <1>3, BelowNext
    <2>2. PICK key \in Keys, val \in Nat : key = x.items[n].key /\ val = x.items[n].val
      BY <1>1, <2>1, TableFacts
    <2>3. new.used \in Nat /\ new.dummies = 0 /\ new.used <= Cardinality(Below(x, n))
      BY <1>1, TableFacts DEF MovedSoFar, Good
    <2>4. Room(new)
      <3>1. xhash_size(new) = OneShl[shift]
        BY DEF xhash_size, MovedSoFar
      <3>2. OneShl[shift] \in Nat /\ x.used \in Nat
        BY SizeAtLeast, <1>1, TableFacts
      <3> QED BY <1>1, <2>1, <2>3, <3>1, <3>2 DEF Room
    <2> DEFINE i == UpdateSlot(new, key)
               y == xhash_insert__(new, key, val)
    <2>5. Moved(new, x, n) = y
      BY <1>3, <2>2 DEF Moved
    <2>6. Stored(new, y, i, key, val)
      BY <1>1, <2>4, InsertStores
    <2> HIDE DEF i, y
    <2>7. key \in Owned => ~InTable(new, key)
      <3> SUFFICES ASSUME key \in Owned, InTable(new, key) PROVE FALSE
        OBVIOUS
      <3>1. PICK j \in Below(x, n) : x.items[j].key = key
        BY DEF MovedSoFar
      <3>2. j \in Valids(x)
        BY DEF Below
      <3>3. j = n
        BY <2>1, <2>2, <3>1, <3>2 DEF OwnedOnce
      <3> QED BY <2>1, <3>3
    <2>8. /\ Good(y) /\ y.shift = new.shift
          /\ y.used = (IF item_valid(new, i) THEN new.used ELSE new.used + 1)
          /\ y.dummies <= new.dummies
      BY <1>1, <2>6, StoredGood
    <2>9. y.dummies \in Nat /\ y.dummies = 0
      <3>1. y.dummies \in Nat
        BY <2>8, TableFacts DEF Good
      <3> QED BY <3>1, <2>8, <2>3
    <2>10. /\ OwnedOnce(y)
           /\ \A k : InTable(y, k) <=> InTable(new, k) \/ k = key
           /\ \A k \in Owned : \A v : Has(y, k, v) <=> IF k = key THEN v = val ELSE Has(new, k, v)
      <3>1. OwnedOnce(new)
        BY DEF MovedSoFar
      <3> QED BY <3>1, <1>1, <2>6, <2>7, StoredHas
    <2>11. y.used <= Cardinality(Below(x, n + 1))
      BY <2>1, <2>3, <2>8
    <2>12. Owned = Keys => y.used = Cardinality(Below(x, n + 1))
      <3> SUFFICES ASSUME Owned = Keys PROVE y.used = Cardinality(Below(x, n + 1))
        OBVIOUS
      <3>1. new.used = Cardinality(Below(x, n))
        BY DEF MovedSoFar
      <3>2. ~item_valid(new, i)
        <4> SUFFICES ASSUME item_valid(new, i) PROVE FALSE
          OBVIOUS
        <4>1. holds(new, i, key) /\ i \in DOMAIN new.items
          BY <2>6 DEF Stored
        <4>2. InTable(new, key)
          BY <4>1 DEF InTable, holds, Valids
        <4> QED BY <2>7, <4>2
      <3> QED BY <2>1, <2>8, <3>1, <3>2
    <2>13. ASSUME NEW k PROVE InTable(y, k) <=> \E j \in Below(x, n + 1) : x.items[j].key = k
      BY <2>1, <2>2, <2>10 DEF MovedSoFar
    <2>14. ASSUME NEW k \in Owned, NEW v
           PROVE  Has(y, k, v)
                    <=> \E j \in Below(x, n + 1) : x.items[j].key = k /\ x.items[j].val = v
      <3>1. CASE k = key
        <4>1. \A j \in Below(x, n) : x.items[j].key # key
          BY <2>7, <3>1 DEF MovedSoFar
        <4> QED BY <2>1, <2>2, <2>10, <3>1, <4>1
      <3>2. CASE k # key
        BY <2>1, <2>2, <2>10, <3>2 DEF MovedSoFar
      <3> QED BY <3>1, <3>2
    <2>15. y.shift = shift
      BY <2>8 DEF MovedSoFar
    <2>16. MovedSoFar(y, x, shift, n + 1)
      BY <2>8, <2>9, <2>10, <2>11, <2>12, <2>13, <2>14, <2>15 DEF MovedSoFar
    <2> QED BY <2>5, <2>16
  <1> QED BY <1>2, <1>3

LEMMA ResizeMoves ==
    ASSUME NEW x, Good(x), OwnedOnce(x), NEW shift \in MinShift..MaxShift,
           x.used < OneShl[shift]
    PROVE  /\ Good(xhash_resize(x, shift)) /\ OwnedOnce(xhash_resize(x, shift))
           /\ xhash_resize(x, shift).shift = shift /\ xhash_resize(x, shift).dummies = 0
           /\ xhash_resize(x, shift).used <= x.used
           /\ Owned = Keys => xhash_resize(x, shift).used = x.used
           /\ \A k : InTable(xhash_resize(x, shift), k) <=> InTable(x, k)
           /\ \A k \in Owned : \A v : Has(xhash_resize(x, shift), k, v) <=> Has(x, k, v)
  <1>1. IsTable(x) /\ x.used = Cardinality(Valids(x)) /\ xhash_size(x) \in Nat
    BY TableFacts DEF Good, Counted
  <1>2. PICK new : /\ new[0] = xhash_init(shift)
                   /\ \A n \in Nat : new[n + 1] = Moved(new[n], x, n)
                   /\ xhash_resize(x, shift) = new[xhash_size(x)]
    BY ResizeDef
  <1> DEFINE T == {n \in Nat : n <= xhash_size(x) => MovedSoFar(new[n], x, shift, n)}
  <1>3. 0 \in T
    <2>1. /\ Good(new[0]) /\ Valids(new[0]) = {} /\ new[0].shift = shift
          /\ new[0].used = 0 /\ new[0].dummies = 0
      BY <1>2, InitGood
    <2>2. Below(x, 0) = {} /\ Cardinality(Below(x, 0)) = 0
      BY <1>1, BelowEnds, FS_EmptySet
    <2>3. MovedSoFar(new[0], x, shift, 0)
      BY <2>1, <2>2 DEF MovedSoFar, OwnedOnce, InTable, Has
    <2> QED BY <2>3
  <1>4. ASSUME NEW n \in Nat, n \in T PROVE n + 1 \in T
    <2> SUFFICES ASSUME n + 1 <= xhash_size(x) PROVE MovedSoFar(new[n + 1], x, shift, n + 1)
      OBVIOUS
    <2>1. n \in 0..xhash_size(x)-1 /\ MovedSoFar(new[n], x, shift, n)
      BY <1>1, <1>4
    <2>2. MovedSoFar(Moved(new[n], x, n), x, shift, n + 1)
      BY <2>1, MovedKeeps
    <2> QED BY <1>2, <2>2
  <1>5. \A n \in Nat : n \in T
    <2> HIDE DEF T
    <2> QED BY <1>3, <1>4, SetInduction
  <1>6. MovedSoFar(new[xhash_size(x)], x, shift, xhash_size(x))
    BY <1>1, <1>5
  <1>7. Below(x, xhash_size(x)) = Valids(x)
    BY <1>1, BelowEnds
  <1> QED BY <1>1, <1>2, <1>6, <1>7 DEF MovedSoFar, InTable, Has

-----------------------------------------------------------------------------
(* What the operations do to a table that is in order.                     *)
InOrder(x) == Good(x) /\ Room(x) /\ OwnedOnce(x)

SameItems(x, y) ==
    /\ \A k : InTable(y, k) <=> InTable(x, k)
    /\ \A k \in Owned : \A v : Has(y, k, v) <=> Has(x, k, v)

Put(x, y, key, val) ==
    \A k \in Owned : \A v : Has(y, k, v) <=> IF k = key THEN v = val ELSE Has(x, k, v)

Taken(x, y, key) ==
    \A k \in Owned : \A v : Has(y, k, v) <=> k # key /\ Has(x, k, v)

LEMMA LookupIsIn ==
    ASSUME NEW x, InOrder(x), NEW k \in Keys
    PROVE  /\ xhash_lookup(x, k) = None <=> ~InTable(x, k)
           /\ xhash_lookup(x, k) # None => xhash_lookup(x, k) \in Nat
           /\ k \in Owned => \A v \in Nat : Has(x, k, v) <=> xhash_lookup(x, k) = v
  <1> DEFINE i == xhash_lookup__(x, k)
  <1>1. Good(x) /\ Room(x) /\ OwnedOnce(x) /\ IsTable(x) /\ None \notin Nat
    BY HashAssumption DEF InOrder, Good
  <1>2. \/ i \in Valids(x) /\ x.items[i].key = k /\ i # None
        \/ i = None /\ \A j \in Valids(x) : x.items[j].key # k
    BY <1>1, LookupFinds DEF holds
  <1>3. xhash_lookup(x, k) = IF i = None THEN None ELSE x.items[i].val
    BY DEF xhash_lookup
  <1> HIDE DEF i
  <1>4. CASE i \in Valids(x) /\ x.items[i].key = k /\ i # None
    <2>1. xhash_lookup(x, k) = x.items[i].val /\ x.items[i].val \in Nat
      BY <1>1, <1>3, <1>4, TableFacts
    <2>2. InTable(x, k)
      BY <1>4 DEF InTable
    <2>3. ASSUME k \in Owned, NEW v \in Nat PROVE Has(x, k, v) <=> x.items[i].val = v
      BY <1>1, <1>4, <2>3 DEF Has, OwnedOnce
    <2> QED BY <1>1, <2>1, <2>2, <2>3
  <1>5. CASE i = None /\ \A j \in Valids(x) : x.items[j].key # k
    BY <1>1, <1>3, <1>5 DEF InTable, Has
  <1> QED BY <1>2, <1>4, <1>5

LEMMA StoredInOrder ==
    ASSUME NEW x, InOrder(x), ~grow_check(x), NEW y, NEW i, NEW key \in Keys, NEW val \in Nat,
           Stored(x, y, i, key, val),
           key \in Owned => item_valid(x, i) \/ ~InTable(x, key)
    PROVE  /\ InOrder(y) /\ Put(x, y, key, val)
           /\ y.shift = x.shift /\ x.used <= y.used
  <1>1. Good(x) /\ Room(x) /\ OwnedOnce(x) /\ IsTable(x)
    BY DEF InOrder, Good
  <1>2. /\ Good(y) /\ y.shift = x.shift
        /\ y.used = (IF item_valid(x, i) THEN x.used ELSE x.used + 1)
        /\ y.used + y.dummies <= x.used + x.dummies + 1
    BY <1>1, StoredGood
  <1>3. OwnedOnce(y) /\ Put(x, y, key, val)
    BY <1>1, StoredHas DEF Put
  <1>4. PICK size \in Nat, u \in Nat : size = xhash_size(x) /\ u = x.used + x.dummies
    BY <1>1, TableFacts
  <1>5. size >= 4 /\ x.used \in Nat
    BY <1>1, <1>4, TableFacts
  <1>6. u \div 2 + u < size
    BY <1>4 DEF grow_check
  <1>7. u + 1 < size
    BY <1>5, <1>6
  <1>8. xhash_size(y) = size /\ y.used \in Nat /\ y.dummies \in Nat
    BY <1>2, <1>4, TableFacts DEF xhash_size, Good
  <1>9. Room(y)
    BY <1>2, <1>4, <1>7, <1>8 DEF Room
  <1> QED BY <1>2, <1>3, <1>5, <1>9 DEF InOrder

(* Set, and add to a counter: a table that is not too full, or an error.   *)
Accepts(x, out, key, val) ==
    /\ InOrder(out.x) /\ out.x.shift = x.shift
    /\ \/ out.r = 0 /\ Put(x, out.x, key, val) /\ x.used <= out.x.used
       \/ out.r = -XHASH_ENOSPC /\ out.x = x
       \/ out.r = -XHASH_ERESIZE /\ out.x = x /\ grow_check(x)

LEMMA InsertAccepts ==
    ASSUME NEW x, InOrder(x), NEW key \in Keys, NEW val \in Nat, key \in Owned => ~InTable(x, key)
    PROVE  Accepts(x, xhash_insert(x, key, val), key, val)
  <1> DEFINE out == xhash_insert(x, key, val)
  <1>1. CASE Limit # 0 /\ x.used >= Limit
    <2>1. out = [x |-> x, r |-> -XHASH_ENOSPC]
      BY <1>1 DEF xhash_insert
    <2>2. out.x = x /\ out.r = -XHASH_ENOSPC
      BY <2>1
    <2> HIDE DEF out
    <2> QED BY <2>2 DEF Accepts, out
  <1>2. CASE ~(Limit # 0 /\ x.used >= Limit) /\ grow_check(x)
    <2>1. out = [x |-> x, r |-> -XHASH_ERESIZE]
      BY <1>2 DEF xhash_insert
    <2>2. out.x = x /\ out.r = -XHASH_ERESIZE
      BY <2>1
    <2> HIDE DEF out
    <2> QED BY <1>2, <2>2 DEF Accepts, out
  <1>3. CASE ~(Limit # 0 /\ x.used >= Limit) /\ ~grow_check(x)
    <2>1. out = [x |-> xhash_insert__(x, key, val), r |-> 0]
      BY <1>3 DEF xhash_insert
    <2>2. out.x = xhash_insert__(x, key, val) /\ out.r = 0
      BY <2>1
    <2> HIDE DEF out
    <2>3. Stored(x, out.x, UpdateSlot(x, key), key, val)
      BY <2>2, InsertStores DEF InOrder
    <2>4. /\ InOrder(out.x) /\ Put(x, out.x, key, val)
          /\ out.x.shift = x.shift /\ x.used <= out.x.used
      BY <1>3, <2>3, StoredInOrder
    <2> QED BY <2>2, <2>4 DEF Accepts, out
  <1> QED BY <1>1, <1>2, <1>3

LEMMA FreqlAccepts ==
    ASSUME NEW x, InOrder(x), NEW key \in Keys, NEW val \in Nat, key \in Owned => ~InTable(x, key)
    PROVE  Accepts(x, xhash_freql_update(x, key, val), key, val)
  <1> DEFINE out == xhash_freql_update(x, key, val)
  <1>1. CASE grow_check(x)
    <2>1. out = [x |-> x, r |-> -XHASH_ERESIZE]
      BY <1>1 DEF xhash_freql_update
    <2>2. out.x = x /\ out.r = -XHASH_ERESIZE
      BY <2>1
    <2> HIDE DEF out
    <2> QED BY <1>1, <2>2 DEF Accepts, out
  <1>2. CASE ~grow_check(x)
    <2>1. out = [x |-> xhash_freql_update__(x, key, val), r |-> 0]
      BY <1>2 DEF xhash_freql_update
    <2>2. out.x = xhash_freql_update__(x, key, val) /\ out.r = 0
      BY <2>1
    <2> HIDE DEF out
    <2>3. PICK v \in Nat : /\ Stored(x, out.x, UpdateSlot(x, key), key, v)
                           /\ (\A j \in Valids(x) : x.items[j].key # key) => v = val
      BY <2>2, FreqlStores DEF InOrder
    <2>4. key \in Owned => v = val
      BY <2>3 DEF InTable
    <2>5. /\ InOrder(out.x) /\ Put(x, out.x, key, v)
          /\ out.x.shift = x.shift /\ x.used <= out.x.used
      BY <1>2, <2>3, StoredInOrder
    <2>6. Put(x, out.x, key, val)
      BY <2>4, <2>5 DEF Put
    <2> QED BY <2>2, <2>5, <2>6 DEF Accepts, out
  <1> QED BY <1>1, <1>2

(* Delete: a table that is not too empty, or an error.                     *)
Removes(x, out, key) ==
    /\ InOrder(out.x) /\ out.x.shift = x.shift
    /\ \/ out.r = 0 /\ Taken(x, out.x, key) /\ ~shrink_check(x) /\ x.used = out.x.used + 1
       \/ out.r = -XHASH_ERESIZE /\ out.x = x /\ shrink_check(x)

LEMMA DeleteRemoves ==
    ASSUME NEW x, InOrder(x), NEW key \in Keys, InTable(x, key)
    PROVE  Removes(x, xhash_delete(x, key), key)
  <1> DEFINE out == xhash_delete(x, key)
  <1>1. CASE shrink_check(x)
    <2>1. out = [x |-> x, r |-> -XHASH_ERESIZE]
      BY <1>1 DEF xhash_delete
    <2>2. out.x = x /\ out.r = -XHASH_ERESIZE
      BY <2>1
    <2> HIDE DEF out
    <2> QED BY <1>1, <2>2 DEF Removes, out
  <1>2. CASE ~shrink_check(x)
    <2>1. out = [x |-> xhash_delete__(x, key), r |-> 0]
      BY <1>2 DEF xhash_delete
    <2>2. out.x = xhash_delete__(x, key) /\ out.r = 0
      BY <2>1
    <2> HIDE DEF out
    <2>3. Good(x) /\ Room(x) /\ OwnedOnce(x) /\ IsTable(x)
      BY DEF InOrder, Good
    <2>4. PICK i \in Valids(x) : x.items[i].key = key /\ Deleted(x, out.x, i)
      BY <2>2, <2>3, DeleteDeletes DEF InTable
    <2>5. /\ Good(out.x) /\ out.x.shift = x.shift
          /\ out.x.used = x.used - 1
          /\ out.x.used + out.x.dummies = x.used + x.dummies
      BY <2>3, <2>4, DeletedGood
    <2>6. OwnedOnce(out.x) /\ Taken(x, out.x, key)
      BY <2>3, <2>4, DeletedHas DEF Taken
    <2>7. Room(out.x) /\ x.used = out.x.used + 1
      BY <2>3, <2>5, TableFacts DEF Room, xhash_size, InOrder
    <2> QED BY <1>2, <2>2, <2>5, <2>6, <2>7 DEF Removes, InOrder, out
  <1> QED BY <1>1, <1>2

-----------------------------------------------------------------------------
(* Growing, or dropping the dummies, makes room; so does shrinking.        *)
LEMMA GrowingHelps ==
    ASSUME NEW x, InOrder(x), xhash_grow_size_shift(x) <= MaxShift,
           NEW y, y = xhash_resize(x, xhash_grow_size_shift(x))
    PROVE  /\ InOrder(y) /\ SameItems(x, y) /\ ~grow_check(y)
           /\ Owned = Keys /\ Dense(x) => Dense(y)
  <1>1. Good(x) /\ Room(x) /\ OwnedOnce(x) /\ IsTable(x)
    BY DEF InOrder, Good
  <1>2. PICK size \in Nat, used \in Nat : size = xhash_size(x) /\ used = x.used
    BY <1>1, TableFacts
  <1>3. size >= 4 /\ x.shift \in MinShift..MaxShift /\ x.shift \in Nat /\ used < size
    BY <1>1, <1>2, TableFacts DEF Room
  <1> DEFINE shift == xhash_grow_size_shift(x)
  <1>4. \/ used \div 2 + used >= size /\ shift = x.shift + 1 /\ OneShl[shift] = 2 * size
        \/ used \div 2 + used < size /\ shift = x.shift /\ OneShl[shift] = size
    BY <1>2, <1>3, OneShlDef DEF xhash_grow_size_shift, xhash_size
  <1>5. shift \in MinShift..MaxShift /\ x.used < OneShl[shift]
    <2> HIDE DEF shift
    <2>1. shift <= MaxShift
      BY DEF shift
    <2> QED BY <1>2, <1>3, <1>4, <2>1, HashAssumption
  <1> HIDE DEF shift
  <1>6. /\ Good(y) /\ OwnedOnce(y) /\ y.shift = shift /\ y.dummies = 0 /\ y.used <= x.used
        /\ Owned = Keys => y.used = x.used
        /\ SameItems(x, y)
    BY <1>1, <1>5, ResizeMoves DEF shift, SameItems
  <1>7. xhash_size(y) = OneShl[shift] /\ y.used \in Nat
    BY <1>6, TableFacts DEF xhash_size, Good
  <1>8. Room(y)
    BY <1>2, <1>5, <1>6, <1>7, <1>4 DEF Room
  <1>9. ~grow_check(y)
    <2>1. PICK u \in Nat : u = y.used + y.dummies /\ u <= used
      BY <1>2, <1>6, <1>7
    <2>2. u \div 2 + u < OneShl[shift]
      BY <1>3, <1>4, <2>1
    <2>3. grow_check(y) <=> u \div 2 + u >= OneShl[shift]
      BY <1>7, <2>1, Zenon DEF grow_check
    <2>4. OneShl[shift] \in Nat
      BY <1>3, <1>4
    <2> QED BY <2>2, <2>3, <2>4
  <1>10. ASSUME Owned = Keys, Dense(x) PROVE Dense(y)
    <2>1. y.used = used
      BY <1>2, <1>6, <1>10
    <2>2. CASE used \div 2 + used >= size /\ shift = x.shift + 1 /\ OneShl[shift] = 2 * size
      <3>1. 4 * (used + 1) >= 2 * size
        BY <2>2
      <3> QED BY <1>7, <2>1, <2>2, <3>1 DEF Dense
    <2>3. CASE shift = x.shift /\ OneShl[shift] = size
      BY <1>2, <1>6, <1>7, <1>10, <2>1, <2>3 DEF Dense
    <2> QED BY <1>4, <2>2, <2>3
  <1> QED BY <1>6, <1>8, <1>9, <1>10 DEF InOrder

LEMMA ShrinkingHelps ==
    ASSUME NEW x, InOrder(x), shrink_check(x), xhash_shrink_size_shift(x) <= MaxShift,
           NEW y, y = xhash_resize(x, xhash_shrink_size_shift(x))
    PROVE  /\ InOrder(y) /\ SameItems(x, y)
           /\ Owned = Keys /\ Dense(x) => Dense(y) /\ ~shrink_check(y)
  <1>1. Good(x) /\ Room(x) /\ OwnedOnce(x) /\ IsTable(x)
    BY DEF InOrder, Good
  <1>2. PICK size \in Nat, used \in Nat : size = xhash_size(x) /\ used = x.used
    BY <1>1, TableFacts
  <1>3. /\ x.shift \in MinShift..MaxShift /\ x.shift \in Nat /\ x.shift > MinShift
        /\ 4 * used < size
    BY <1>1, <1>2, TableFacts DEF shrink_check
  <1> DEFINE shift == xhash_shrink_size_shift(x)
  <1>4. shift = x.shift - 1 /\ shift \in MinShift..MaxShift /\ shift \in Nat /\ shift + 1 = x.shift
    BY <1>3, HashAssumption DEF xhash_shrink_size_shift
  <1> HIDE DEF shift
  <1>5. PICK half \in Nat : half = OneShl[shift] /\ size = 2 * half /\ half >= 4
    BY <1>2, <1>4, OneShlDef, SizeAtLeast DEF xhash_size
  <1>6. x.used < OneShl[shift]
    BY <1>2, <1>3, <1>5
  <1>7. /\ Good(y) /\ OwnedOnce(y) /\ y.shift = shift /\ y.dummies = 0 /\ y.used <= x.used
        /\ Owned = Keys => y.used = x.used
        /\ SameItems(x, y)
    BY <1>1, <1>4, <1>6, ResizeMoves DEF shift, SameItems
  <1>8. xhash_size(y) = half /\ y.used \in Nat
    BY <1>5, <1>7, TableFacts DEF xhash_size, Good
  <1>9. Room(y)
    BY <1>2, <1>3, <1>5, <1>7, <1>8 DEF Room
  <1>10. ASSUME Owned = Keys, Dense(x) PROVE Dense(y) /\ ~shrink_check(y)
    <2>1. y.used = used
      BY <1>2, <1>7, <1>10
    <2>2. 4 * (used + 1) >= size
      BY <1>2, <1>3, <1>10 DEF Dense
    <2> QED BY <1>5, <1>8, <2>1, <2>2 DEF Dense, shrink_check
  <1> QED BY <1>7, <1>9, <1>10 DEF InOrder

-----------------------------------------------------------------------------
(* What a call on the table, with its resize and retry, comes to.          *)
Done(x, y, r, nomem, op, key, val) ==
    /\ InOrder(y)
    /\ \/ r < 0 /\ SameItems(x, y)
       \/ r = 0 /\ op # "get" /\ Put(x, y, key, val)
       \/ r = 0 /\ op = "get" /\ Taken(x, y, key)
    /\ r = -XHASH_ERESIZE /\ op # "get" => nomem
    /\ Owned = Keys /\ Dense(x) => Dense(y) /\ (r = -XHASH_ERESIZE => nomem)

LEMMA SameItemsSame ==
    ASSUME NEW x
    PROVE  SameItems(x, x)
  BY DEF SameItems

LEMMA AcceptedDone ==
    ASSUME NEW x, InOrder(x), NEW y, InOrder(y), SameItems(x, y), NEW op, op # "get",
           NEW key, NEW val, NEW out, Accepts(y, out, key, val), ~grow_check(y),
           Owned = Keys /\ Dense(x) => Dense(y)
    PROVE  Done(x, out.x, out.r, FALSE, op, key, val)
  <1>1. InOrder(out.x) /\ out.x.shift = y.shift /\ out.r # -XHASH_ERESIZE
    BY DEF Accepts, XHASH_ENOSPC, XHASH_ERESIZE
  <1>2. CASE out.r = 0 /\ Put(y, out.x, key, val) /\ y.used <= out.x.used
    <2>1. Put(x, out.x, key, val)
      BY <1>2 DEF Put, SameItems
    <2>2. Dense(y) => Dense(out.x)
      <3>1. y.used \in Nat /\ out.x.used \in Nat /\ xhash_size(y) \in Nat
        BY <1>1, TableFacts DEF InOrder, Good
      <3> QED BY <1>1, <1>2, <3>1 DEF Dense, xhash_size
    <2> QED BY <1>1, <1>2, <2>1, <2>2 DEF Done
  <1>3. CASE out.r = -XHASH_ENOSPC /\ out.x = y
    BY <1>1, <1>3 DEF Done, XHASH_ENOSPC
  <1> QED BY <1>1, <1>2, <1>3 DEF Accepts

LEMMA AcceptOutcome ==
    ASSUME NEW x, InOrder(x), x = xhash, NEW shift, shift = xhash_grow_size_shift(x),
           NEW op, op # "get", NEW key, NEW val, NEW first, NEW again,
           Accepts(x, first, key, val),
           InOrder(xhash_resize(x, shift)) /\ SameItems(x, xhash_resize(x, shift))
             => Accepts(xhash_resize(x, shift), again, key, val),
           NEW o \in Outcomes(first, again, shift)
    PROVE  Done(x, o.x, o.r, o.nomem, op, key, val)
  <1>1. CASE first.r # -XHASH_ERESIZE
    <2>1. o = [x |-> first.x, r |-> first.r, nomem |-> FALSE]
      BY <1>1 DEF Outcomes
    <2>2. o.x = first.x /\ o.r = first.r /\ o.nomem = FALSE
      BY <2>1
    <2>3. InOrder(first.x) /\ first.x.shift = x.shift
      BY DEF Accepts
    <2>4. CASE first.r = 0 /\ Put(x, first.x, key, val) /\ x.used <= first.x.used
      <3>1. Dense(x) => Dense(first.x)
        <4>1. x.used \in Nat /\ first.x.used \in Nat /\ xhash_size(x) \in Nat
          BY <2>3, TableFacts DEF InOrder, Good
        <4> QED BY <2>3, <2>4, <4>1 DEF Dense, xhash_size
      <3> QED BY <1>1, <2>2, <2>3, <2>4, <3>1 DEF Done
    <2>5. CASE first.r = -XHASH_ENOSPC /\ first.x = x
      <3>1. first.r < 0
        BY <2>5 DEF XHASH_ENOSPC
      <3> QED BY <1>1, <2>2, <2>3, <2>5, <3>1, SameItemsSame DEF Done
    <2> QED BY <1>1, <2>4, <2>5 DEF Accepts
  <1>2. CASE first.r = -XHASH_ERESIZE /\ o = [x |-> xhash, r |-> first.r, nomem |-> TRUE]
    <2>1. o.x = x /\ o.r = first.r /\ o.nomem = TRUE
      BY <1>2
    <2>2. o.r < 0
      BY <1>2, <2>1 DEF XHASH_ERESIZE
    <2> QED BY <2>1, <2>2, SameItemsSame DEF Done
  <1>3. CASE first.r = -XHASH_ERESIZE /\ shift <= MaxShift
             /\ o = [x |-> again.x, r |-> again.r, nomem |-> FALSE]
    <2>1. o.x = again.x /\ o.r = again.r /\ o.nomem = FALSE
      BY <1>3
    <2>2. PICK y : y = xhash_resize(x, shift)
      OBVIOUS
    <2>3. InOrder(y) /\ SameItems(x, y) /\ ~grow_check(y) /\ (Owned = Keys /\ Dense(x) => Dense(y))
      BY <1>3, <2>2, GrowingHelps
    <2>4. Accepts(y, again, key, val)
      BY <2>2, <2>3
    <2>5. Done(x, again.x, again.r, FALSE, op, key, val)
      BY <2>3, <2>4, AcceptedDone
    <2> QED BY <2>1, <2>5
  <1> QED BY <1>1, <1>2, <1>3 DEF Outcomes

LEMMA RemovedDone ==
    ASSUME NEW x, InOrder(x), NEW y, InOrder(y), SameItems(x, y), NEW key, NEW val, NEW out,
           Removes(y, out, key), Owned = Keys /\ Dense(x) => Dense(y) /\ ~shrink_check(y)
    PROVE  Done(x, out.x, out.r, FALSE, "get", key, val)
  <1>1. InOrder(out.x) /\ out.x.shift = y.shift
    BY DEF Removes
  <1>2. CASE out.r = 0 /\ Taken(y, out.x, key) /\ ~shrink_check(y) /\ y.used = out.x.used + 1
    <2>1. Taken(x, out.x, key)
      BY <1>2 DEF Taken, SameItems
    <2>2. Dense(out.x)
      <3>1. y.used \in Nat /\ out.x.used \in Nat /\ xhash_size(y) \in Nat
        BY <1>1, TableFacts DEF InOrder, Good
      <3> QED BY <1>1, <1>2, <3>1 DEF Dense, xhash_size, shrink_check
    <2>3. out.r # -XHASH_ERESIZE
      BY <1>2 DEF XHASH_ERESIZE
    <2> QED BY <1>1, <1>2, <2>1, <2>2, <2>3 DEF Done
  <1>3. CASE out.r = -XHASH_ERESIZE /\ out.x = y /\ shrink_check(y)
    <2>1. out.r < 0
      BY <1>3 DEF XHASH_ERESIZE
    <2> QED BY <1>1, <1>3, <2>1 DEF Done
  <1> QED BY <1>2, <1>3 DEF Removes

LEMMA RemoveOutcome ==
    ASSUME NEW x, InOrder(x), x = xhash, NEW shift, shift = xhash_shrink_size_shift(x),
           NEW key, NEW val, NEW first, NEW again,
           Removes(x, first, key),
           InOrder(xhash_resize(x, shift)) /\ SameItems(x, xhash_resize(x, shift))
             => Removes(xhash_resize(x, shift), again, key),
           NEW o \in Outcomes(first, again, shift)
    PROVE  Done(x, o.x, o.r, o.nomem, "get", key, val)
  <1>1. CASE first.r # -XHASH_ERESIZE
    <2>1. o = [x |-> first.x, r |-> first.r, nomem |-> FALSE]
      BY <1>1 DEF Outcomes
    <2>2. o.x = first.x /\ o.r = first.r /\ o.nomem = FALSE
      BY <2>1
    <2>3. ~shrink_check(x)
      BY <1>1 DEF Removes
    <2>4. Done(x, first.x, first.r, FALSE, "get", key, val)
      BY <2>3, SameItemsSame, RemovedDone
    <2> QED BY <2>2, <2>4
  <1>2. CASE first.r = -XHASH_ERESIZE /\ o = [x |-> xhash, r |-> first.r, nomem |-> TRUE]
    <2>1. o.x = x /\ o.r = first.r /\ o.nomem = TRUE
      BY <1>2
    <2>2. o.r < 0
      BY <1>2, <2>1 DEF XHASH_ERESIZE
    <2> QED BY <2>1, <2>2, SameItemsSame DEF Done
  <1>3. CASE first.r = -XHASH_ERESIZE /\ shift <= MaxShift
             /\ o = [x |-> again.x, r |-> again.r, nomem |-> FALSE]
    <2>1. o.x = again.x /\ o.r = again.r /\ o.nomem = FALSE
      BY <1>3
    <2>2. shrink_check(x)
      BY <1>3 DEF Removes, XHASH_ERESIZE
    <2>3. PICK y : y = xhash_resize(x, shift)
      OBVIOUS
    <2>4. InOrder(y) /\ SameItems(x, y) /\ (Owned = Keys /\ Dense(x) => Dense(y) /\ ~shrink_check(y))
      BY <1>3, <2>2, <2>3, ShrinkingHelps
    <2>5. Removes(y, again, key)
      BY <2>3, <2>4
    <2>6. Done(x, again.x, again.r, FALSE, "get", key, val)
      BY <2>4, <2>5, RemovedDone
    <2> QED BY <2>1, <2>6
  <1> QED BY <1>1, <1>2, <1>3 DEF Outcomes

-----------------------------------------------------------------------------
(* The actions.                                                            *)
LEMMA GrownIs == Grown = xhash_resize(xhash, xhash_grow_size_shift(xhash))
  BY DEF Grown

LEMMA ShrunkIs == Shrunk = xhash_resize(xhash, xhash_shrink_size_shift(xhash))
  BY DEF Shrunk

LEMMA RetryIs ==
    ASSUME NEW op, NEW k, NEW v, NEW first, NEW again, NEW shift,
           ResizeAndRetry(op, k, v, first, again, shift)
    PROVE  /\ it' = NoIter
           /\ \E o \in Outcomes(first, again, shift) :
                 /\ xhash' = o.x /\ hret'.r = o.r /\ hret'.nomem = o.nomem
                 /\ hret'.op = op /\ hret'.key = k /\ hret'.val = v
  <1>1. it' = NoIter
    BY DEF ResizeAndRetry
  <1>2. PICK o \in Outcomes(first, again, shift) :
           /\ xhash' = o.x
           /\ hret' = [op |-> op, key |-> k, val |-> v, r |-> o.r, nomem |-> o.nomem]
    BY DEF ResizeAndRetry
  <1>3. /\ hret'.r = o.r /\ hret'.nomem = o.nomem
        /\ hret'.op = op /\ hret'.key = k /\ hret'.val = v
    BY <1>2
  <1> QED BY <1>1, <1>2, <1>3

Called(op, k, v) ==
    /\ Done(xhash, xhash', hret'.r, hret'.nomem, op, k, v)
    /\ hret'.op = op /\ hret'.key = k /\ hret'.val = v
    /\ it' = NoIter

LEMMA SetCalled ==
    ASSUME InOrder(xhash), NEW k \in Keys, NEW v \in Data, xseg_set_req_data(k, v)
    PROVE  Called("set", k, v)
  <1> DEFINE x == xhash
             first == xhash_insert(xhash, k, v)
             again == xhash_insert(Grown, k, v)
             shift == xhash_grow_size_shift(xhash)
  <1>1. v \in Nat
    BY HashAssumption
  <1>2. k \in Owned => ~InTable(x, k)
    BY LookupIsIn DEF xseg_set_req_data, Owned
  <1>3. Accepts(x, first, k, v)
    BY <1>1, <1>2, InsertAccepts
  <1>4. ASSUME NEW y, y = xhash_resize(x, shift), InOrder(y), SameItems(x, y)
        PROVE  Accepts(y, again, k, v)
    <2>1. k \in Owned => ~InTable(y, k)
      BY <1>2, <1>4 DEF SameItems
    <2>2. Accepts(y, xhash_insert(y, k, v), k, v)
      BY <1>1, <1>4, <2>1, InsertAccepts
    <2> QED BY <2>2, <1>4, GrownIs
  <1>5. ResizeAndRetry("set", k, v, first, again, shift)
    BY DEF xseg_set_req_data
  <1> HIDE DEF first, again, shift
  <1>6. PICK o \in Outcomes(first, again, shift) :
           /\ xhash' = o.x /\ hret'.r = o.r /\ hret'.nomem = o.nomem
           /\ hret'.op = "set" /\ hret'.key = k /\ hret'.val = v
    BY <1>5, RetryIs
  <1>7. Done(x, o.x, o.r, o.nomem, "set", k, v)
    <2>1. shift = xhash_grow_size_shift(x) /\ "set" # "get"
      BY DEF shift
    <2> HIDE DEF x
    <2>2. x = xhash /\ InOrder(x)
      BY DEF x
    <2> QED BY <1>3, <1>4, <2>1, <2>2, AcceptOutcome
  <1> QED BY <1>5, <1>6, <1>7, RetryIs DEF Called

LEMMA FreqlCalled ==
    ASSUME InOrder(xhash), NEW k \in Keys, NEW v \in Data, freql_update(k, v)
    PROVE  Called("freql", k, v)
  <1> DEFINE x == xhash
             first == xhash_freql_update(xhash, k, v)
             again == xhash_freql_update(Grown, k, v)
             shift == xhash_grow_size_shift(xhash)
  <1>1. v \in Nat
    BY HashAssumption
  <1>2. k \in Owned => ~InTable(x, k)
    BY LookupIsIn DEF freql_update, Owned
  <1>3. Accepts(x, first, k, v)
    BY <1>1, <1>2, FreqlAccepts
  <1>4. ASSUME NEW y, y = xhash_resize(x, shift), InOrder(y), SameItems(x, y)
        PROVE  Accepts(y, again, k, v)
    <2>1. k \in Owned => ~InTable(y, k)
      BY <1>2, <1>4 DEF SameItems
    <2>2. Accepts(y, xhash_freql_update(y, k, v), k, v)
      BY <1>1, <1>4, <2>1, FreqlAccepts
    <2> QED BY <2>2, <1>4, GrownIs
  <1>5. ResizeAndRetry("freql", k, v, first, again, shift)
    BY DEF freql_update
  <1> HIDE DEF first, again, shift
  <1>6. PICK o \in Outcomes(first, again, shift) :
           /\ xhash' = o.x /\ hret'.r = o.r /\ hret'.nomem = o.nomem
           /\ hret'.op = "freql" /\ hret'.key = k /\ hret'.val = v
    BY <1>5, RetryIs
  <1>7. Done(x, o.x, o.r, o.nomem, "freql", k, v)
    <2>1. shift = xhash_grow_size_shift(x) /\ "freql" # "get"
      BY DEF shift
    <2> HIDE DEF x
    <2>2. x = xhash /\ InOrder(x)
      BY DEF x
    <2> QED BY <1>3, <1>4, <2>1, <2>2, AcceptOutcome
  <1> QED BY <1>5, <1>6, <1>7, RetryIs DEF Called

(* The call that looks a key up and removes it.                            *)
GetFound(k) ==
    /\ xhash_lookup(xhash, k) # None
    /\ ResizeAndRetry("get", k, xhash_lookup(xhash, k), xhash_delete(xhash, k),
                      xhash_delete(Shrunk, k), xhash_shrink_size_shift(xhash))

LEMMA GetCalled ==
    ASSUME InOrder(xhash), NEW k \in Keys, GetFound(k)
    PROVE  Called("get", k, xhash_lookup(xhash, k))
  <1> DEFINE x == xhash
             first == xhash_delete(xhash, k)
             again == xhash_delete(Shrunk, k)
             shift == xhash_shrink_size_shift(xhash)
             v == xhash_lookup(xhash, k)
  <1>1. InTable(x, k)
    BY LookupIsIn DEF GetFound
  <1>2. Removes(x, first, k)
    BY <1>1, DeleteRemoves
  <1>3. ASSUME NEW y, y = xhash_resize(x, shift), InOrder(y), SameItems(x, y)
        PROVE  Removes(y, again, k)
    <2>1. InTable(y, k)
      BY <1>1, <1>3 DEF SameItems
    <2>2. Removes(y, xhash_delete(y, k), k)
      BY <1>3, <2>1, DeleteRemoves
    <2> QED BY <2>2, <1>3, ShrunkIs
  <1>4. ResizeAndRetry("get", k, v, first, again, shift)
    BY DEF GetFound
  <1> HIDE DEF first, again, shift, v
  <1>5. PICK o \in Outcomes(first, again, shift) :
           /\ xhash' = o.x /\ hret'.r = o.r /\ hret'.nomem = o.nomem
           /\ hret'.op = "get" /\ hret'.key = k /\ hret'.val = v
    BY <1>4, RetryIs
  <1>6. Done(x, o.x, o.r, o.nomem, "get", k, v)
    <2>1. shift = xhash_shrink_size_shift(x)
      BY DEF shift
    <2> HIDE DEF x
    <2>2. x = xhash /\ InOrder(x)
      BY DEF x
    <2> QED BY <1>2, <1>3, <2>1, <2>2, RemoveOutcome
  <1> QED BY <1>4, <1>5, <1>6, RetryIs DEF Called, v

(* Another value for a key that is there: every slot keeps its key.        *)
KeysKept(x, y) == \A i \in Valids(x) : y.items[i].key = x.items[i].key

SameKeys(x, y) ==
    /\ y.shift = x.shift /\ y.used = x.used
    /\ Valids(y) = Valids(x) /\ KeysKept(x, y)

LEMMA StoredKeys ==
    ASSUME NEW x, Good(x), NEW y, NEW i, NEW key \in Keys, NEW val \in Nat,
           Stored(x, y, i, key, val)
    PROVE  i \in Valids(x) => Valids(y) = Valids(x) /\ KeysKept(x, y)
  <1> SUFFICES ASSUME i \in Valids(x) PROVE Valids(y) = Valids(x) /\ KeysKept(x, y)
    OBVIOUS
  <1>1. /\ DOMAIN y.items = DOMAIN x.items
        /\ y.items[i] = [key |-> key, val |-> val]
        /\ \A j \in DOMAIN x.items : j # i => y.items[j] = x.items[j]
        /\ Valids(y) = Valids(x) \cup {i}
        /\ Dummies(y) = Dummies(x) \ {i}
        /\ y.items \in [0..xhash_size(x)-1 -> Entry]
    BY StoredSets
  <1>2. Valids(y) = Valids(x)
    BY <1>1
  <1>3. x.items[i].key = key
    BY DEF Stored, holds, Valids
  <1>4. y.items[i].key = key
    BY <1>1
  <1>5. \A j \in Valids(x) : y.items[j].key = x.items[j].key
    BY <1>1, <1>3, <1>4 DEF Valids
  <1> QED BY <1>2, <1>5 DEF KeysKept

LEMMA UpdateCalled ==
    ASSUME InOrder(xhash), NEW k \in Keys, NEW v \in Data, update(k, v)
    PROVE  /\ InOrder(xhash') /\ Put(xhash, xhash', k, v) /\ SameKeys(xhash, xhash')
           /\ InTable(xhash, k)
           /\ hret' = [op |-> "update", key |-> k, val |-> v, r |-> 0, nomem |-> FALSE]
           /\ it' = it
  <1> DEFINE x == xhash
             y == xhash'
  <1>1. v \in Nat /\ Good(x) /\ Room(x) /\ OwnedOnce(x) /\ IsTable(x)
    BY HashAssumption DEF InOrder, Good
  <1>2. InTable(x, k)
    BY LookupIsIn DEF update
  <1>3. y = xhash_update(x, k, v)
    BY DEF update
  <1> HIDE DEF x, y
  <1>4. PICK i \in Valids(x) : x.items[i].key = k /\ Stored(x, y, i, k, v)
    BY <1>1, <1>2, <1>3, UpdateStores DEF InTable
  <1>5. item_valid(x, i)
    BY <1>4 DEF Valids
  <1>6. /\ Good(y) /\ y.shift = x.shift
        /\ y.used = x.used
        /\ y.dummies = x.dummies
    BY <1>1, <1>4, <1>5, StoredGood
  <1>7. OwnedOnce(y) /\ Put(x, y, k, v)
    BY <1>1, <1>4, <1>5, StoredHas DEF Put
  <1>8. Room(y)
    BY <1>1, <1>6 DEF Room, xhash_size
  <1>9. SameKeys(x, y)
    BY <1>1, <1>4, <1>6, StoredKeys DEF SameKeys
  <1> QED BY <1>2, <1>6, <1>7, <1>8, <1>9 DEF InOrder, x, y, update

-----------------------------------------------------------------------------
(* The iteration.                                                          *)
Iterations == [loc : Nat, cnt : Nat, seen : SUBSET Keys, on : BOOLEAN, done : BOOLEAN]

(* It has met the items below its place, and ends when there are no more.  *)
Met(x, j) ==
    /\ j \in Iterations /\ j.loc <= xhash_size(x)
    /\ j.cnt = Cardinality(Below(x, j.loc))
    /\ j.seen = {x.items[i].key : i \in Below(x, j.loc)}
    /\ j.done => j.cnt = x.used \/ Below(x, j.loc) = Valids(x)

LEMMA NoneMet ==
    ASSUME NEW x, IsTable(x), NEW on \in BOOLEAN
    PROVE  Met(x, [loc |-> 0, cnt |-> 0, seen |-> {}, on |-> on, done |-> FALSE])
  <1> DEFINE j == [loc |-> 0, cnt |-> 0, seen |-> {}, on |-> on, done |-> FALSE]
  <1>1. j \in Iterations
    BY DEF Iterations
  <1>2. j.loc = 0 /\ j.cnt = 0 /\ j.seen = {} /\ j.done = FALSE
    OBVIOUS
  <1> HIDE DEF j
  <1>3. Below(x, 0) = {} /\ xhash_size(x) \in Nat
    BY BelowEnds, TableFacts
  <1> QED BY <1>1, <1>2, <1>3, FS_EmptySet DEF Met, j

LEMMA SameKeysMet ==
    ASSUME NEW x, NEW y, SameKeys(x, y), NEW j, Met(x, j)
    PROVE  Met(y, j)
  <1>1. \A n : Below(y, n) = Below(x, n)
    BY DEF Below, SameKeys
  <1>2. {y.items[i].key : i \in Below(x, j.loc)} = {x.items[i].key : i \in Below(x, j.loc)}
    BY DEF SameKeys, KeysKept, Below
  <1>3. y.used = x.used /\ xhash_size(y) = xhash_size(x) /\ Valids(y) = Valids(x)
    BY DEF SameKeys, xhash_size
  <1> QED BY <1>1, <1>2, <1>3 DEF Met

LEMMA NextMet ==
    ASSUME NEW x, Good(x), NEW j, Met(x, j), NEW n \in Valids(x), j.loc <= n,
           \A i \in Valids(x) : i < n => i < j.loc
    PROVE  Met(x, [j EXCEPT !.loc = n + 1, !.cnt = @ + 1, !.seen = @ \cup {x.items[n].key}])
           \/ j.done
  <1> SUFFICES ASSUME ~j.done
               PROVE  Met(x, [j EXCEPT !.loc = n + 1, !.cnt = @ + 1,
                                       !.seen = @ \cup {x.items[n].key}])
    OBVIOUS
  <1>1. IsTable(x) /\ DOMAIN x.items = 0..xhash_size(x)-1 /\ xhash_size(x) \in Nat
    BY TableFacts DEF Good
  <1>2. n \in 0..xhash_size(x)-1 /\ item_valid(x, n) /\ x.items[n].key \in Keys
    BY <1>1, TableFacts DEF Valids
  <1>3. \A i \in Valids(x) : i \in Nat
    BY <1>1 DEF Valids
  <1>4. j.loc \in Nat
    BY DEF Met, Iterations
  <1>5. Below(x, n) = Below(x, j.loc)
    <2>1. \A i \in Valids(x) : i < n <=> i < j.loc
      BY <1>2, <1>3, <1>4
    <2> QED BY <2>1 DEF Below
  <1>6. /\ Below(x, n + 1) = Below(x, j.loc) \cup {n}
        /\ Cardinality(Below(x, n + 1)) = Cardinality(Below(x, j.loc)) + 1
    BY <1>1, <1>2, <1>5, BelowNext
  <1>7. PICK l \in Nat, c \in Nat, s \in SUBSET Keys, o \in BOOLEAN :
           j = [loc |-> l, cnt |-> c, seen |-> s, on |-> o, done |-> FALSE]
    BY DEF Met, Iterations
  <1>8. PICK key \in Keys : key = x.items[n].key
    BY <1>2
  <1>9. PICK nj : nj = [loc |-> n + 1, cnt |-> c + 1, seen |-> s \cup {key},
                        on |-> o, done |-> FALSE]
    OBVIOUS
  <1>10. [j EXCEPT !.loc = n + 1, !.cnt = @ + 1, !.seen = @ \cup {key}] = nj
    <2>1. PICK e : e = [j EXCEPT !.loc = n + 1]
      OBVIOUS
    <2>2. e = [loc |-> n + 1, cnt |-> c, seen |-> s, on |-> o, done |-> FALSE]
      BY <1>7, <2>1
    <2>3. PICK f : f = [e EXCEPT !.cnt = @ + 1]
      OBVIOUS
    <2>4. f = [loc |-> n + 1, cnt |-> c + 1, seen |-> s, on |-> o, done |-> FALSE]
      BY <2>2, <2>3
    <2>5. [f EXCEPT !.seen = @ \cup {key}] = nj
      <3>1. PICK t : t = s \cup {key}
        OBVIOUS
      <3>2. f.seen \cup {key} = t
        BY <2>4, <3>1
      <3>3. [f EXCEPT !.seen = t] = [loc |-> n + 1, cnt |-> c + 1, seen |-> t, on |-> o, done |-> FALSE]
        <4>1. PICK fin \in BOOLEAN : fin = FALSE
          OBVIOUS
        <4>2. f = [loc |-> n + 1, cnt |-> c + 1, seen |-> s, on |-> o, done |-> fin]
          BY <2>4, <4>1
        <4>3. [f EXCEPT !.seen = t] = [loc |-> n + 1, cnt |-> c + 1, seen |-> t, on |-> o, done |-> fin]
          BY <4>2
        <4> QED BY <4>1, <4>3
      <3>4. [f EXCEPT !.seen = @ \cup {key}] = [f EXCEPT !.seen = t]
        BY <3>2
      <3> QED BY <1>9, <3>1, <3>3, <3>4
    <2> QED BY <2>1, <2>3, <2>5
  <1>11. nj \in Iterations /\ nj.loc = n + 1 /\ nj.cnt = c + 1 /\ nj.seen = s \cup {key} /\ nj.done = FALSE
    BY <1>2, <1>9 DEF Iterations
  <1>12. j.cnt = c /\ j.seen = s
    BY <1>7
  <1>13. nj.seen = {x.items[i].key : i \in Below(x, n + 1)}
    BY <1>6, <1>8, <1>11, <1>12 DEF Met
  <1>14. Met(x, nj)
    <2>1. nj.loc <= xhash_size(x)
      BY <1>1, <1>2, <1>11
    <2>2. nj.cnt = Cardinality(Below(x, nj.loc))
      BY <1>6, <1>11, <1>12 DEF Met
    <2> QED BY <1>11, <1>13, <2>1, <2>2 DEF Met
  <1> QED BY <1>8, <1>10, <1>14

LEMMA EndMet ==
    ASSUME NEW x, NEW j, Met(x, j), j.cnt = x.used \/ Below(x, j.loc) = Valids(x)
    PROVE  Met(x, [j EXCEPT !.done = TRUE])
  <1>1. PICK l \in Nat, c \in Nat, s \in SUBSET Keys, o \in BOOLEAN, d \in BOOLEAN :
           j = [loc |-> l, cnt |-> c, seen |-> s, on |-> o, done |-> d]
    BY DEF Met, Iterations
  <1>2. PICK nj : nj = [j EXCEPT !.done = TRUE]
    OBVIOUS
  <1>3. nj = [loc |-> l, cnt |-> c, seen |-> s, on |-> o, done |-> TRUE]
    BY <1>1, <1>2
  <1>4. nj \in Iterations /\ nj.loc = j.loc /\ nj.cnt = j.cnt /\ nj.seen = j.seen
    BY <1>1, <1>3 DEF Iterations
  <1> QED BY <1>2, <1>4 DEF Met

LEMMA IterateMet ==
    ASSUME Good(xhash), Met(xhash, it), xhash_iterate
    PROVE  Met(xhash, it') /\ xhash' = xhash /\ hret' = hret
  <1> DEFINE x == xhash
             left == {i \in it.loc..xhash_size(xhash)-1 : item_valid(xhash, i)}
  <1>1. ~it.done /\ xhash' = xhash /\ hret' = hret
    BY DEF xhash_iterate
  <1>2. IsTable(x) /\ DOMAIN x.items = 0..xhash_size(x)-1 /\ xhash_size(x) \in Nat /\ it.loc \in Nat
    BY TableFacts DEF Good, Met, Iterations
  <1>3. left = {i \in Valids(x) : it.loc <= i}
    BY <1>2 DEF Valids
  <1>4. left \in SUBSET Nat
    BY <1>2
  <1>5. it' = (IF xhash.used = it.cnt \/ left = {}
               THEN [it EXCEPT !.done = TRUE]
               ELSE [it EXCEPT !.loc = Min(left) + 1, !.cnt = @ + 1,
                               !.seen = @ \cup {xhash.items[Min(left)].key}])
    BY DEF xhash_iterate
  <1> HIDE DEF left
  <1>6. CASE xhash.used = it.cnt \/ left = {}
    <2>1. left = {} => Below(x, it.loc) = Valids(x)
      <3>1. \A i \in Valids(x) : i \in Nat
        BY <1>2 DEF Valids
      <3> QED BY <1>2, <1>3, <3>1 DEF Below
    <2> QED BY <1>1, <1>5, <1>6, <2>1, EndMet
  <1>7. CASE ~(xhash.used = it.cnt \/ left = {})
    <2> DEFINE n == Min(left)
    <2>1. n \in left /\ \A i \in left : n <= i
      <3>1. PICK l \in left : \A m \in 0..l-1 : m \notin left
        BY <1>4, <1>7, LeastOf
      <3>2. \A i \in left : l <= i
        BY <1>4, <3>1
      <3> QED BY <3>2, Zenon DEF Min
    <2>2. it' = [it EXCEPT !.loc = n + 1, !.cnt = @ + 1, !.seen = @ \cup {x.items[n].key}]
      BY <1>5, <1>7
    <2> HIDE DEF n
    <2>3. n \in Valids(x) /\ it.loc <= n
      BY <1>3, <2>1
    <2>4. \A i \in Valids(x) : i < n => i < it.loc
      <3>1. \A i \in Valids(x) : i \in Nat
        BY <1>2 DEF Valids
      <3> QED BY <1>2, <1>3, <2>1, <2>3, <3>1
    <2> QED BY <1>1, <2>2, <2>3, <2>4, NextMet
  <1> QED BY <1>6, <1>7

-----------------------------------------------------------------------------
(* The invariant: the table is in order and the iteration has met what is  *)
(* below its place.                                                        *)
HashInv == InOrder(xhash) /\ Met(xhash, it)

(* Where no key is set twice, the table is never left too large: then one  *)
(* shrink is enough.                                                       *)
DenseInv == (Owned = Keys => Dense(xhash)) /\ ResizeSuffices

LEMMA CalledKeeps ==
    ASSUME NEW op, NEW k, NEW v, Called(op, k, v)
    PROVE  HashInv' /\ (DenseInv => DenseInv')
  <1> DEFINE y == xhash'
  <1>1. Done(xhash, y, hret'.r, hret'.nomem, op, k, v) /\ it' = NoIter
    BY DEF Called
  <1> HIDE DEF y
  <1>2. InOrder(y) /\ IsTable(y)
    BY <1>1 DEF Done, InOrder, Good
  <1>3. Met(y, it')
    BY <1>1, <1>2, NoneMet DEF NoIter
  <1>4. HashInv'
    BY <1>2, <1>3 DEF HashInv, y
  <1>5. ASSUME DenseInv PROVE DenseInv'
    <2>1. Owned = Keys => Dense(y) /\ (hret'.r = -XHASH_ERESIZE => hret'.nomem)
      BY <1>1, <1>5 DEF Done, DenseInv
    <2>2. hret'.r = -XHASH_ERESIZE /\ hret'.op # "get" => hret'.nomem
      BY <1>1 DEF Done, Called
    <2>3. Reinsert = {} => Owned = Keys
      BY DEF Owned
    <2> QED BY <2>1, <2>2, <2>3 DEF DenseInv, ResizeSuffices, Owned, y
  <1> QED BY <1>4, <1>5

LEMMA InitHash ==
    ASSUME HashInit
    PROVE  HashInv /\ DenseInv
  <1>1. xhash = xhash_init(MinShift) /\ hret = NoReturn /\ it = NoIter
    BY DEF HashInit
  <1>2. MinShift \in MinShift..MaxShift
    BY HashAssumption
  <1>3. /\ Good(xhash) /\ Valids(xhash) = {} /\ xhash.shift = MinShift
        /\ xhash.used = 0 /\ xhash.dummies = 0
    BY <1>1, <1>2, InitGood
  <1>4. IsTable(xhash) /\ xhash_size(xhash) >= 4 /\ xhash_size(xhash) \in Nat
    BY <1>3, TableFacts DEF Good
  <1>5. InOrder(xhash)
    BY <1>3, <1>4 DEF InOrder, Room, OwnedOnce
  <1>6. Met(xhash, it)
    BY <1>1, <1>4, NoneMet DEF NoIter
  <1>7. Dense(xhash)
    BY <1>3, HashAssumption DEF Dense
  <1>8. ResizeSuffices
    BY <1>1 DEF NoReturn, ResizeSuffices, XHASH_ERESIZE
  <1> QED BY <1>5, <1>6, <1>7, <1>8 DEF HashInv, DenseInv

LEMMA NextHash ==
    ASSUME HashInv, [HashNext]_hashVars
    PROVE  HashInv' /\ (DenseInv => DenseInv')
  <1>1. InOrder(xhash) /\ Met(xhash, it) /\ Good(xhash) /\ IsTable(xhash)
    BY DEF HashInv, InOrder, Good
  <1>2. ASSUME NEW k \in Keys, xseg_get_req_data(k)
        PROVE  HashInv' /\ (DenseInv => DenseInv')
    <2>1. CASE GetFound(k)
      BY <1>1, <2>1, GetCalled, CalledKeeps
    <2>2. CASE /\ xhash' = xhash /\ it' = it
               /\ hret' = [op |-> "get", key |-> k, val |-> None, r |-> -XHASH_EEXIST,
                           nomem |-> FALSE]
      <3>1. HashInv'
        BY <1>1, <2>2 DEF HashInv
      <3>2. ResizeSuffices'
        BY <2>2 DEF ResizeSuffices, XHASH_EEXIST, XHASH_ERESIZE
      <3> QED BY <2>2, <3>1, <3>2 DEF DenseInv, Owned
    <2> QED BY <1>2, <2>1, <2>2 DEF xseg_get_req_data, GetFound
  <1>3. ASSUME NEW k \in Keys, NEW v \in Data, xseg_set_req_data(k, v)
        PROVE  HashInv' /\ (DenseInv => DenseInv')
    BY <1>1, <1>3, SetCalled, CalledKeeps
  <1>4. ASSUME NEW k \in Keys, NEW v \in Data, freql_update(k, v)
        PROVE  HashInv' /\ (DenseInv => DenseInv')
    BY <1>1, <1>4, FreqlCalled, CalledKeeps
  <1>5. ASSUME NEW k \in Keys, NEW v \in Data, update(k, v)
        PROVE  HashInv' /\ (DenseInv => DenseInv')
    <2>1. /\ InOrder(xhash') /\ SameKeys(xhash, xhash') /\ it' = it
          /\ hret' = [op |-> "update", key |-> k, val |-> v, r |-> 0, nomem |-> FALSE]
      BY <1>1, <1>5, UpdateCalled
    <2>2. Met(xhash', it')
      BY <1>1, <2>1, SameKeysMet
    <2>3. ResizeSuffices'
      BY <2>1 DEF ResizeSuffices, XHASH_ERESIZE
    <2>4. Dense(xhash) => Dense(xhash')
      BY <2>1 DEF Dense, SameKeys, xhash_size
    <2> QED BY <2>1, <2>2, <2>3, <2>4 DEF HashInv, DenseInv, Owned
  <1>6. ASSUME xhash_iter_init
        PROVE  HashInv' /\ (DenseInv => DenseInv')
    <2>1. xhash' = xhash /\ hret' = NoReturn /\ it' = [NoIter EXCEPT !.on = TRUE]
      BY <1>6 DEF xhash_iter_init
    <2>2. it' = [loc |-> 0, cnt |-> 0, seen |-> {}, on |-> TRUE, done |-> FALSE]
      BY <2>1 DEF NoIter
    <2>3. Met(xhash, it')
      BY <1>1, <2>2, NoneMet
    <2>4. ResizeSuffices'
      BY <2>1 DEF NoReturn, ResizeSuffices, XHASH_ERESIZE
    <2> QED BY <1>1, <2>1, <2>3, <2>4 DEF HashInv, DenseInv, Owned
  <1>7. ASSUME xhash_iterate
        PROVE  HashInv' /\ (DenseInv => DenseInv')
    <2>1. Met(xhash, it') /\ xhash' = xhash /\ hret' = hret
      BY <1>1, <1>7, IterateMet
    <2> QED BY <1>1, <2>1 DEF HashInv, DenseInv, Owned, ResizeSuffices
  <1>8. CASE UNCHANGED hashVars
    BY <1>1, <1>8 DEF hashVars, HashInv, DenseInv, Owned, ResizeSuffices
  <1> QED BY <1>2, <1>3, <1>4, <1>5, <1>6, <1>7, <1>8 DEF HashNext

(* The counters that decide when the table grows and shrinks, and when an  *)
(* iteration ends, are what is in the table, for tables of all sizes and   *)
(* all hashes.                                                             *)
THEOREM HashCounts == HashSpec => []CountersExact
  <1>1. HashInv => CountersExact
    BY DEF HashInv, InOrder, Good, Counted, Valids, Dummies, CountersExact
  <1> QED BY <1>1, InitHash, NextHash, PTL DEF HashSpec

(* There is always a slot that was never used, at which the loops of       *)
(* xhash.c end when the key is not there.                                  *)
THEOREM LookupsEnd == HashSpec => []ProbesEnd
  <1>1. HashInv => ProbesEnd
    BY RoomUnused DEF HashInv, InOrder, ProbesEnd
  <1> QED BY <1>1, InitHash, NextHash, PTL DEF HashSpec

(* An iteration that has come to its end has met every key of the table.   *)
THEOREM IterationsMeetAll == HashSpec => []IterationComplete
  <1>1. ASSUME HashInv PROVE IterationComplete
    <2> DEFINE x == xhash
    <2>1. Good(x) /\ IsTable(x) /\ x.used = Cardinality(Valids(x)) /\ IsFiniteSet(Valids(x)) /\ Met(x, it)
      BY <1>1, TableFacts DEF HashInv, InOrder, Good, Counted
    <2>2. ASSUME it.done PROVE Below(x, it.loc) = Valids(x)
      <3>1. Below(x, it.loc) \subseteq Valids(x)
        BY DEF Below
      <3>2. it.cnt = x.used => Cardinality(Below(x, it.loc)) = Cardinality(Valids(x))
        BY <2>1 DEF Met
      <3> HIDE DEF x
      <3>3. Cardinality(Below(x, it.loc)) = Cardinality(Valids(x)) => Below(x, it.loc) = Valids(x)
        BY <2>1, <3>1, FS_Subset
      <3> QED BY <2>1, <2>2, <3>2, <3>3 DEF Met
    <2>3. it.seen = {x.items[i].key : i \in Below(x, it.loc)}
      BY <2>1 DEF Met
    <2> QED BY <2>2, <2>3 DEF IterationComplete, ItemKeys, Valids
  <1> QED BY <1>1, InitHash, NextHash, PTL DEF HashSpec

(* The call that was told to resize the table and did so is not told so    *)
(* again, but for a delete where keys are set while they are there.        *)
THEOREM OneResizeIsEnough == HashSpec => []ResizeSuffices
  <1>1. HashInv /\ DenseInv => ResizeSuffices
    BY DEF DenseInv
  <1> QED BY <1>1, InitHash, NextHash, PTL DEF HashSpec
-----------------------------------------------------------------------------
(* The table implements the dictionary: what a call makes of the values    *)
(* that are looked up.                                                     *)
LEMMA PutLookup ==
    ASSUME NEW x, InOrder(x), NEW y, InOrder(y), NEW key, NEW val \in Nat,
           Put(x, y, key, val), NEW k \in Owned
    PROVE  xhash_lookup(y, k) = IF k = key THEN val ELSE xhash_lookup(x, k)
  <1> DEFINE p == xhash_lookup(x, k)
             q == xhash_lookup(y, k)
  <1>1. k \in Keys
    BY DEF Owned
  <1>2. (p = None \/ p \in Nat) /\ \A v \in Nat : Has(x, k, v) <=> p = v
    BY <1>1, LookupIsIn
  <1>3. (q = None \/ q \in Nat) /\ \A v \in Nat : Has(y, k, v) <=> q = v
    BY <1>1, LookupIsIn
  <1>4. \A v : Has(y, k, v) <=> IF k = key THEN v = val ELSE Has(x, k, v)
    BY DEF Put
  <1>5. None \notin Nat
    BY HashAssumption
  <1> HIDE DEF p, q
  <1>6. CASE k = key
    BY <1>3, <1>4, <1>6 DEF q
  <1>7. CASE k # key
    BY <1>2, <1>3, <1>4, <1>5, <1>7 DEF p, q
  <1> QED BY <1>6, <1>7

LEMMA TakenLookup ==
    ASSUME NEW x, InOrder(x), NEW y, InOrder(y), NEW key,
           Taken(x, y, key), NEW k \in Owned
    PROVE  xhash_lookup(y, k) = IF k = key THEN None ELSE xhash_lookup(x, k)
  <1> DEFINE p == xhash_lookup(x, k)
             q == xhash_lookup(y, k)
  <1>1. k \in Keys
    BY DEF Owned
  <1>2. (p = None \/ p \in Nat) /\ \A v \in Nat : Has(x, k, v) <=> p = v
    BY <1>1, LookupIsIn
  <1>3. (q = None \/ q \in Nat) /\ \A v \in Nat : Has(y, k, v) <=> q = v
    BY <1>1, LookupIsIn
  <1>4. \A v : Has(y, k, v) <=> k # key /\ Has(x, k, v)
    BY DEF Taken
  <1>5. None \notin Nat
    BY HashAssumption
  <1> HIDE DEF p, q
  <1>6. CASE k = key
    BY <1>3, <1>4, <1>6 DEF q
  <1>7. CASE k # key
    BY <1>2, <1>3, <1>4, <1>5, <1>7 DEF p, q
  <1> QED BY <1>6, <1>7

LEMMA SameLookup ==
    ASSUME NEW x, InOrder(x), NEW y, InOrder(y), SameItems(x, y), NEW k \in Owned
    PROVE  xhash_lookup(y, k) = xhash_lookup(x, k)
  <1> DEFINE p == xhash_lookup(x, k)
             q == xhash_lookup(y, k)
  <1>1. k \in Keys
    BY DEF Owned
  <1>2. (p = None \/ p \in Nat) /\ \A v \in Nat : Has(x, k, v) <=> p = v
    BY <1>1, LookupIsIn
  <1>3. (q = None \/ q \in Nat) /\ \A v \in Nat : Has(y, k, v) <=> q = v
    BY <1>1, LookupIsIn
  <1>4. \A v : Has(y, k, v) <=> Has(x, k, v)
    BY DEF SameItems
  <1>5. None \notin Nat
    BY HashAssumption
  <1> HIDE DEF p, q
  <1> QED BY <1>2, <1>3, <1>4, <1>5 DEF p, q

(* The dictionary's state, and what it is told of the last call.           *)
Reported == [op |-> hret.op, key |-> hret.key, val |-> hret.val, r |-> hret.r]

LEMMA ContentsAre ==
    /\ Contents = [k \in Owned |-> xhash_lookup(xhash, k)]
    /\ Contents' = [k \in Owned |-> xhash_lookup(xhash', k)]
  BY DEF Contents, Owned

LEMMA ContentsStay ==
    ASSUME \A k \in Owned : xhash_lookup(xhash', k) = xhash_lookup(xhash, k)
    PROVE  Contents' = Contents
  <1> DEFINE c == Contents
             d == Contents'
  <1>1. c = [k \in Owned |-> xhash_lookup(xhash, k)]
    BY ContentsAre
  <1>2. d = [k \in Owned |-> xhash_lookup(xhash', k)]
    BY ContentsAre
  <1> HIDE DEF c, d
  <1>3. d = c
    BY <1>1, <1>2
  <1> QED BY <1>3 DEF c, d

LEMMA ContentsPut ==
    ASSUME InOrder(xhash), InOrder(xhash'), NEW key \in Owned, NEW val \in Nat,
           Put(xhash, xhash', key, val)
    PROVE  Contents' = [Contents EXCEPT ![key] = val]
  <1> DEFINE c == Contents
             d == Contents'
  <1>1. c = [k \in Owned |-> xhash_lookup(xhash, k)]
    BY ContentsAre
  <1>2. d = [k \in Owned |-> xhash_lookup(xhash', k)]
    BY ContentsAre
  <1>3. \A k \in Owned : xhash_lookup(xhash', k) = IF k = key THEN val ELSE xhash_lookup(xhash, k)
    BY PutLookup
  <1> HIDE DEF c, d
  <1>4. d = [c EXCEPT ![key] = val]
    BY <1>1, <1>2, <1>3
  <1> QED BY <1>4 DEF c, d

LEMMA ContentsTaken ==
    ASSUME InOrder(xhash), InOrder(xhash'), NEW key \in Owned, Taken(xhash, xhash', key)
    PROVE  Contents' = [Contents EXCEPT ![key] = None]
  <1> DEFINE c == Contents
             d == Contents'
  <1>1. c = [k \in Owned |-> xhash_lookup(xhash, k)]
    BY ContentsAre
  <1>2. d = [k \in Owned |-> xhash_lookup(xhash', k)]
    BY ContentsAre
  <1>3. \A k \in Owned : xhash_lookup(xhash', k) = IF k = key THEN None ELSE xhash_lookup(xhash, k)
    BY TakenLookup
  <1> HIDE DEF c, d
  <1>4. d = [c EXCEPT ![key] = None]
    BY <1>1, <1>2, <1>3
  <1> QED BY <1>4 DEF c, d

(* A call about a key that somebody sets twice changes no other one's.     *)
LEMMA ContentsElsewhere ==
    ASSUME InOrder(xhash), InOrder(xhash'), NEW key, key \notin Owned, NEW val \in Nat,
           Put(xhash, xhash', key, val) \/ Taken(xhash, xhash', key)
    PROVE  Contents' = Contents
  <1>1. \A k \in Owned : xhash_lookup(xhash', k) = xhash_lookup(xhash, k)
    BY PutLookup, TakenLookup
  <1> QED BY <1>1, ContentsStay

LEMMA ReportedIs ==
    ASSUME NEW op, NEW k, NEW v, NEW r,
           hret'.op = op, hret'.key = k, hret'.val = v, hret'.r = r
    PROVE  Reported' = [op |-> op, key |-> k, val |-> v, r |-> r]
  BY DEF Reported

LEMMA OtherStep ==
    ASSUME Contents' = Contents, hret'.r < 0 \/ hret'.key \notin Owned \/ hret' = hret
    PROVE  Dict!Next
  <1>1. Reported'.r = hret'.r /\ Reported'.key = hret'.key
    BY DEF Reported
  <1>2. hret' = hret => Reported' = Reported
    BY DEF Reported
  <1> QED BY <1>1, <1>2 DEF Dict!Next, Dict!Other, Reported

LEMMA FailedStep ==
    ASSUME InOrder(xhash), NEW op, NEW k, NEW v, Called(op, k, v), hret'.r # 0
    PROVE  Dict!Next
  <1>1. InOrder(xhash') /\ SameItems(xhash, xhash') /\ hret'.r < 0
    BY DEF Called, Done
  <1>2. Contents' = Contents
    BY <1>1, SameLookup, ContentsStay
  <1> QED BY <1>1, <1>2, OtherStep

LEMMA SetStep ==
    ASSUME InOrder(xhash), NEW k \in Keys, NEW v \in Data, xseg_set_req_data(k, v)
    PROVE  Dict!Next
  <1>1. Called("set", k, v) /\ v \in Nat
    BY SetCalled, HashAssumption
  <1>2. ASSUME hret'.r = 0 PROVE Dict!Next
    <2>1. InOrder(xhash') /\ Put(xhash, xhash', k, v)
      BY <1>1, <1>2 DEF Called, Done
    <2>2. CASE k \in Owned
      <3>1. Contents' = [Contents EXCEPT ![k] = v]
        BY <1>1, <2>1, <2>2, ContentsPut
      <3>2. Reported' = [op |-> "set", key |-> k, val |-> v, r |-> 0]
        BY <1>1, <1>2, ReportedIs DEF Called
      <3>3. Dict!Set(k, v)
        BY <3>1, <3>2 DEF Dict!Set, Dict!Returned, Reported
      <3> QED BY <2>2, <3>3 DEF Dict!Next
    <2>3. CASE k \notin Owned
      BY <1>1, <2>1, <2>3, ContentsElsewhere, OtherStep DEF Called
    <2> QED BY <2>2, <2>3
  <1> QED BY <1>1, <1>2, FailedStep

LEMMA CountStep ==
    ASSUME InOrder(xhash), NEW k \in Keys, NEW v \in Data, freql_update(k, v)
    PROVE  Dict!Next
  <1>1. Called("freql", k, v) /\ v \in Nat
    BY FreqlCalled, HashAssumption
  <1>2. ASSUME hret'.r = 0 PROVE Dict!Next
    <2>1. InOrder(xhash') /\ Put(xhash, xhash', k, v)
      BY <1>1, <1>2 DEF Called, Done
    <2>2. CASE k \in Owned
      <3>1. Contents' = [Contents EXCEPT ![k] = v]
        BY <1>1, <2>1, <2>2, ContentsPut
      <3>2. Contents[k] = None
        BY <2>2 DEF freql_update, Contents, Owned
      <3>3. Reported' = [op |-> "freql", key |-> k, val |-> v, r |-> 0]
        BY <1>1, <1>2, ReportedIs DEF Called
      <3>4. Dict!Count(k, v)
        BY <3>1, <3>2, <3>3 DEF Dict!Count, Dict!Returned, Reported
      <3> QED BY <2>2, <3>4 DEF Dict!Next
    <2>3. CASE k \notin Owned
      BY <1>1, <2>1, <2>3, ContentsElsewhere, OtherStep DEF Called
    <2> QED BY <2>2, <2>3
  <1> QED BY <1>1, <1>2, FailedStep

LEMMA TakeStep ==
    ASSUME InOrder(xhash), NEW k \in Keys, GetFound(k)
    PROVE  Dict!Next
  <1>1. PICK v : v = xhash_lookup(xhash, k)
    OBVIOUS
  <1>2. Called("get", k, v) /\ v # None /\ v \in Nat
    BY <1>1, GetCalled, LookupIsIn DEF GetFound
  <1>3. ASSUME hret'.r = 0 PROVE Dict!Next
    <2>1. InOrder(xhash') /\ Taken(xhash, xhash', k)
      BY <1>2, <1>3 DEF Called, Done
    <2>2. CASE k \in Owned
      <3>1. Contents' = [Contents EXCEPT ![k] = None]
        BY <1>2, <2>1, <2>2, ContentsTaken
      <3>2. Contents[k] = v
        BY <1>1, <2>2 DEF Contents
      <3>3. Reported' = [op |-> "get", key |-> k, val |-> v, r |-> 0]
        BY <1>2, <1>3, ReportedIs DEF Called
      <3>4. Dict!Take(k)
        BY <1>2, <3>1, <3>2, <3>3 DEF Dict!Take, Dict!Returned, Reported
      <3> QED BY <2>2, <3>4 DEF Dict!Next
    <2>3. CASE k \notin Owned
      BY <1>2, <2>1, <2>3, ContentsElsewhere, OtherStep DEF Called
    <2> QED BY <2>2, <2>3
  <1> QED BY <1>2, <1>3, FailedStep

LEMMA UpdateStep ==
    ASSUME InOrder(xhash), NEW k \in Keys, NEW v \in Data, update(k, v)
    PROVE  Dict!Next
  <1>1. /\ InOrder(xhash') /\ Put(xhash, xhash', k, v)
        /\ hret' = [op |-> "update", key |-> k, val |-> v, r |-> 0, nomem |-> FALSE]
    BY UpdateCalled
  <1>2. v \in Nat /\ hret'.key = k
    BY <1>1, HashAssumption
  <1>3. CASE k \in Owned
    <2>1. Contents' = [Contents EXCEPT ![k] = v]
      BY <1>1, <1>2, <1>3, ContentsPut
    <2>2. Contents[k] # None
      BY <1>3 DEF update, Contents
    <2>3. Reported' = [op |-> "update", key |-> k, val |-> v, r |-> 0]
      BY <1>1 DEF Reported
    <2>4. Dict!Update(k, v)
      BY <2>1, <2>2, <2>3 DEF Dict!Update, Dict!Returned, Reported
    <2> QED BY <1>3, <2>4 DEF Dict!Next
  <1>4. CASE k \notin Owned
    BY <1>1, <1>2, <1>4, ContentsElsewhere, OtherStep
  <1> QED BY <1>3, <1>4

(* The table of xhash.c is a dictionary to those who never set a key       *)
(* twice, whatever the hashes, the size of the table and its resizes, and  *)
(* whatever others do with their keys.                                     *)
THEOREM HashIsADictionary == HashSpec => RefinesDictionary
  <1>1. ASSUME HashInit PROVE Dict!Init
    <2>1. InOrder(xhash) /\ Valids(xhash) = {}
      <3>1. MinShift \in MinShift..MaxShift
        BY HashAssumption
      <3>2. Valids(xhash) = {}
        BY <1>1, <3>1, InitGood DEF HashInit
      <3> QED BY <1>1, <3>2, InitHash DEF HashInv
    <2>2. \A k \in Owned : xhash_lookup(xhash, k) = None
      BY <2>1, LookupIsIn DEF InTable, Owned
    <2>3. Contents = [k \in Owned |-> None]
      BY <2>2 DEF Contents
    <2>4. hret.op = "none"
      BY <1>1 DEF HashInit, NoReturn
    <2> QED BY <2>3, <2>4 DEF Dict!Init
  <1>2. ASSUME HashInv, [HashNext]_hashVars PROVE [Dict!Next]_(Dict!vars)
    <2>1. InOrder(xhash)
      BY <1>2 DEF HashInv
    <2>2. ASSUME NEW k \in Keys, xseg_get_req_data(k) PROVE Dict!Next
      <3>1. CASE GetFound(k)
        BY <2>1, <3>1, TakeStep
      <3>2. CASE /\ xhash' = xhash
                 /\ hret' = [op |-> "get", key |-> k, val |-> None, r |-> -XHASH_EEXIST,
                             nomem |-> FALSE]
        <4>1. Contents' = Contents
          BY <3>2 DEF Contents, Owned
        <4>2. hret'.r < 0
          BY <3>2 DEF XHASH_EEXIST
        <4> QED BY <4>1, <4>2, OtherStep
      <3> QED BY <2>2, <3>1, <3>2 DEF xseg_get_req_data, GetFound
    <2>3. ASSUME NEW k \in Keys, NEW v \in Data,
                 xseg_set_req_data(k, v) \/ freql_update(k, v) \/ update(k, v)
          PROVE  Dict!Next
      BY <2>1, <2>3, SetStep, CountStep, UpdateStep
    <2>4. ASSUME xhash_iter_init PROVE Dict!Next
      <3>1. Contents' = Contents
        BY <2>4 DEF xhash_iter_init, Contents, Owned
      <3>2. hret'.key \notin Owned
        BY <2>4, HashAssumption DEF xhash_iter_init, NoReturn, Owned
      <3> QED BY <3>1, <3>2, OtherStep
    <2>5. ASSUME xhash_iterate PROVE Dict!Next
      <3>1. Contents' = Contents /\ hret' = hret
        BY <2>5 DEF xhash_iterate, Contents, Owned
      <3> QED BY <3>1, OtherStep
    <2>6. CASE UNCHANGED hashVars
      BY <2>6 DEF hashVars, Dict!vars, Contents, Owned
    <2> QED BY <1>2, <2>2, <2>3, <2>4, <2>5, <2>6 DEF HashNext
  <1>3. ASSUME HashInv, DenseInv, [HashNext]_hashVars PROVE HashInv' /\ DenseInv'
    BY <1>3, NextHash
  <1> QED BY <1>1, <1>2, InitHash, NextHash, PTL DEF HashSpec, RefinesDictionary, Dict!Spec

=============================================================================
