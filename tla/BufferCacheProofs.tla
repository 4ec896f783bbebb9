-------------------------- MODULE BufferCacheProofs -------------------------
(***************************************************************************)
(* Proofs about BufferCache for any number of processes, buffers, blocks   *)
(* and pinned blocks: the exact accounting of buffers and disk requests,   *)
(* and the refinement of BlockStore.                                       *)
(***************************************************************************)
EXTENDS BufferCache, FiniteSetTheorems, SequenceTheorems, WellFoundedInduction, TLAPS

-----------------------------------------------------------------------------
(***************************************************************************)
(* The inductive invariant.                                                *)
(***************************************************************************)

\* Where a process holds the sleep lock of its buffer.
Holding == {"iderw", "disk_sleep", "disk_awake", "held"}

Callers(b) == {p \in Users : mine[p] = b}

OneBuffer ==
    \A a, b \in Bufs : blockno[a] = blockno[b] /\ blockno[a] # Nobody => a = b

UsesOK ==
    \A p \in Users :
        /\ mine[p] = Nobody <=> at[p] \in {"idle", "panic"}
        /\ mine[p] # Nobody => blockno[mine[p]] # Nobody

RefsOK == \A b \in Bufs : refcnt[b] = Cardinality(Callers(b))

\* A sleep lock is held by exactly the process that works on the buffer.
LocksOK ==
    /\ \A p \in Users : at[p] \in Holding => locked[mine[p]] = p
    /\ \A b \in Bufs :
          locked[b] # Nobody => mine[locked[b]] = b /\ at[locked[b]] \in Holding

\* The disk queue has one entry for every process that sleeps in iderw.
QueueOK ==
    /\ \A i, j \in 1 .. Len(idequeue) : idequeue[i] = idequeue[j] => i = j
    /\ \A i \in 1 .. Len(idequeue) :
          \E p \in Users : at[p] = "disk_sleep" /\ mine[p] = idequeue[i]
    /\ \A p \in Users :
          at[p] = "disk_sleep" => \E i \in 1 .. Len(idequeue) : idequeue[i] = mine[p]
    /\ busy <=> idequeue # <<>>

\* What the flags of a buffer say at each point of a call.
FlagsOK ==
    /\ \A b \in Bufs : (dirty[b] => valid[b]) /\ (valid[b] => blockno[b] # Nobody)
    /\ \A p \in Users :
          /\ at[p] \in {"iderw", "disk_sleep"} => ~valid[mine[p]] \/ dirty[mine[p]]
          /\ at[p] \in {"held", "disk_awake"} => valid[mine[p]]
          /\ at[p] = "disk_awake" => ~dirty[mine[p]]

\* A clean buffer agrees with the disk, and so does the one being written.
DiskOK ==
    /\ \A b \in Bufs : valid[b] /\ ~dirty[b] => content[b] = disk[blockno[b]]
    /\ busy /\ dirty[idequeue[1]] => content[idequeue[1]] = disk[blockno[idequeue[1]]]

PanicOK ==
    ~BcacheFree => \A b \in Bufs : dirty[b] \/ \E p \in Users : mine[p] = b

IInv ==
    /\ TypeOK
    /\ OneBuffer /\ UsesOK /\ RefsOK
    /\ LocksOK /\ QueueOK
    /\ FlagsOK /\ DiskOK /\ PanicOK

-----------------------------------------------------------------------------
(***************************************************************************)
(* Lemmas about the list and the references.                               *)
(***************************************************************************)

\* A set of indices of the list has a last one.
LEMMA LastIndex ==
    ASSUME NEW S \in SUBSET Bufs, S # {}
    PROVE  \E i \in S : \A j \in S : j <= i
  <1> DEFINE T == {NBUF - i : i \in S}
  <1>1. T \subseteq Nat /\ T # {}
    BY CacheAssumption DEF Bufs
  <1>2. IsWellFoundedOn(OpToRel(<, Nat), Nat)
    BY NatLessThanWellFounded
  <1>3. PICK x \in T : \A y \in T : ~(<<y, x>> \in OpToRel(<, Nat))
    <2> HIDE DEF T
    <2> QED BY <1>1, <1>2, WFMin
  <1>4. \A y \in T : ~(y < x)
    <2>1. x \in Nat /\ \A y \in T : y \in Nat
      BY <1>1, <1>3
    <2> QED BY <1>3, <2>1 DEF OpToRel
  <1>5. PICK i \in S : x = NBUF - i
    BY <1>3
  <1>6. ASSUME NEW j \in S PROVE j <= i
    <2>1. NBUF - j \in T
      OBVIOUS
    <2>2. ~(NBUF - j < NBUF - i)
      BY <1>4, <1>5, <2>1
    <2> QED BY <2>2, CacheAssumption DEF Bufs
  <1> QED BY <1>5, <1>6

\* bget's second scan finds an unused buffer when there is one.
LEMMA VictimUnused ==
    ASSUME TypeOK, \E x \in Bufs : Unused(x)
    PROVE  Victim \in Bufs /\ Unused(Victim)
  <1> DEFINE S == {i \in Bufs : Unused(lru[i])}
  <1>1. S # {}
    BY DEF TypeOK
  <1>2. PICK i \in S : \A j \in S : j <= i
    BY <1>1, LastIndex
  <1>3. i \in Bufs /\ Unused(lru[i]) /\ \A j \in i + 1 .. NBUF : ~Unused(lru[j])
    <2>1. \A j \in i + 1 .. NBUF : j \in Bufs /\ ~(j <= i)
      BY <1>2, CacheAssumption DEF Bufs
    <2> QED BY <1>2, <2>1
  <1> DEFINE n == CHOOSE m \in Bufs : Unused(lru[m]) /\ \A j \in m + 1 .. NBUF : ~Unused(lru[j])
  <1>4. n \in Bufs /\ Unused(lru[n])
    BY <1>3
  <1> HIDE DEF n
  <1>5. lru[n] \in Bufs
    BY <1>4 DEF TypeOK
  <1> USE DEF n
  <1> QED BY <1>4, <1>5 DEF Victim

\* Moving a buffer to the head of the list keeps every buffer in it.
LEMMA MoveToHeadType ==
    ASSUME TypeOK, NEW b \in Bufs
    PROVE  /\ MoveToHead(b) \in [Bufs -> Bufs]
           /\ \A x \in Bufs : \E i \in Bufs : MoveToHead(b)[i] = x
  <1> DEFINE n == CHOOSE i \in Bufs : lru[i] = b
  <1>1. n \in Bufs /\ lru[n] = b
    BY DEF TypeOK
  <1> DEFINE f == [i \in Bufs |-> IF i = 1 THEN b ELSE IF i <= n THEN lru[i - 1] ELSE lru[i]]
  <1>2. MoveToHead(b) = f
    BY DEF MoveToHead
  <1> HIDE DEF n
  <1>3. \A i \in Bufs : i # 1 => i - 1 \in Bufs
    BY CacheAssumption DEF Bufs
  <1>4. lru \in [Bufs -> Bufs]
    BY DEF TypeOK
  <1>5. f \in [Bufs -> Bufs]
    BY <1>3, <1>4
  <1>6. ASSUME NEW x \in Bufs PROVE \E i \in Bufs : f[i] = x
    <2>1. PICK j \in Bufs : lru[j] = x
      BY DEF TypeOK
    <2>2. CASE j = n
      BY <1>1, <2>1, <2>2, CacheAssumption DEF Bufs
    <2>3. CASE j < n
      <3>1. j + 1 \in Bufs /\ j + 1 # 1 /\ j + 1 <= n /\ (j + 1) - 1 = j
        BY <1>1, <2>3, CacheAssumption DEF Bufs
      <3>2. f[j + 1] = lru[j]
        BY <3>1
      <3> QED BY <2>1, <3>1, <3>2
    <2>4. CASE j > n
      <3>1. j # 1 /\ ~(j <= n)
        BY <1>1, <2>4, CacheAssumption DEF Bufs
      <3>2. f[j] = lru[j]
        BY <3>1
      <3> QED BY <2>1, <3>2
    <2> QED BY <1>1, <2>2, <2>3, <2>4, CacheAssumption DEF Bufs
  <1> QED BY <1>2, <1>5, <1>6

LEMMA BufNotNobody == Nobody \notin Bufs
  BY CacheAssumption DEF Bufs, Nobody

LEMMA CallersFinite == \A b : IsFiniteSet(Callers(b)) /\ Cardinality(Callers(b)) \in Nat
  <1> SUFFICES ASSUME NEW b PROVE IsFiniteSet(Callers(b)) /\ Cardinality(Callers(b)) \in Nat
    OBVIOUS
  <1>1. Callers(b) \in SUBSET Users
    BY DEF Callers
  <1>2. IsFiniteSet(Callers(b))
    BY <1>1, FS_Subset, CacheAssumption
  <1> QED BY <1>2, FS_CardinalityType

\* A buffer without references has no caller.
LEMMA UnusedNoCaller ==
    ASSUME RefsOK, NEW b \in Bufs, refcnt[b] = 0
    PROVE  \A p \in Users : mine[p] # b
  <1>1. Callers(b) = {}
    BY CallersFinite, FS_EmptySet DEF RefsOK
  <1> QED BY <1>1 DEF Callers

\* A caller more is a reference more.
LEMMA CallerAdded ==
    ASSUME TypeOK, RefsOK, NEW p \in Users, NEW b \in Bufs, mine[p] = Nobody,
           mine' = [mine EXCEPT ![p] = b], refcnt' = [refcnt EXCEPT ![b] = refcnt[b] + 1]
    PROVE  RefsOK'
  <1>0. \A q \in Users : mine'[q] = IF q = p THEN b ELSE mine[q]
    BY DEF TypeOK
  <1>1. Callers(b)' = Callers(b) \cup {p} /\ p \notin Callers(b)
    BY <1>0, BufNotNobody DEF Callers
  <1>2. \A x \in Bufs \ {b} : Callers(x)' = Callers(x)
    BY <1>0, BufNotNobody DEF Callers
  <1>3. Cardinality(Callers(b)') = Cardinality(Callers(b)) + 1
    BY <1>1, CallersFinite, FS_AddElement
  <1>4. refcnt'[b] = refcnt[b] + 1 /\ \A x \in Bufs \ {b} : refcnt'[x] = refcnt[x]
    BY DEF TypeOK
  <1> QED BY <1>2, <1>3, <1>4 DEF RefsOK

LEMMA CallerGone ==
    ASSUME TypeOK, RefsOK, NEW p \in Users, NEW b \in Bufs, mine[p] = b,
           mine' = [mine EXCEPT ![p] = Nobody], refcnt' = [refcnt EXCEPT ![b] = refcnt[b] - 1]
    PROVE  RefsOK' /\ refcnt' \in [Bufs -> Nat]
  <1>0. \A q \in Users : mine'[q] = IF q = p THEN Nobody ELSE mine[q]
    BY DEF TypeOK
  <1>1. Callers(b)' = Callers(b) \ {p} /\ p \in Callers(b)
    BY <1>0, BufNotNobody DEF Callers
  <1>2. \A x \in Bufs \ {b} : Callers(x)' = Callers(x)
    BY <1>0, BufNotNobody DEF Callers
  <1>3. Cardinality(Callers(b)') = Cardinality(Callers(b)) - 1
    BY <1>1, CallersFinite, FS_RemoveElement
  <1>4. refcnt'[b] = refcnt[b] - 1 /\ \A x \in Bufs \ {b} : refcnt'[x] = refcnt[x]
    BY DEF TypeOK
  <1>5. RefsOK'
    BY <1>2, <1>3, <1>4 DEF RefsOK
  <1>6. Callers(b) # {}
    BY <1>1
  <1>7. Cardinality(Callers(b)) \in Nat /\ Cardinality(Callers(b)) # 0
    BY <1>6, CallersFinite, FS_EmptySet
  <1>8. refcnt[b] - 1 \in Nat
    BY <1>7 DEF RefsOK
  <1> QED BY <1>5, <1>8 DEF TypeOK

-----------------------------------------------------------------------------
(***************************************************************************)
(* The steps preserve the invariant.                                       *)
(***************************************************************************)

\* A process inside a call has a buffer of a block.
LEMMA InCall ==
    ASSUME IInv, NEW p \in Users, at[p] \notin {"idle", "panic"}
    PROVE  mine[p] \in Bufs /\ blockno[mine[p]] \in Blocks /\ mine[p] # Nobody
  BY DEF IInv, TypeOK, UsesOK

\* Only one process holds a buffer, and nobody can be waiting for the disk on
\* it meanwhile.
LEMMA Holder ==
    ASSUME IInv, NEW p \in Users, at[p] \in Holding
    PROVE  /\ locked[mine[p]] = p
           /\ \A q \in Users : mine[q] = mine[p] /\ at[q] \in Holding => q = p
  BY DEF IInv, LocksOK

\* Who holds a lock is one of those.
LEMMA LockHeld ==
    ASSUME IInv, NEW b \in Bufs, locked[b] # Nobody
    PROVE  locked[b] \in Users /\ mine[locked[b]] = b /\ at[locked[b]] \in Holding
  <1>1. locked[b] \in Users \cup {Nobody}
    BY DEF IInv, TypeOK
  <1> QED BY <1>1 DEF IInv, LocksOK

\* The places where a process may be unnoticed by locks, queue and flags.
Outside == {"idle", "acquire", "lock_sleep", "brelse", "panic"}

\* A process that goes from one such place to another disturbs none of them.
LEMMA MoveOutside ==
    ASSUME IInv, NEW p \in Users, at[p] \in Outside, NEW l \in Outside, NEW m \in Bufs \cup {Nobody},
           at' = [at EXCEPT ![p] = l], mine' = [mine EXCEPT ![p] = m],
           UNCHANGED <<blockno, valid, dirty, content, locked, ide>>
    PROVE  OneBuffer' /\ LocksOK' /\ QueueOK' /\ FlagsOK' /\ DiskOK'
  <1>1. /\ at'[p] = l /\ mine'[p] = m
        /\ \A q \in Users \ {p} : at'[q] = at[q] /\ mine'[q] = mine[q]
    BY DEF IInv, TypeOK
  <1>2. UNCHANGED <<disk, idequeue, busy>>
    BY DEF ide
  <1>3. OneBuffer' /\ DiskOK'
    BY <1>2 DEF IInv, OneBuffer, DiskOK
  <1>4. LocksOK'
    <2>1. \A q \in Users : at'[q] \in Holding => q # p
      BY <1>1 DEF Holding, Outside
    <2>2. \A b \in Bufs : locked[b] # Nobody => locked[b] \in Users /\ locked[b] # p
      BY LockHeld DEF Holding, Outside
    <2> QED BY <1>1, <2>1, <2>2 DEF IInv, LocksOK
  <1>5. QueueOK'
    <2>1. \A q \in Users : at'[q] = "disk_sleep" <=> at[q] = "disk_sleep"
      BY <1>1 DEF Outside
    <2>2. \A q \in Users : at[q] = "disk_sleep" => mine'[q] = mine[q]
      BY <1>1 DEF Outside
    <2> QED BY <1>2, <2>1, <2>2 DEF IInv, QueueOK
  <1>6. FlagsOK'
    <2>1. \A q \in Users : at'[q] \in Holding => at'[q] = at[q] /\ mine'[q] = mine[q]
      BY <1>1 DEF Holding, Outside
    <2> QED BY <2>1 DEF IInv, FlagsOK, Holding
  <1> QED BY <1>3, <1>4, <1>5, <1>6

LEMMA StepBgetHit ==
    ASSUME IInv, NEW p \in Users, NEW k \in Blocks, BgetHit(p, k)
    PROVE  IInv'
  <1> DEFINE b == CHOOSE x \in Cached(k) : TRUE
  <1>1. /\ at[p] = "idle" /\ BcacheFree /\ Cached(k) # {}
        /\ refcnt' = [refcnt EXCEPT ![b] = refcnt[b] + 1]
        /\ mine' = [mine EXCEPT ![p] = b] /\ at' = [at EXCEPT ![p] = "acquire"]
        /\ UNCHANGED <<blockno, lru, valid, dirty, content, locked, ide>>
    BY DEF BgetHit, Set, flags
  <1>2. b \in Bufs /\ blockno[b] = k
    BY <1>1 DEF Cached
  <1> HIDE DEF b
  <1>3. mine[p] = Nobody /\ k # Nobody /\ b # Nobody
    BY <1>1, <1>2, CacheAssumption, BufNotNobody DEF IInv, UsesOK
  <1>4. TypeOK'
    BY <1>1, <1>2 DEF IInv, TypeOK, ide
  <1>5. OneBuffer' /\ LocksOK' /\ QueueOK' /\ FlagsOK' /\ DiskOK'
    BY <1>1, <1>2, MoveOutside DEF Outside
  <1>6. RefsOK'
    BY <1>1, <1>2, <1>3, CallerAdded DEF IInv
  <1>7. /\ at'[p] = "acquire" /\ mine'[p] = b
        /\ \A q \in Users \ {p} : at'[q] = at[q] /\ mine'[q] = mine[q]
    BY <1>1 DEF IInv, TypeOK
  <1>8. UsesOK'
    BY <1>1, <1>2, <1>3, <1>7 DEF IInv, UsesOK
  <1>9. PanicOK'
    BY <1>1, <1>7 DEF PanicOK, BcacheFree
  <1> QED BY <1>4, <1>5, <1>6, <1>8, <1>9 DEF IInv

LEMMA StepBgetMiss ==
    ASSUME IInv, NEW p \in Users, NEW k \in Blocks, BgetMiss(p, k)
    PROVE  IInv'
  <1>1. at[p] = "idle" /\ BcacheFree /\ Cached(k) = {} /\ UNCHANGED <<lru, content, locked, ide>>
    BY DEF BgetMiss
  <1>2. mine[p] = Nobody /\ k # Nobody
    BY <1>1, CacheAssumption DEF IInv, UsesOK
  <1>3. CASE \E x \in Bufs : Unused(x)
    <2> DEFINE b == Victim
    <2>1. b \in Bufs /\ refcnt[b] = 0 /\ ~dirty[b]
      BY <1>3, VictimUnused DEF IInv, Unused
    <2>2. /\ blockno' = [blockno EXCEPT ![b] = k]
          /\ valid' = [valid EXCEPT ![b] = FALSE] /\ dirty' = [dirty EXCEPT ![b] = FALSE]
          /\ refcnt' = [refcnt EXCEPT ![b] = 1]
          /\ mine' = [mine EXCEPT ![p] = b] /\ at' = [at EXCEPT ![p] = "acquire"]
      BY <1>3 DEF BgetMiss, Set
    <2> HIDE DEF b
    <2>3. \A q \in Users : mine[q] # b
      BY <2>1, UnusedNoCaller DEF IInv
    <2>4. /\ at'[p] = "acquire" /\ mine'[p] = b
          /\ \A q \in Users \ {p} : at'[q] = at[q] /\ mine'[q] = mine[q]
      BY <2>2 DEF IInv, TypeOK
    <2>5. /\ blockno'[b] = k /\ valid'[b] = FALSE /\ dirty'[b] = FALSE
          /\ \A x \in Bufs \ {b} : blockno'[x] = blockno[x] /\ valid'[x] = valid[x] /\ dirty'[x] = dirty[x]
      BY <2>1, <2>2 DEF IInv, TypeOK
    <2>6. b # Nobody
      BY <2>1, BufNotNobody
    <2>7. TypeOK'
      BY <1>1, <2>1, <2>2 DEF IInv, TypeOK, ide
    <2>8. OneBuffer'
      BY <1>1, <2>5 DEF IInv, OneBuffer, Cached
    <2>9. RefsOK'
      <3>1. refcnt' = [refcnt EXCEPT ![b] = refcnt[b] + 1]
        BY <2>1, <2>2
      <3> QED BY <1>2, <2>1, <2>2, <3>1, CallerAdded DEF IInv
    <2>10. UsesOK'
      <3>1. \A q \in Users : mine[q] \in Bufs \cup {Nobody}
        BY DEF IInv, TypeOK
      <3>2. \A q \in Users : mine[q] # Nobody => blockno'[mine[q]] = blockno[mine[q]]
        BY <2>3, <2>5, <3>1
      <3> QED BY <1>2, <2>4, <2>5, <2>6, <3>2 DEF IInv, UsesOK
    <2>11. LocksOK'
      <3>1. \A q \in Users : at'[q] \in Holding => q # p
        BY <2>4 DEF Holding
      <3>2. \A x \in Bufs : locked[x] # Nobody => locked[x] \in Users /\ locked[x] # p
        BY <1>1, LockHeld DEF Holding
      <3> QED BY <1>1, <2>4, <3>1, <3>2 DEF IInv, LocksOK
    <2>12. UNCHANGED <<disk, idequeue, busy>>
      BY <1>1 DEF ide
    <2>13. QueueOK'
      <3>1. \A q \in Users : /\ at'[q] = "disk_sleep" <=> at[q] = "disk_sleep"
                             /\ at[q] = "disk_sleep" => mine'[q] = mine[q]
        BY <1>1, <2>4
      <3> QED BY <2>12, <3>1 DEF IInv, QueueOK
    <2>14. FlagsOK'
      <3>1. \A x \in Bufs : (dirty'[x] => valid'[x]) /\ (valid'[x] => blockno'[x] # Nobody)
        BY <2>5 DEF IInv, FlagsOK
      <3>2. ASSUME NEW q \in Users
            PROVE  /\ at'[q] \in {"iderw", "disk_sleep"} => ~valid'[mine'[q]] \/ dirty'[mine'[q]]
                   /\ at'[q] \in {"held", "disk_awake"} => valid'[mine'[q]]
                   /\ at'[q] = "disk_awake" => ~dirty'[mine'[q]]
        <4>1. CASE q = p
          BY <2>4, <4>1
        <4>2. CASE q # p /\ at[q] \in Holding
          <5>1. mine'[q] = mine[q] /\ at'[q] = at[q] /\ mine[q] \in Bufs \ {b}
            BY <2>3, <2>4, <4>2, InCall DEF Holding
          <5> QED BY <2>5, <5>1 DEF IInv, FlagsOK
        <4>3. CASE q # p /\ at[q] \notin Holding
          BY <2>4, <4>3 DEF Holding
        <4> QED BY <4>1, <4>2, <4>3
      <3> QED BY <3>1, <3>2 DEF FlagsOK
    <2>15. DiskOK'
      <3>1. \A x \in Bufs : valid'[x] /\ ~dirty'[x] => content'[x] = disk'[blockno'[x]]
        BY <1>1, <2>5, <2>12 DEF IInv, DiskOK
      <3>2. busy => idequeue[1] \in Bufs \ {b}
        <4> SUFFICES ASSUME busy PROVE idequeue[1] \in Bufs \ {b}
          OBVIOUS
        <4>1. 1 \in 1 .. Len(idequeue) /\ idequeue \in Seq(Bufs)
          BY EmptySeq DEF IInv, QueueOK, TypeOK
        <4>2. \E q \in Users : mine[q] = idequeue[1]
          BY <4>1 DEF IInv, QueueOK
        <4> QED BY <2>3, <4>1, <4>2, ElementOfSeq
      <3> QED BY <1>1, <2>5, <2>12, <3>1, <3>2 DEF IInv, DiskOK
    <2>16. PanicOK'
      BY <1>1, <2>4 DEF PanicOK, BcacheFree
    <2> QED BY <2>7, <2>8, <2>9, <2>10, <2>11, <2>13, <2>14, <2>15, <2>16 DEF IInv
  <1>4. CASE ~\E x \in Bufs : Unused(x)
    <2>1. at' = [at EXCEPT ![p] = "panic"] /\ UNCHANGED <<blockno, valid, dirty, refcnt, mine>>
      BY <1>4 DEF BgetMiss, Set, flags
    <2>2. mine' = [mine EXCEPT ![p] = Nobody]
      BY <1>2, <2>1 DEF IInv, TypeOK
    <2>3. OneBuffer' /\ LocksOK' /\ QueueOK' /\ FlagsOK' /\ DiskOK'
      BY <1>1, <2>1, <2>2, MoveOutside DEF Outside
    <2>4. TypeOK'
      BY <1>1, <2>1 DEF IInv, TypeOK, ide
    <2>5. RefsOK'
      BY <2>1 DEF IInv, RefsOK, Callers
    <2>6. UsesOK'
      BY <1>1, <2>1 DEF IInv, UsesOK, TypeOK
    <2>7. PanicOK'
      <3> SUFFICES ASSUME NEW b \in Bufs PROVE dirty[b] \/ \E q \in Users : mine[q] = b
        BY <2>1 DEF PanicOK
      <3>1. CASE refcnt[b] # 0
        <4>1. Callers(b) # {}
          BY <3>1, FS_EmptySet DEF IInv, RefsOK
        <4> QED BY <4>1 DEF Callers
      <3>2. CASE refcnt[b] = 0
        BY <1>4, <3>2 DEF Unused
      <3> QED BY <3>1, <3>2
    <2> QED BY <2>3, <2>4, <2>5, <2>6, <2>7 DEF IInv
  <1> QED BY <1>3, <1>4

LEMMA StepAcquireSleep ==
    ASSUME IInv, NEW p \in Users, AcquireSleep(p)
    PROVE  IInv'
  <1> DEFINE b == mine[p]
  <1>1. /\ at[p] = "acquire"
        /\ UNCHANGED <<blockno, refcnt, lru, valid, dirty, content, disk, idequeue, busy, mine>>
    BY DEF AcquireSleep, meta, flags, ide
  <1>2. b \in Bufs /\ blockno[b] \in Blocks /\ b # Nobody
    BY <1>1, InCall
  <1> HIDE DEF b
  <1>3. RefsOK'
    BY <1>1 DEF IInv, RefsOK, Callers
  <1>4. CASE locked[b] # Nobody
    <2>1. at' = [at EXCEPT ![p] = "lock_sleep"] /\ locked' = locked
      BY <1>4 DEF AcquireSleep, Set, b
    <2>2. mine' = [mine EXCEPT ![p] = b]
      BY <1>1 DEF IInv, TypeOK, b
    <2>3. OneBuffer' /\ LocksOK' /\ QueueOK' /\ FlagsOK' /\ DiskOK'
      BY <1>1, <1>2, <2>1, <2>2, MoveOutside DEF Outside, ide
    <2>4. TypeOK'
      BY <1>1, <2>1 DEF IInv, TypeOK
    <2>5. UsesOK'
      BY <1>1, <2>1 DEF IInv, UsesOK, TypeOK
    <2>6. PanicOK'
      BY <1>1, <2>1 DEF IInv, PanicOK, BcacheFree, TypeOK
    <2> QED BY <1>3, <2>3, <2>4, <2>5, <2>6 DEF IInv
  <1>5. CASE locked[b] = Nobody
    <2> DEFINE l == IF valid[b] THEN "held" ELSE "iderw"
    <2>1. locked' = [locked EXCEPT ![b] = p] /\ at' = [at EXCEPT ![p] = l]
      BY <1>5 DEF AcquireSleep, Set, b
    <2>2. l \in {"held", "iderw"} /\ (l = "held" <=> valid[b])
      OBVIOUS
    <2> HIDE DEF l
    <2>3. at'[p] = l /\ \A q \in Users \ {p} : at'[q] = at[q]
      BY <2>1 DEF IInv, TypeOK
    <2>4. locked'[b] = p /\ \A x \in Bufs \ {b} : locked'[x] = locked[x]
      BY <1>2, <2>1 DEF IInv, TypeOK
    <2>5. TypeOK'
      BY <1>1, <1>2, <2>1, <2>2 DEF IInv, TypeOK
    <2>6. OneBuffer' /\ DiskOK'
      BY <1>1 DEF IInv, OneBuffer, DiskOK
    <2>7. UsesOK'
      BY <1>1, <2>2, <2>3 DEF IInv, UsesOK
    <2>8. LocksOK'
      <3>1. \A q \in Users \ {p} : at[q] \in Holding => mine[q] \in Bufs \ {b}
        BY <1>5, Holder, InCall, CacheAssumption DEF Holding
      <3>2. \A x \in Bufs : locked[x] # Nobody => locked[x] \in Users /\ locked[x] # p
        BY <1>1, LockHeld DEF Holding
      <3>3. p # Nobody
        BY CacheAssumption
      <3>4. \A q \in Users : at'[q] \in Holding => locked'[mine'[q]] = q
        BY <1>1, <2>3, <2>4, <3>1 DEF IInv, LocksOK, b
      <3>5. \A x \in Bufs :
               locked'[x] # Nobody => mine'[locked'[x]] = x /\ at'[locked'[x]] \in Holding
        BY <1>1, <2>2, <2>3, <2>4, <3>2 DEF IInv, LocksOK, b, Holding
      <3> QED BY <3>4, <3>5 DEF LocksOK
    <2>9. QueueOK'
      <3>1. \A q \in Users : at'[q] = "disk_sleep" <=> at[q] = "disk_sleep"
        BY <1>1, <2>2, <2>3
      <3> QED BY <1>1, <3>1 DEF IInv, QueueOK
    <2>10. FlagsOK'
      BY <1>1, <2>2, <2>3 DEF IInv, FlagsOK, b
    <2>11. PanicOK'
      BY <1>1, <2>2, <2>3 DEF IInv, PanicOK, BcacheFree
    <2> QED BY <1>3, <2>5, <2>6, <2>7, <2>8, <2>9, <2>10, <2>11 DEF IInv
  <1> QED BY <1>4, <1>5

\* The holder of a buffer is not in the disk queue with it.
LEMMA HeldNotQueued ==
    ASSUME IInv, NEW p \in Users, at[p] \in {"held", "iderw", "disk_awake"}
    PROVE  \A i \in 1 .. Len(idequeue) : idequeue[i] # mine[p]
  <1> SUFFICES ASSUME NEW i \in 1 .. Len(idequeue), idequeue[i] = mine[p] PROVE FALSE
    OBVIOUS
  <1>1. PICK q \in Users : at[q] = "disk_sleep" /\ mine[q] = idequeue[i]
    BY DEF IInv, QueueOK
  <1>2. q = p
    BY <1>1, Holder DEF Holding
  <1> QED BY <1>1, <1>2

\* The first entry of the queue of a busy disk.
LEMMA QueueHead ==
    ASSUME IInv, busy
    PROVE  /\ idequeue # <<>> /\ 1 \in 1 .. Len(idequeue) /\ Len(idequeue) \in Nat \ {0}
           /\ idequeue[1] \in Bufs
  <1>1. idequeue # <<>> /\ idequeue \in Seq(Bufs)
    BY DEF IInv, QueueOK, TypeOK
  <1>2. Len(idequeue) \in Nat \ {0}
    BY <1>1, EmptySeq
  <1> QED BY <1>1, <1>2, ElementOfSeq

\* A change of a held buffer: bwrite goes on to iderw, log_write stays.
LEMMA ChangeHeld ==
    ASSUME IInv, NEW p \in Users, NEW v \in Values, NEW l \in {"held", "iderw"}, at[p] = "held",
           content' = [content EXCEPT ![mine[p]] = v], dirty' = [dirty EXCEPT ![mine[p]] = TRUE],
           at' = [at EXCEPT ![p] = l],
           UNCHANGED <<blockno, refcnt, lru, valid, locked, disk, idequeue, busy, mine>>
    PROVE  IInv'
  <1> DEFINE b == mine[p]
  <1>1. b \in Bufs /\ blockno[b] \in Blocks /\ b # Nobody
    BY InCall
  <1>2. \A q \in Users : mine[q] = b /\ at[q] \in Holding => q = p
    BY Holder DEF Holding
  <1>3. \A i \in 1 .. Len(idequeue) : idequeue[i] # b
    BY HeldNotQueued
  <1>4. valid[b]
    BY DEF IInv, FlagsOK
  <1> HIDE DEF b
  <1>5. at'[p] = l /\ \A q \in Users \ {p} : at'[q] = at[q]
    BY DEF IInv, TypeOK
  <1>6. /\ content'[b] = v /\ dirty'[b] = TRUE
        /\ \A x \in Bufs \ {b} : content'[x] = content[x] /\ dirty'[x] = dirty[x]
    BY <1>1 DEF IInv, TypeOK, b
  <1>7. TypeOK'
    BY <1>1 DEF IInv, TypeOK, b
  <1>8. OneBuffer' /\ RefsOK'
    BY DEF IInv, OneBuffer, RefsOK, Callers
  <1>9. UsesOK'
    BY <1>5 DEF IInv, UsesOK
  <1>10. LocksOK'
    <2>1. \A q \in Users : at'[q] \in Holding <=> at[q] \in Holding
      BY <1>5 DEF Holding
    <2> QED BY <2>1, LockHeld DEF IInv, LocksOK
  <1>11. QueueOK'
    <2>1. \A q \in Users : at'[q] = "disk_sleep" <=> at[q] = "disk_sleep"
      BY <1>5
    <2> QED BY <2>1 DEF IInv, QueueOK
  <1>12. FlagsOK'
    <2>1. \A x \in Bufs : (dirty'[x] => valid'[x]) /\ (valid'[x] => blockno'[x] # Nobody)
      BY <1>4, <1>6 DEF IInv, FlagsOK
    <2>2. ASSUME NEW q \in Users
          PROVE  /\ at'[q] \in {"iderw", "disk_sleep"} => ~valid'[mine'[q]] \/ dirty'[mine'[q]]
                 /\ at'[q] \in {"held", "disk_awake"} => valid'[mine'[q]]
                 /\ at'[q] = "disk_awake" => ~dirty'[mine'[q]]
      <3>1. CASE q = p
        BY <1>4, <1>5, <1>6, <3>1 DEF b
      <3>2. CASE q # p /\ at[q] \in Holding
        <4>1. at'[q] = at[q] /\ mine[q] \in Bufs \ {b}
          BY <1>2, <1>5, <3>2, InCall DEF Holding
        <4> QED BY <1>6, <4>1 DEF IInv, FlagsOK
      <3>3. CASE q # p /\ at[q] \notin Holding
        BY <1>5, <3>3 DEF Holding
      <3> QED BY <3>1, <3>2, <3>3
    <2> QED BY <2>1, <2>2 DEF FlagsOK
  <1>13. DiskOK'
    <2>1. busy => idequeue[1] \in Bufs \ {b}
      BY <1>3, QueueHead
    <2> QED BY <1>6, <2>1 DEF IInv, DiskOK
  <1>14. PanicOK'
    <2>1. BcacheFree' <=> BcacheFree
      BY <1>5 DEF BcacheFree
    <2> QED BY <1>6, <2>1 DEF IInv, PanicOK
  <1> QED BY <1>7, <1>8, <1>9, <1>10, <1>11, <1>12, <1>13, <1>14 DEF IInv

LEMMA StepChange ==
    ASSUME IInv, NEW p \in Users, NEW v \in Values, Bwrite(p, v) \/ LogWrite(p, v)
    PROVE  IInv'
  <1>1. CASE Bwrite(p, v)
    BY <1>1, ChangeHeld DEF Bwrite, Set, meta, ide
  <1>2. CASE LogWrite(p, v)
    <2>1. at' = [at EXCEPT ![p] = "held"]
      BY <1>2 DEF LogWrite, IInv, TypeOK
    <2> QED BY <1>2, <2>1, ChangeHeld DEF LogWrite, Set, meta, ide
  <1> QED BY <1>1, <1>2

\* The disk after idestart: a write reaches its block, and no other block.
LEMMA StartedDisk ==
    ASSUME IInv, NEW b \in Bufs, blockno[b] \in Blocks
    PROVE  LET d == Started(b, disk)
           IN  /\ d \in [Blocks -> Values]
               /\ dirty[b] => content[b] = d[blockno[b]]
               /\ \A k \in Blocks : k # blockno[b] \/ ~dirty[b] => d[k] = disk[k]
               /\ \A x \in Bufs \ {b} : blockno[x] # Nobody => d[blockno[x]] = disk[blockno[x]]
  <1> DEFINE d == Started(b, disk)
  <1>1. d = IF dirty[b] THEN [disk EXCEPT ![blockno[b]] = content[b]] ELSE disk
    BY DEF Started, Set
  <1>2. disk \in [Blocks -> Values] /\ content[b] \in Values
    BY DEF IInv, TypeOK
  <1>3. d \in [Blocks -> Values]
    BY <1>1, <1>2
  <1>4. /\ dirty[b] => content[b] = d[blockno[b]]
        /\ \A k \in Blocks : k # blockno[b] \/ ~dirty[b] => d[k] = disk[k]
    BY <1>1, <1>2
  <1>5. \A x \in Bufs \ {b} : blockno[x] # Nobody => blockno[x] \in Blocks /\ blockno[x] # blockno[b]
    BY DEF IInv, OneBuffer, TypeOK
  <1> QED BY <1>3, <1>4, <1>5

LEMMA StepIderw ==
    ASSUME IInv, NEW p \in Users, Iderw(p)
    PROVE  IInv'
  <1> DEFINE b == mine[p]
             n == Len(idequeue)
  <1>1. /\ at[p] = "iderw" /\ at' = [at EXCEPT ![p] = "disk_sleep"]
        /\ idequeue' = Append(idequeue, b)
        /\ disk' = IF idequeue = <<>> THEN Started(b, disk) ELSE disk
        /\ busy' = (busy \/ idequeue = <<>>)
        /\ UNCHANGED <<blockno, refcnt, lru, valid, dirty, content, locked, mine>>
    BY DEF Iderw, Set, meta, flags
  <1>2. b \in Bufs /\ blockno[b] \in Blocks /\ b # Nobody
    BY <1>1, InCall
  <1>3. \A i \in 1 .. n : idequeue[i] # b
    BY <1>1, HeldNotQueued
  <1>4. ~valid[b] \/ dirty[b]
    BY <1>1 DEF IInv, FlagsOK
  <1> HIDE DEF b
  <1>5. at'[p] = "disk_sleep" /\ \A q \in Users \ {p} : at'[q] = at[q]
    BY <1>1 DEF IInv, TypeOK
  <1>6. idequeue \in Seq(Bufs) /\ n \in Nat /\ (busy <=> n # 0) /\ (idequeue = <<>> <=> n = 0)
    BY EmptySeq, LenProperties DEF IInv, QueueOK, TypeOK
  <1>7. /\ idequeue' \in Seq(Bufs) /\ idequeue' # <<>> /\ Len(idequeue') = n + 1
        /\ idequeue'[n + 1] = b /\ \A i \in 1 .. n : idequeue'[i] = idequeue[i]
    BY <1>1, <1>2, <1>6, AppendProperties
  <1> HIDE DEF n
  <1>8. /\ disk' \in [Blocks -> Values]
        /\ \A x \in Bufs \ {b} : blockno[x] # Nobody => disk'[blockno[x]] = disk[blockno[x]]
        /\ n = 0 /\ dirty[b] => content[b] = disk'[blockno[b]]
        /\ ~dirty[b] => disk'[blockno[b]] = disk[blockno[b]]
    <2>1. CASE idequeue = <<>>
      BY <1>1, <1>2, <2>1, StartedDisk
    <2>2. CASE idequeue # <<>>
      <3>1. disk' = disk
        BY <1>1, <2>2
      <3> QED BY <1>6, <2>2, <3>1 DEF IInv, TypeOK
    <2> QED BY <2>1, <2>2
  <1>9. busy' = TRUE
    BY <1>1, <1>6
  <1>10. TypeOK'
    BY <1>1, <1>7, <1>8, <1>9 DEF IInv, TypeOK
  <1>11. OneBuffer' /\ RefsOK'
    BY <1>1 DEF IInv, OneBuffer, RefsOK, Callers
  <1>12. UsesOK'
    BY <1>1, <1>5 DEF IInv, UsesOK
  <1>13. LocksOK'
    <2>1. \A q \in Users : at'[q] \in Holding <=> at[q] \in Holding
      BY <1>1, <1>5 DEF Holding
    <2> QED BY <1>1, <2>1, LockHeld DEF IInv, LocksOK
  <1>14. QueueOK'
    <2>1. \A i \in 1 .. n + 1 : i = n + 1 \/ i \in 1 .. n
      BY <1>6
    <2>2. \A i, j \in 1 .. n + 1 : idequeue'[i] = idequeue'[j] => i = j
      BY <1>3, <1>7, <2>1 DEF IInv, QueueOK, n
    <2>3. \A i \in 1 .. n + 1 : \E q \in Users : at'[q] = "disk_sleep" /\ mine'[q] = idequeue'[i]
      <3>1. ASSUME NEW i \in 1 .. n
            PROVE  \E q \in Users : at'[q] = "disk_sleep" /\ mine'[q] = idequeue'[i]
        <4>1. PICK q \in Users : at[q] = "disk_sleep" /\ mine[q] = idequeue[i]
          BY DEF IInv, QueueOK, n
        <4> QED BY <1>1, <1>5, <1>7, <4>1
      <3>2. at'[p] = "disk_sleep" /\ mine'[p] = idequeue'[n + 1]
        BY <1>1, <1>5, <1>7 DEF b
      <3> QED BY <2>1, <3>1, <3>2
    <2>4. \A q \in Users : at'[q] = "disk_sleep" => \E i \in 1 .. n + 1 : idequeue'[i] = mine'[q]
      <3>1. n + 1 \in 1 .. n + 1 /\ \A i \in 1 .. n : i \in 1 .. n + 1
        BY <1>6
      <3>2. ASSUME NEW q \in Users \ {p}, at[q] = "disk_sleep"
            PROVE  \E i \in 1 .. n + 1 : idequeue'[i] = mine'[q]
        <4>1. PICK i \in 1 .. n : idequeue[i] = mine[q]
          BY <3>2 DEF IInv, QueueOK, n
        <4> QED BY <1>1, <1>7, <3>1, <4>1
      <3>3. idequeue'[n + 1] = mine'[p]
        BY <1>1, <1>7 DEF b
      <3> QED BY <1>5, <3>1, <3>2, <3>3
    <2> QED BY <1>7, <1>9, <2>2, <2>3, <2>4 DEF QueueOK
  <1>15. FlagsOK'
    BY <1>1, <1>4, <1>5 DEF IInv, FlagsOK, b
  <1>16. DiskOK'
    <2>1. \A x \in Bufs : valid[x] /\ ~dirty[x] => x # b /\ blockno[x] # Nobody
      BY <1>4 DEF IInv, FlagsOK
    <2>2. \A x \in Bufs : valid'[x] /\ ~dirty'[x] => content'[x] = disk'[blockno'[x]]
      BY <1>1, <1>8, <2>1 DEF IInv, DiskOK
    <2>3. dirty'[idequeue'[1]] => content'[idequeue'[1]] = disk'[blockno'[idequeue'[1]]]
      <3>1. CASE n = 0
        <4>1. idequeue'[1] = b
          BY <1>7, <3>1
        <4> QED BY <1>1, <1>8, <3>1, <4>1
      <3>2. CASE n # 0
        <4>1. busy /\ idequeue'[1] = idequeue[1] /\ idequeue[1] \in Bufs \ {b}
          BY <1>3, <1>6, <1>7, <3>2, QueueHead
        <4>2. dirty[idequeue[1]] => blockno[idequeue[1]] # Nobody
          BY <4>1 DEF IInv, FlagsOK
        <4> QED BY <1>1, <1>8, <4>1, <4>2 DEF IInv, DiskOK
      <3> QED BY <3>1, <3>2
    <2> QED BY <2>2, <2>3 DEF DiskOK
  <1>17. PanicOK'
    <2>1. BcacheFree' <=> BcacheFree
      BY <1>1, <1>5 DEF BcacheFree
    <2> QED BY <1>1, <2>1 DEF IInv, PanicOK
  <1> QED BY <1>10, <1>11, <1>12, <1>13, <1>14, <1>15, <1>16, <1>17 DEF IInv

LEMMA StepIderwAwake ==
    ASSUME IInv, NEW p \in Users, IderwAwake(p)
    PROVE  IInv'
  <1>1. at[p] = "disk_awake" /\ valid[mine[p]] /\ ~dirty[mine[p]]
    BY DEF IderwAwake, IInv, FlagsOK
  <1>2. /\ at' = [at EXCEPT ![p] = "held"]
        /\ UNCHANGED <<blockno, refcnt, lru, valid, dirty, content, locked, disk, idequeue, busy, mine>>
    BY <1>1 DEF IderwAwake, Set, meta, flags, ide
  <1>3. at'[p] = "held" /\ \A q \in Users \ {p} : at'[q] = at[q]
    BY <1>2 DEF IInv, TypeOK
  <1>4. TypeOK'
    BY <1>2 DEF IInv, TypeOK
  <1>5. OneBuffer' /\ RefsOK' /\ DiskOK'
    BY <1>2 DEF IInv, OneBuffer, RefsOK, Callers, DiskOK
  <1>6. UsesOK'
    BY <1>1, <1>2, <1>3 DEF IInv, UsesOK
  <1>7. LocksOK'
    <2>1. \A q \in Users : at'[q] \in Holding <=> at[q] \in Holding
      BY <1>1, <1>3 DEF Holding
    <2> QED BY <1>2, <2>1, LockHeld DEF IInv, LocksOK
  <1>8. QueueOK'
    <2>1. \A q \in Users : at'[q] = "disk_sleep" <=> at[q] = "disk_sleep"
      BY <1>1, <1>3
    <2> QED BY <1>2, <2>1 DEF IInv, QueueOK
  <1>9. FlagsOK'
    BY <1>1, <1>2, <1>3 DEF IInv, FlagsOK
  <1>10. PanicOK'
    <2>1. BcacheFree' <=> BcacheFree
      BY <1>1, <1>3 DEF BcacheFree
    <2> QED BY <1>2, <2>1 DEF IInv, PanicOK
  <1> QED BY <1>4, <1>5, <1>6, <1>7, <1>8, <1>9, <1>10 DEF IInv

\* What ideintr does: the first buffer becomes valid and clean and agrees with
\* its block, and its process goes on.
LEMMA IdeintrFacts ==
    ASSUME IInv, Ideintr
    PROVE  LET b == idequeue[1] IN
           \E p \in Users :
             /\ at[p] = "disk_sleep" /\ mine[p] = b /\ b \in Bufs /\ blockno[b] \in Blocks
             /\ at' = [at EXCEPT ![p] = "disk_awake"]
             /\ valid' = [valid EXCEPT ![b] = TRUE] /\ dirty' = [dirty EXCEPT ![b] = FALSE]
             /\ content' = [content EXCEPT ![b] = disk[blockno[b]]]
             /\ disk' \in [Blocks -> Values]
             /\ \A x \in Bufs : blockno[x] # Nobody /\ (x = b \/ ~dirty[x]) =>
                   disk'[blockno[x]] = disk[blockno[x]]
             /\ idequeue' = Tail(idequeue) /\ busy' = (idequeue' # <<>>)
             /\ idequeue' # <<>> =>
                   /\ idequeue[2] \in Bufs \ {b}
                   /\ dirty[idequeue[2]] =>
                         content[idequeue[2]] = disk'[blockno[idequeue[2]]]
             /\ UNCHANGED <<blockno, refcnt, lru, locked, mine>>
  <1> DEFINE b == idequeue[1]
             n == Len(idequeue)
  <1>1. /\ busy /\ idequeue' = Tail(idequeue) /\ busy' = (Tail(idequeue) # <<>>)
        /\ content' = IF dirty[Head(idequeue)] THEN content
                      ELSE [content EXCEPT ![Head(idequeue)] = disk[blockno[Head(idequeue)]]]
        /\ valid' = [valid EXCEPT ![Head(idequeue)] = TRUE]
        /\ dirty' = [dirty EXCEPT ![Head(idequeue)] = FALSE]
        /\ at' = Wake("disk_sleep", Head(idequeue), "disk_awake", at)
        /\ disk' = IF busy' THEN Started(idequeue[2], disk) ELSE disk
        /\ UNCHANGED <<blockno, refcnt, lru, locked, mine>>
    BY DEF Ideintr, Set, NextStart, meta
  <1>2. /\ idequeue # <<>> /\ 1 \in 1 .. n /\ n \in Nat \ {0} /\ b \in Bufs
        /\ idequeue \in Seq(Bufs) /\ Head(idequeue) = b
    BY <1>1, QueueHead DEF IInv, TypeOK
  <1>3. PICK p \in Users : at[p] = "disk_sleep" /\ mine[p] = b
    BY <1>2 DEF IInv, QueueOK
  <1>4. blockno[b] \in Blocks
    BY <1>3, InCall
  <1>5. at' = [at EXCEPT ![p] = "disk_awake"]
    <2>1. \A q \in Users : at[q] = "disk_sleep" /\ mine[q] = b <=> q = p
      BY <1>3, Holder DEF Holding
    <2>2. at' = [q \in Users |-> IF at[q] = "disk_sleep" /\ mine[q] = b THEN "disk_awake" ELSE at[q]]
      BY <1>1, <1>2 DEF Wake
    <2>3. at = [q \in Users |-> at[q]]
      BY DEF IInv, TypeOK
    <2> QED BY <2>1, <2>2, <2>3
  <1>6. content' = [content EXCEPT ![b] = disk[blockno[b]]]
    <2>1. CASE dirty[b]
      <3>1. content[b] = disk[blockno[b]] /\ content' = content
        BY <1>1, <1>2, <2>1 DEF IInv, DiskOK
      <3> QED BY <3>1 DEF IInv, TypeOK
    <2>2. CASE ~dirty[b]
      BY <1>1, <1>2, <2>2
    <2> QED BY <2>1, <2>2
  <1>7. CASE Tail(idequeue) = <<>>
    <2>1. disk' = disk
      BY <1>1, <1>7
    <2>2. disk' \in [Blocks -> Values]
      BY <2>1 DEF IInv, TypeOK
    <2> QED BY <1>1, <1>2, <1>3, <1>4, <1>5, <1>6, <1>7, <2>1, <2>2
  <1>8. CASE Tail(idequeue) # <<>>
    <2> DEFINE c == idequeue[2]
    <2>1. 2 \in 1 .. n
      <3>1. Tail(idequeue) \in Seq(Bufs) /\ Len(Tail(idequeue)) = n - 1
        BY <1>2, HeadTailProperties
      <3>2. Len(Tail(idequeue)) \in Nat \ {0}
        BY <1>8, <3>1, EmptySeq
      <3> QED BY <1>2, <3>1, <3>2
    <2>2. c \in Bufs /\ c # b
      BY <1>2, <2>1, ElementOfSeq DEF IInv, QueueOK
    <2>3. blockno[c] \in Blocks
      <3>1. PICK q \in Users : at[q] = "disk_sleep" /\ mine[q] = c
        BY <2>1 DEF IInv, QueueOK
      <3> QED BY <3>1, InCall
    <2>4. disk' = Started(c, disk)
      BY <1>1, <1>8
    <2> HIDE DEF c
    <2>5. /\ disk' \in [Blocks -> Values]
          /\ dirty[c] => content[c] = disk'[blockno[c]]
          /\ \A k \in Blocks : k # blockno[c] \/ ~dirty[c] => disk'[k] = disk[k]
          /\ \A x \in Bufs \ {c} : blockno[x] # Nobody => disk'[blockno[x]] = disk[blockno[x]]
      BY <2>2, <2>3, <2>4, StartedDisk
    <2>6. \A x \in Bufs : blockno[x] # Nobody /\ (x = b \/ ~dirty[x]) =>
             disk'[blockno[x]] = disk[blockno[x]]
      BY <2>2, <2>3, <2>5
    <2> QED BY <1>1, <1>2, <1>3, <1>4, <1>5, <1>6, <2>2, <2>5, <2>6 DEF c
  <1> QED BY <1>7, <1>8

LEMMA StepIdeintr ==
    ASSUME IInv, Ideintr
    PROVE  IInv'
  <1> DEFINE b == idequeue[1]
             n == Len(idequeue)
  <1>1. PICK p \in Users :
             /\ at[p] = "disk_sleep" /\ mine[p] = b /\ b \in Bufs /\ blockno[b] \in Blocks
             /\ at' = [at EXCEPT ![p] = "disk_awake"]
             /\ valid' = [valid EXCEPT ![b] = TRUE] /\ dirty' = [dirty EXCEPT ![b] = FALSE]
             /\ content' = [content EXCEPT ![b] = disk[blockno[b]]]
             /\ disk' \in [Blocks -> Values]
             /\ \A x \in Bufs : blockno[x] # Nobody /\ (x = b \/ ~dirty[x]) =>
                   disk'[blockno[x]] = disk[blockno[x]]
             /\ idequeue' = Tail(idequeue) /\ busy' = (idequeue' # <<>>)
             /\ idequeue' # <<>> =>
                   /\ idequeue[2] \in Bufs \ {b}
                   /\ dirty[idequeue[2]] =>
                         content[idequeue[2]] = disk'[blockno[idequeue[2]]]
             /\ UNCHANGED <<blockno, refcnt, lru, locked, mine>>
    BY IdeintrFacts
  <1>2. /\ idequeue # <<>> /\ n \in Nat \ {0} /\ idequeue \in Seq(Bufs)
    BY QueueHead DEF IInv, TypeOK, Ideintr
  <1>3. /\ idequeue' \in Seq(Bufs) /\ Len(idequeue') = n - 1
        /\ \A i \in 1 .. n - 1 : idequeue'[i] = idequeue[i + 1] /\ i + 1 \in 1 .. n /\ i + 1 # 1
    BY <1>1, <1>2, HeadTailProperties
  <1>4. \A i \in 2 .. n : i - 1 \in 1 .. n - 1 /\ idequeue'[i - 1] = idequeue[i]
    <2>1. \A i \in 2 .. n : i - 1 \in 1 .. n - 1 /\ (i - 1) + 1 = i
      BY <1>2
    <2> QED BY <1>3, <2>1
  <1>5. at'[p] = "disk_awake" /\ \A q \in Users \ {p} : at'[q] = at[q]
    BY <1>1 DEF IInv, TypeOK
  <1>6. /\ valid'[b] = TRUE /\ dirty'[b] = FALSE /\ content'[b] = disk[blockno[b]]
        /\ \A x \in Bufs \ {b} : valid'[x] = valid[x] /\ dirty'[x] = dirty[x] /\ content'[x] = content[x]
    BY <1>1 DEF IInv, TypeOK
  <1>7. \A q \in Users : mine[q] = b /\ at[q] \in Holding => q = p
    BY <1>1, Holder DEF Holding
  <1>8. blockno[b] # Nobody
    BY <1>1, CacheAssumption
  <1>9. busy' \in BOOLEAN /\ (busy' <=> idequeue' # <<>>)
    BY <1>1
  <1> HIDE DEF b, n
  <1>10. TypeOK'
    <2>1. disk[blockno[b]] \in Values
      BY <1>1 DEF IInv, TypeOK
    <2> QED BY <1>1, <1>3, <1>9, <2>1 DEF IInv, TypeOK
  <1>11. OneBuffer' /\ RefsOK'
    BY <1>1 DEF IInv, OneBuffer, RefsOK, Callers
  <1>12. UsesOK'
    BY <1>1, <1>5 DEF IInv, UsesOK
  <1>13. LocksOK'
    <2>1. \A q \in Users : at'[q] \in Holding <=> at[q] \in Holding
      BY <1>1, <1>5 DEF Holding
    <2> QED BY <1>1, <2>1, LockHeld DEF IInv, LocksOK
  <1>14. QueueOK'
    <2>1. \A i, j \in 1 .. n - 1 : idequeue'[i] = idequeue'[j] => i = j
      <3>1. \A i, j \in 1 .. n : idequeue[i] = idequeue[j] => i = j
        BY DEF IInv, QueueOK, n
      <3>2. \A i, j \in 1 .. n - 1 : i + 1 = j + 1 => i = j
        BY <1>2
      <3> QED BY <1>3, <3>1, <3>2
    <2>2. \A i \in 1 .. n - 1 : \E q \in Users : at'[q] = "disk_sleep" /\ mine'[q] = idequeue'[i]
      <3> SUFFICES ASSUME NEW i \in 1 .. n - 1
                   PROVE  \E q \in Users : at'[q] = "disk_sleep" /\ mine'[q] = idequeue'[i]
        OBVIOUS
      <3>1. i + 1 \in 1 .. n /\ i + 1 # 1 /\ 1 \in 1 .. n
        BY <1>2, <1>3
      <3>2. PICK q \in Users : at[q] = "disk_sleep" /\ mine[q] = idequeue[i + 1]
        BY <3>1 DEF IInv, QueueOK, n
      <3>3. q # p
        BY <1>1, <3>1, <3>2 DEF IInv, QueueOK, n, b
      <3> QED BY <1>1, <1>3, <1>5, <3>2, <3>3
    <2>3. \A q \in Users : at'[q] = "disk_sleep" => \E i \in 1 .. n - 1 : idequeue'[i] = mine'[q]
      <3> SUFFICES ASSUME NEW q \in Users, at'[q] = "disk_sleep"
                   PROVE  \E i \in 1 .. n - 1 : idequeue'[i] = mine'[q]
        OBVIOUS
      <3>1. q # p /\ at[q] = "disk_sleep"
        BY <1>5
      <3>2. PICK i \in 1 .. n : idequeue[i] = mine[q]
        BY <3>1 DEF IInv, QueueOK, n
      <3>3. mine[q] # b
        BY <1>7, <3>1 DEF Holding
      <3>4. i # 1
        BY <3>2, <3>3 DEF b
      <3>5. i \in 2 .. n
        BY <1>2, <3>4
      <3> QED BY <1>1, <1>4, <3>2, <3>5
    <2> QED BY <1>3, <1>9, <2>1, <2>2, <2>3 DEF QueueOK
  <1>15. FlagsOK'
    <2>1. \A x \in Bufs : (dirty'[x] => valid'[x]) /\ (valid'[x] => blockno'[x] # Nobody)
      BY <1>1, <1>6, <1>8 DEF IInv, FlagsOK
    <2>2. ASSUME NEW q \in Users
          PROVE  /\ at'[q] \in {"iderw", "disk_sleep"} => ~valid'[mine'[q]] \/ dirty'[mine'[q]]
                 /\ at'[q] \in {"held", "disk_awake"} => valid'[mine'[q]]
                 /\ at'[q] = "disk_awake" => ~dirty'[mine'[q]]
      <3>1. CASE q = p
        BY <1>1, <1>5, <1>6, <3>1
      <3>2. CASE q # p /\ at[q] \in Holding
        <4>1. at'[q] = at[q] /\ mine[q] \in Bufs \ {b}
          BY <1>5, <1>7, <3>2, InCall DEF Holding
        <4> QED BY <1>1, <1>6, <4>1 DEF IInv, FlagsOK
      <3>3. CASE q # p /\ at[q] \notin Holding
        BY <1>5, <3>3 DEF Holding
      <3> QED BY <3>1, <3>2, <3>3
    <2> QED BY <2>1, <2>2 DEF FlagsOK
  <1>16. DiskOK'
    <2>1. ASSUME NEW x \in Bufs, valid'[x], ~dirty'[x] PROVE content'[x] = disk'[blockno'[x]]
      <3>1. CASE x = b
        BY <1>1, <1>6, <1>8, <3>1
      <3>2. CASE x # b
        <4>1. valid[x] /\ ~dirty[x] /\ content'[x] = content[x] /\ blockno[x] # Nobody
          BY <1>6, <2>1, <3>2 DEF IInv, FlagsOK
        <4> QED BY <1>1, <4>1 DEF IInv, DiskOK
      <3> QED BY <3>1, <3>2
    <2>2. ASSUME busy', dirty'[idequeue'[1]]
          PROVE  content'[idequeue'[1]] = disk'[blockno'[idequeue'[1]]]
      <3>1. idequeue' # <<>>
        BY <1>9, <2>2
      <3>2. Len(idequeue') \in Nat \ {0}
        BY <1>3, <3>1, EmptySeq
      <3>3. idequeue'[1] = idequeue[2]
        BY <1>2, <1>3, <3>2
      <3> QED BY <1>1, <1>6, <2>2, <3>1, <3>3
    <2> QED BY <2>1, <2>2 DEF DiskOK
  <1>17. PanicOK'
    <2>1. BcacheFree' <=> BcacheFree
      BY <1>1, <1>5 DEF BcacheFree
    <2> QED BY <1>1, <1>6, <2>1 DEF IInv, PanicOK
  <1> QED BY <1>10, <1>11, <1>12, <1>13, <1>14, <1>15, <1>16, <1>17 DEF IInv

LEMMA StepBrelse ==
    ASSUME IInv, NEW p \in Users, Brelse(p)
    PROVE  IInv'
  <1> DEFINE b == mine[p]
  <1>1. /\ at[p] = "held" /\ locked' = [locked EXCEPT ![b] = Nobody]
        /\ at' = Wake("lock_sleep", b, "acquire", [at EXCEPT ![p] = "brelse"])
        /\ UNCHANGED <<blockno, refcnt, lru, valid, dirty, content, disk, idequeue, busy, mine>>
    BY DEF Brelse, Set, meta, flags, ide
  <1>2. b \in Bufs /\ blockno[b] \in Blocks /\ b # Nobody
    BY <1>1, InCall
  <1>3. locked[b] = p /\ \A q \in Users : mine[q] = b /\ at[q] \in Holding => q = p
    BY <1>1, Holder DEF Holding
  <1>4. /\ at'[p] = "brelse" /\ at' \in [Users -> {at'[q] : q \in Users}]
        /\ \A q \in Users \ {p} :
              at'[q] = IF at[q] = "lock_sleep" /\ mine[q] = b THEN "acquire" ELSE at[q]
    BY <1>1 DEF Wake, IInv, TypeOK
  <1> HIDE DEF b
  <1>5. /\ locked'[b] = Nobody /\ \A x \in Bufs \ {b} : locked'[x] = locked[x]
    BY <1>1, <1>2 DEF IInv, TypeOK
  <1>6. TypeOK'
    <2>1. at' \in [Users -> {"idle", "acquire", "lock_sleep", "iderw", "disk_sleep", "disk_awake",
                             "held", "brelse", "panic"}]
      BY <1>4 DEF IInv, TypeOK
    <2> QED BY <1>1, <2>1 DEF IInv, TypeOK
  <1>7. OneBuffer' /\ RefsOK' /\ DiskOK'
    BY <1>1 DEF IInv, OneBuffer, RefsOK, Callers, DiskOK
  <1>8. UsesOK'
    BY <1>1, <1>2, <1>4 DEF IInv, UsesOK, b
  <1>9. \A q \in Users : at'[q] \in Holding <=> at[q] \in Holding /\ q # p
    BY <1>4 DEF Holding
  <1>10. \A q \in Users \ {p} : at[q] \in Holding => at'[q] = at[q]
    BY <1>4 DEF Holding
  <1>11. LocksOK'
    <2>1. \A q \in Users : at'[q] \in Holding => locked'[mine'[q]] = q
      <3> SUFFICES ASSUME NEW q \in Users, at'[q] \in Holding PROVE locked'[mine'[q]] = q
        OBVIOUS
      <3>1. at[q] \in Holding /\ q # p
        BY <1>9
      <3>2. mine[q] \in Bufs \ {b} /\ locked[mine[q]] = q
        BY <1>3, <3>1, InCall, Holder DEF Holding
      <3> QED BY <1>1, <1>5, <3>2
    <2>2. \A x \in Bufs :
             locked'[x] # Nobody => mine'[locked'[x]] = x /\ at'[locked'[x]] \in Holding
      <3> SUFFICES ASSUME NEW x \in Bufs, locked'[x] # Nobody
                   PROVE  mine'[locked'[x]] = x /\ at'[locked'[x]] \in Holding
        OBVIOUS
      <3>1. x # b /\ locked'[x] = locked[x]
        BY <1>5
      <3>2. locked[x] \in Users /\ mine[locked[x]] = x /\ at[locked[x]] \in Holding
        BY <3>1, LockHeld
      <3>3. locked[x] # p
        BY <3>1, <3>2 DEF b
      <3> QED BY <1>1, <1>9, <3>1, <3>2, <3>3
    <2> QED BY <2>1, <2>2 DEF LocksOK
  <1>12. QueueOK'
    <2>1. \A q \in Users : at'[q] = "disk_sleep" <=> at[q] = "disk_sleep"
      BY <1>1, <1>4
    <2> QED BY <1>1, <2>1 DEF IInv, QueueOK
  <1>13. FlagsOK'
    <2>1. \A q \in Users : at'[q] \in Holding => at'[q] = at[q]
      BY <1>9, <1>10
    <2> QED BY <1>1, <2>1 DEF IInv, FlagsOK, Holding
  <1>14. PanicOK'
    <2>1. BcacheFree' <=> BcacheFree
      BY <1>1, <1>4 DEF BcacheFree
    <2> QED BY <1>1, <2>1 DEF IInv, PanicOK
  <1> QED BY <1>6, <1>7, <1>8, <1>11, <1>12, <1>13, <1>14 DEF IInv

LEMMA StepBrelseRef ==
    ASSUME IInv, NEW p \in Users, BrelseRef(p)
    PROVE  IInv'
  <1> DEFINE b == mine[p]
  <1>1. /\ at[p] = "brelse" /\ BcacheFree
        /\ refcnt' = [refcnt EXCEPT ![b] = refcnt[b] - 1]
        /\ lru' = IF refcnt'[b] = 0 THEN MoveToHead(b) ELSE lru
        /\ at' = [at EXCEPT ![p] = "idle"] /\ mine' = [mine EXCEPT ![p] = Nobody]
        /\ UNCHANGED <<blockno, valid, dirty, content, locked, ide>>
    BY DEF BrelseRef, LessRef, Set, flags
  <1>2. b \in Bufs
    BY <1>1, InCall
  <1> HIDE DEF b
  <1>3. RefsOK' /\ refcnt' \in [Bufs -> Nat]
    BY <1>1, <1>2, CallerGone DEF IInv, b
  <1>4. lru' \in [Bufs -> Bufs] /\ \A x \in Bufs : \E i \in Bufs : lru'[i] = x
    <2>1. CASE lru' = MoveToHead(b)
      BY <1>2, <2>1, MoveToHeadType DEF IInv
    <2>2. CASE lru' = lru
      BY <2>2 DEF IInv, TypeOK
    <2> QED BY <1>1, <2>1, <2>2
  <1>5. TypeOK'
    BY <1>1, <1>3, <1>4 DEF IInv, TypeOK, ide
  <1>6. OneBuffer' /\ LocksOK' /\ QueueOK' /\ FlagsOK' /\ DiskOK'
    BY <1>1, MoveOutside DEF Outside
  <1>7. /\ at'[p] = "idle" /\ mine'[p] = Nobody
        /\ \A q \in Users \ {p} : at'[q] = at[q] /\ mine'[q] = mine[q]
    BY <1>1 DEF IInv, TypeOK
  <1>8. UsesOK'
    BY <1>1, <1>7 DEF IInv, UsesOK
  <1>9. PanicOK'
    BY <1>1, <1>7 DEF PanicOK, BcacheFree
  <1> QED BY <1>3, <1>5, <1>6, <1>8, <1>9 DEF IInv

LEMMA InitIInv == Init => IInv
  <1> SUFFICES ASSUME Init PROVE IInv
    OBVIOUS
  <1>1. (CHOOSE v \in Values : TRUE) \in Values
    BY CacheAssumption
  <1>2. lru \in [Bufs -> Bufs] /\ \A b \in Bufs : \E i \in Bufs : lru[i] = b
    <2>1. lru = [i \in Bufs |-> NBUF + 1 - i] /\ \A i \in Bufs : NBUF + 1 - i \in Bufs
      BY CacheAssumption DEF Init, Bufs
    <2>2. \A i \in Bufs : NBUF + 1 - (NBUF + 1 - i) = i
      BY CacheAssumption DEF Bufs
    <2>3. ASSUME NEW b \in Bufs PROVE \E i \in Bufs : lru[i] = b
      <3>1. NBUF + 1 - b \in Bufs /\ lru[NBUF + 1 - b] = b
        BY <2>1, <2>2
      <3> QED BY <3>1
    <2> QED BY <2>1, <2>3
  <1>3. idequeue = <<>> /\ idequeue \in Seq(Bufs) /\ Len(idequeue) = 0
    BY EmptySeq DEF Init
  <1>4. TypeOK
    BY <1>1, <1>2, <1>3 DEF Init, TypeOK
  <1>5. OneBuffer /\ UsesOK /\ LocksOK /\ FlagsOK /\ DiskOK /\ PanicOK
    BY CacheAssumption DEF Init, OneBuffer, UsesOK, LocksOK, FlagsOK, DiskOK, PanicOK, BcacheFree, Holding
  <1>6. RefsOK
    <2>1. \A b \in Bufs : Callers(b) = {}
      BY BufNotNobody DEF Init, Callers
    <2> QED BY <2>1, FS_EmptySet DEF Init, RefsOK
  <1>7. QueueOK
    BY <1>3 DEF Init, QueueOK
  <1> QED BY <1>4, <1>5, <1>6, <1>7 DEF IInv

LEMMA StepIInv == IInv /\ [Next]_vars => IInv'
  <1> SUFFICES ASSUME IInv, [Next]_vars PROVE IInv'
    OBVIOUS
  <1>1. CASE UNCHANGED vars
    <2>1. UNCHANGED <<blockno, refcnt, lru, valid, dirty, content, locked, disk, idequeue, busy, at, mine>>
      BY <1>1 DEF vars, meta, flags, ide
    <2>2. TypeOK' /\ RefsOK'
      BY <2>1 DEF IInv, TypeOK, RefsOK, Callers
    <2>3. OneBuffer' /\ UsesOK' /\ LocksOK'
      BY <2>1 DEF IInv, OneBuffer, UsesOK, LocksOK
    <2>4. QueueOK' /\ FlagsOK' /\ DiskOK'
      BY <2>1 DEF IInv, QueueOK, FlagsOK, DiskOK
    <2>5. PanicOK'
      BY <2>1 DEF IInv, PanicOK, BcacheFree
    <2> QED BY <2>2, <2>3, <2>4, <2>5 DEF IInv
  <1>2. ASSUME NEW p \in Users, UserRest(p) \/ Brelse(p) PROVE IInv'
    BY <1>2, StepAcquireSleep, StepIderw, StepIderwAwake, StepBrelseRef, StepBrelse DEF UserRest
  <1> QED BY <1>1, <1>2, StepIdeintr, StepBgetHit, StepBgetMiss, StepChange DEF Next

-----------------------------------------------------------------------------
(***************************************************************************)
(* Buffers and requests are accounted for exactly.                         *)
(***************************************************************************)

LEMMA AtMostOne ==
    ASSUME NEW S, NEW x, S \subseteq {x}
    PROVE  Cardinality(S) <= 1
  <1>1. S = {} \/ S = {x}
    OBVIOUS
  <1>2. Cardinality({}) = 0 /\ Cardinality({x}) = 1
    BY FS_EmptySet, FS_Singleton
  <1>3. Cardinality(S) = 0 \/ Cardinality(S) = 1
    BY <1>1, <1>2
  <1> QED BY <1>3

\* The buffer of a cached block, and who may use its contents.
LEMMA BufferOf ==
    ASSUME IInv, NEW b \in Bufs, blockno[b] \in Blocks
    PROVE  /\ Cached(blockno[b]) = {b}
           /\ UsersOf(blockno[b]) = IF valid[b] /\ locked[b] # Nobody THEN {locked[b]} ELSE {}
  <1>1. Cached(blockno[b]) = {b}
    BY CacheAssumption DEF IInv, OneBuffer, Cached
  <1>2. UsersOf(blockno[b]) = {p \in Users : mine[p] = b /\ locked[b] = p /\ valid[b]}
    BY <1>1 DEF UsersOf
  <1>3. CASE locked[b] # Nobody
    <2>1. locked[b] \in Users /\ mine[locked[b]] = b
      BY <1>3, LockHeld
    <2> QED BY <1>1, <1>2, <1>3, <2>1
  <1>4. CASE locked[b] = Nobody
    <2>1. \A p \in Users : locked[b] # p
      BY <1>4, CacheAssumption
    <2> QED BY <1>1, <1>2, <1>4, <2>1
  <1> QED BY <1>3, <1>4

LEMMA NoBuffer ==
    ASSUME NEW k, \A b \in Bufs : blockno[b] # k
    PROVE  Cached(k) = {} /\ UsersOf(k) = {}
  BY DEF Cached, UsersOf

LEMMA Exact == IInv => BuffersExact
  <1> SUFFICES ASSUME IInv PROVE BuffersExact
    OBVIOUS
  <1>1. ASSUME NEW k \in Blocks PROVE Cardinality(Cached(k)) <= 1 /\ Cardinality(UsersOf(k)) <= 1
    <2>1. CASE \E b \in Bufs : blockno[b] = k
      <3>1. PICK b \in Bufs : blockno[b] = k
        BY <2>1
      <3>2. Cached(k) \subseteq {b} /\ UsersOf(k) \subseteq {locked[b]}
        BY <3>1, BufferOf
      <3> QED BY <3>2, AtMostOne
    <2>2. CASE ~\E b \in Bufs : blockno[b] = k
      BY <2>2, NoBuffer, FS_EmptySet
    <2> QED BY <2>1, <2>2
  <1>2. ASSUME NEW b \in Bufs
        PROVE  /\ refcnt[b] = Cardinality({p \in Users : mine[p] = b})
               /\ locked[b] # Nobody <=>
                     \E p \in Users :
                        mine[p] = b /\ at[p] \in {"iderw", "disk_sleep", "disk_awake", "held"}
               /\ locked[b] # Nobody => mine[locked[b]] = b
               /\ ~BcacheFree => dirty[b] \/ \E p \in Users : mine[p] = b
    <2>1. refcnt[b] = Cardinality({p \in Users : mine[p] = b})
      BY DEF IInv, RefsOK, Callers
    <2>2. locked[b] # Nobody =>
             /\ mine[locked[b]] = b
             /\ \E p \in Users : mine[p] = b /\ at[p] \in Holding
      BY LockHeld
    <2>3. (\E p \in Users : mine[p] = b /\ at[p] \in Holding) => locked[b] # Nobody
      BY Holder, CacheAssumption
    <2>4. ~BcacheFree => dirty[b] \/ \E p \in Users : mine[p] = b
      BY DEF IInv, PanicOK
    <2> QED BY <2>1, <2>2, <2>3, <2>4 DEF Holding
  <1>3. ASSUME NEW b \in Bufs
        PROVE  Cardinality({i \in 1 .. Len(idequeue) : idequeue[i] = b})
               = Cardinality({p \in Users : mine[p] = b /\ at[p] = "disk_sleep"})
    <2> DEFINE I == {i \in 1 .. Len(idequeue) : idequeue[i] = b}
               P == {p \in Users : mine[p] = b /\ at[p] = "disk_sleep"}
    <2>1. CASE P = {}
      <3>1. I = {}
        BY <2>1 DEF IInv, QueueOK
      <3> QED BY <2>1, <3>1
    <2>2. CASE P # {}
      <3>1. PICK p \in Users : mine[p] = b /\ at[p] = "disk_sleep"
        BY <2>2
      <3>2. P = {p}
        BY <3>1, Holder DEF Holding
      <3>3. PICK i \in 1 .. Len(idequeue) : idequeue[i] = b
        BY <3>1 DEF IInv, QueueOK
      <3>4. I = {i}
        BY <3>3 DEF IInv, QueueOK
      <3> QED BY <3>2, <3>4, FS_Singleton
    <2> QED BY <2>1, <2>2
  <1> QED BY <1>1, <1>2, <1>3 DEF BuffersExact

\* Buffers, list, queue and calls keep their types.
THEOREM CacheTypes == Spec => []TypeOK
  <1>1. IInv => TypeOK
    BY DEF IInv
  <1> QED BY <1>1, InitIInv, StepIInv, PTL DEF Spec

\* One buffer for a block, exact reference counts and sleep locks, one request
\* for every process asleep in iderw, and a panic of bget only when no buffer
\* can be had.
THEOREM CacheBuffersExact == Spec => []BuffersExact
  BY Exact, InitIInv, StepIInv, PTL DEF Spec

-----------------------------------------------------------------------------
(***************************************************************************)
(* The refinement of BlockStore.                                           *)
(***************************************************************************)

\* The refinement mapping: the content and the user of block k.
ContentAt(k) ==
    IF \E b \in Cached(k) : valid[b]
    THEN content[CHOOSE b \in Cached(k) : valid[b]] ELSE disk[k]
UserAt(k) == IF UsersOf(k) = {} THEN Nobody ELSE CHOOSE p \in UsersOf(k) : TRUE

\* What the mapping says of a cached block and of one that is not.
Mapped ==
    /\ \A b \in Bufs : blockno[b] # Nobody =>
          /\ blockno[b] \in Blocks
          /\ ContentAt(blockno[b]) = IF valid[b] THEN content[b] ELSE disk[blockno[b]]
          /\ UserAt(blockno[b]) = IF valid[b] THEN locked[b] ELSE Nobody
    /\ \A k \in Blocks : (\A b \in Bufs : blockno[b] # k) => ContentAt(k) = disk[k] /\ UserAt(k) = Nobody

LEMMA MappingValue == IInv => Mapped
  <1> SUFFICES ASSUME IInv PROVE Mapped
    OBVIOUS
  <1>1. ASSUME NEW b \in Bufs, blockno[b] # Nobody
        PROVE  /\ blockno[b] \in Blocks
               /\ ContentAt(blockno[b]) = IF valid[b] THEN content[b] ELSE disk[blockno[b]]
               /\ UserAt(blockno[b]) = IF valid[b] THEN locked[b] ELSE Nobody
    <2>1. blockno[b] \in Blocks
      BY <1>1 DEF IInv, TypeOK
    <2>2. /\ Cached(blockno[b]) = {b}
          /\ UsersOf(blockno[b]) = IF valid[b] /\ locked[b] # Nobody THEN {locked[b]} ELSE {}
      BY <2>1, BufferOf
    <2>3. ContentAt(blockno[b]) = IF valid[b] THEN content[b] ELSE disk[blockno[b]]
      BY <2>2 DEF ContentAt
    <2>4. UserAt(blockno[b]) = IF valid[b] THEN locked[b] ELSE Nobody
      BY <2>2 DEF UserAt
    <2> QED BY <2>1, <2>3, <2>4
  <1>2. ASSUME NEW k \in Blocks, \A b \in Bufs : blockno[b] # k
        PROVE  ContentAt(k) = disk[k] /\ UserAt(k) = Nobody
    <2>1. Cached(k) = {} /\ UsersOf(k) = {}
      BY <1>2, NoBuffer
    <2> QED BY <2>1 DEF ContentAt, UserAt
  <1> QED BY <1>1, <1>2 DEF Mapped

LEMMA MappingNext == IInv' => Mapped'
  BY MappingValue, PTL

\* Steps of the store, told block by block.
LEMMA StoreStutters ==
    ASSUME \A k \in Blocks : ContentAt(k)' = ContentAt(k) /\ UserAt(k)' = UserAt(k)
    PROVE  [Store!Next]_(Store!vars)
  <1>1. [k \in Blocks |-> ContentAt(k)]' = [k \in Blocks |-> ContentAt(k)]
    OBVIOUS
  <1>2. [k \in Blocks |-> UserAt(k)]' = [k \in Blocks |-> UserAt(k)]
    OBVIOUS
  <1> QED BY <1>1, <1>2 DEF Store!vars, ContentAt, UserAt

\* The user of block k becomes q: Bread or Brelse of the store.
LEMMA StoreUserChanges ==
    ASSUME NEW p \in Users, NEW k \in Blocks,
           \/ UserAt(k) = Nobody /\ UserAt(k)' = p
           \/ UserAt(k) = p /\ UserAt(k)' = Nobody,
           \A j \in Blocks : ContentAt(j)' = ContentAt(j),
           \A j \in Blocks \ {k} : UserAt(j)' = UserAt(j)
    PROVE  Store!Next
  <1> DEFINE C == [j \in Blocks |-> ContentAt(j)]
             U == [j \in Blocks |-> UserAt(j)]
             D == [j \in Blocks |-> ContentAt(j)']
             V == [j \in Blocks |-> UserAt(j)']
  <1>1. D = C /\ V = [U EXCEPT ![k] = UserAt(k)'] /\ U[k] = UserAt(k)
    OBVIOUS
  <1>2. CASE UserAt(k) = Nobody /\ UserAt(k)' = p
    <2>1. Store!Bread(p, k)
      BY <1>1, <1>2 DEF Store!Bread, ContentAt, UserAt
    <2> QED BY <2>1 DEF Store!Next
  <1>3. CASE UserAt(k) = p /\ UserAt(k)' = Nobody
    <2>1. Store!Brelse(p, k)
      BY <1>1, <1>3 DEF Store!Brelse, ContentAt, UserAt
    <2> QED BY <2>1 DEF Store!Next
  <1> QED BY <1>2, <1>3

LEMMA StoreChanges ==
    ASSUME NEW p \in Users, NEW k \in Blocks, NEW v \in Values,
           UserAt(k) = p, ContentAt(k)' = v,
           \A j \in Blocks \ {k} : ContentAt(j)' = ContentAt(j),
           \A j \in Blocks : UserAt(j)' = UserAt(j)
    PROVE  Store!Next
  <1> DEFINE C == [j \in Blocks |-> ContentAt(j)]
             U == [j \in Blocks |-> UserAt(j)]
             D == [j \in Blocks |-> ContentAt(j)']
             V == [j \in Blocks |-> UserAt(j)']
  <1>1. V = U /\ D = [C EXCEPT ![k] = v] /\ U[k] = p
    OBVIOUS
  <1>2. Store!Change(p, k, v)
    BY <1>1 DEF Store!Change, ContentAt, UserAt
  <1> QED BY <1>2 DEF Store!Next

\* Nothing the mapping depends on changes.
LEMMA RefineQuiet ==
    ASSUME IInv, IInv', UNCHANGED <<blockno, valid, content, locked, disk>>
    PROVE  [Store!Next]_(Store!vars)
  <1>1. Mapped /\ Mapped'
    BY MappingValue, MappingNext
  <1>2. ASSUME NEW k \in Blocks PROVE ContentAt(k)' = ContentAt(k) /\ UserAt(k)' = UserAt(k)
    <2>1. k # Nobody
      BY CacheAssumption
    <2>2. CASE \E b \in Bufs : blockno[b] = k
      BY <1>1, <2>1, <2>2 DEF Mapped
    <2>3. CASE \A b \in Bufs : blockno[b] # k
      BY <1>1, <2>3 DEF Mapped
    <2> QED BY <2>2, <2>3
  <1> QED BY <1>2, StoreStutters

LEMMA RefineMiss ==
    ASSUME IInv, IInv', NEW p \in Users, NEW k \in Blocks, BgetMiss(p, k)
    PROVE  [Store!Next]_(Store!vars)
  <1>1. UNCHANGED <<content, locked, disk>> /\ \A x \in Bufs : blockno[x] # k
    BY DEF BgetMiss, ide, Cached
  <1>2. Mapped /\ Mapped'
    BY MappingValue, MappingNext
  <1>3. CASE \E x \in Bufs : Unused(x)
    <2> DEFINE b == Victim
    <2>1. b \in Bufs /\ refcnt[b] = 0 /\ ~dirty[b]
      BY <1>3, VictimUnused DEF IInv, Unused
    <2>2. blockno' = [blockno EXCEPT ![b] = k] /\ valid' = [valid EXCEPT ![b] = FALSE]
      BY <1>3 DEF BgetMiss, Set
    <2> HIDE DEF b
    <2>3. locked[b] = Nobody
      <3>1. \A q \in Users : mine[q] # b
        BY <2>1, UnusedNoCaller DEF IInv
      <3> QED BY <2>1, <3>1, LockHeld
    <2>4. /\ blockno'[b] = k /\ valid'[b] = FALSE
          /\ \A x \in Bufs \ {b} : blockno'[x] = blockno[x] /\ valid'[x] = valid[x]
      BY <2>1, <2>2 DEF IInv, TypeOK
    <2>5. valid[b] => content[b] = disk[blockno[b]] /\ blockno[b] # Nobody
      BY <2>1 DEF IInv, DiskOK, FlagsOK
    <2>6. ASSUME NEW j \in Blocks PROVE ContentAt(j)' = ContentAt(j) /\ UserAt(j)' = UserAt(j)
      <3>0. j # Nobody
        BY CacheAssumption
      <3>1. CASE j = k
        <4>1. ContentAt(k) = disk[k] /\ UserAt(k) = Nobody
          BY <1>1, <1>2 DEF Mapped
        <4>2. ContentAt(k)' = disk[k] /\ UserAt(k)' = Nobody
          BY <1>1, <1>2, <2>1, <2>4, <3>0, <3>1 DEF Mapped
        <4> QED BY <3>1, <4>1, <4>2
      <3>2. CASE j # k /\ blockno[b] = j
        <4>1. ContentAt(j) = disk[j] /\ UserAt(j) = Nobody
          BY <1>2, <2>1, <2>3, <2>5, <3>0, <3>2 DEF Mapped
        <4>2. \A x \in Bufs : blockno'[x] # j
          BY <2>1, <2>4, <3>0, <3>2 DEF IInv, OneBuffer
        <4>3. ContentAt(j)' = disk[j] /\ UserAt(j)' = Nobody
          BY <1>1, <1>2, <4>2 DEF Mapped
        <4> QED BY <4>1, <4>3
      <3>3. CASE j # k /\ blockno[b] # j /\ \E x \in Bufs : blockno[x] = j
        <4>1. PICK x \in Bufs : blockno[x] = j
          BY <3>3
        <4>2. x # b /\ blockno'[x] = j /\ valid'[x] = valid[x]
          BY <2>4, <3>3, <4>1
        <4> QED BY <1>1, <1>2, <3>0, <4>1, <4>2 DEF Mapped
      <3>4. CASE j # k /\ \A x \in Bufs : blockno[x] # j
        <4>1. \A x \in Bufs : blockno'[x] # j
          BY <2>4, <3>4
        <4> QED BY <1>1, <1>2, <3>4, <4>1 DEF Mapped
      <3> QED BY <3>1, <3>2, <3>3, <3>4
    <2> QED BY <2>6, StoreStutters
  <1>4. CASE ~\E x \in Bufs : Unused(x)
    <2>1. UNCHANGED <<blockno, valid>>
      BY <1>4 DEF BgetMiss, flags
    <2> QED BY <1>1, <2>1, RefineQuiet
  <1> QED BY <1>3, <1>4

\* A step at one buffer b leaves the other blocks of the store alone.
LEMMA OtherBlocks ==
    ASSUME Mapped, Mapped', NEW b \in Bufs, blockno[b] \in Blocks, UNCHANGED blockno,
           \A x \in Bufs \ {b} : valid'[x] = valid[x] /\ content'[x] = content[x] /\ locked'[x] = locked[x],
           \A x \in Bufs \ {b} : blockno[x] # Nobody /\ ~valid[x] => disk'[blockno[x]] = disk[blockno[x]],
           \A j \in Blocks : (\A x \in Bufs : blockno[x] # j) => disk'[j] = disk[j]
    PROVE  \A j \in Blocks \ {blockno[b]} : ContentAt(j)' = ContentAt(j) /\ UserAt(j)' = UserAt(j)
  <1> SUFFICES ASSUME NEW j \in Blocks, j # blockno[b]
               PROVE  ContentAt(j)' = ContentAt(j) /\ UserAt(j)' = UserAt(j)
    OBVIOUS
  <1>1. j # Nobody
    BY CacheAssumption
  <1>2. CASE \E x \in Bufs : blockno[x] = j
    <2>1. PICK x \in Bufs : blockno[x] = j
      BY <1>2
    <2>2. x # b /\ blockno'[x] = j
      BY <2>1
    <2> QED BY <1>1, <2>1, <2>2 DEF Mapped
  <1>3. CASE \A x \in Bufs : blockno[x] # j
    BY <1>3 DEF Mapped
  <1> QED BY <1>2, <1>3

LEMMA RefineAcquire ==
    ASSUME IInv, IInv', NEW p \in Users, AcquireSleep(p)
    PROVE  [Store!Next]_(Store!vars)
  <1>0. PICK b \in Bufs, k \in Blocks : b = mine[p] /\ k = blockno[b]
    BY InCall DEF AcquireSleep
  <1>1. at[p] = "acquire" /\ UNCHANGED <<blockno, valid, content, disk>>
    BY DEF AcquireSleep, meta, flags, ide
  <1>2. b \in Bufs /\ k = blockno[b] /\ blockno[b] \in Blocks
    BY <1>0
  <1>3. Mapped /\ Mapped' /\ k # Nobody
    BY <1>2, MappingValue, MappingNext, CacheAssumption
  <1>4. CASE locked[b] # Nobody
    <2>1. locked' = locked
      BY <1>0, <1>4 DEF AcquireSleep
    <2> QED BY <1>1, <2>1, RefineQuiet
  <1>5. CASE locked[b] = Nobody
    <2>1. locked' = [locked EXCEPT ![b] = p]
      BY <1>0, <1>5 DEF AcquireSleep, Set
    <2>2. locked'[b] = p /\ \A x \in Bufs \ {b} : locked'[x] = locked[x]
      BY <1>2, <2>1 DEF IInv, TypeOK
    <2>3. \A j \in Blocks \ {k} : ContentAt(j)' = ContentAt(j) /\ UserAt(j)' = UserAt(j)
      BY <1>1, <1>2, <1>3, <2>2, OtherBlocks
    <2>4. /\ ContentAt(k)' = ContentAt(k)
          /\ valid[b] => UserAt(k) = Nobody /\ UserAt(k)' = p
          /\ ~valid[b] => UserAt(k)' = UserAt(k)
      BY <1>1, <1>2, <1>3, <1>5, <2>2 DEF Mapped
    <2>5. CASE valid[b]
      BY <1>2, <2>3, <2>4, <2>5, StoreUserChanges
    <2>6. CASE ~valid[b]
      BY <2>3, <2>4, <2>6, StoreStutters
    <2> QED BY <2>5, <2>6
  <1> QED BY <1>4, <1>5

LEMMA RefineChange ==
    ASSUME IInv, IInv', NEW p \in Users, NEW v \in Values, Bwrite(p, v) \/ LogWrite(p, v)
    PROVE  Store!Next
  <1>0. PICK b \in Bufs, k \in Blocks : b = mine[p] /\ k = blockno[b]
    BY InCall DEF Bwrite, LogWrite
  <1>1. /\ at[p] = "held" /\ content' = [content EXCEPT ![b] = v]
        /\ UNCHANGED <<blockno, valid, locked, disk>>
    BY <1>0 DEF Bwrite, LogWrite, Set, meta, ide
  <1>2. b \in Bufs /\ k = blockno[b] /\ blockno[b] \in Blocks
    BY <1>0
  <1>3. Mapped /\ Mapped' /\ k # Nobody
    BY <1>2, MappingValue, MappingNext, CacheAssumption
  <1>4. valid[b] /\ locked[b] = p
    BY <1>0, <1>1, Holder DEF IInv, FlagsOK, Holding
  <1>5. content'[b] = v /\ \A x \in Bufs \ {b} : content'[x] = content[x]
    BY <1>1, <1>2 DEF IInv, TypeOK
  <1>6. \A j \in Blocks \ {k} : ContentAt(j)' = ContentAt(j) /\ UserAt(j)' = UserAt(j)
    BY <1>1, <1>2, <1>3, <1>5, OtherBlocks
  <1>7. ContentAt(k)' = v /\ UserAt(k) = p /\ UserAt(k)' = p
    BY <1>1, <1>2, <1>3, <1>4, <1>5 DEF Mapped
  <1>8. \A j \in Blocks : UserAt(j)' = UserAt(j)
    BY <1>6, <1>7
  <1> QED BY <1>2, <1>6, <1>7, <1>8, StoreChanges

LEMMA RefineBrelse ==
    ASSUME IInv, IInv', NEW p \in Users, Brelse(p)
    PROVE  Store!Next
  <1>0. PICK b \in Bufs, k \in Blocks : b = mine[p] /\ k = blockno[b]
    BY InCall DEF Brelse
  <1>1. /\ at[p] = "held" /\ locked' = [locked EXCEPT ![b] = Nobody]
        /\ UNCHANGED <<blockno, valid, content, disk>>
    BY <1>0 DEF Brelse, Set, meta, flags, ide
  <1>2. b \in Bufs /\ k = blockno[b] /\ blockno[b] \in Blocks
    BY <1>0
  <1>3. Mapped /\ Mapped' /\ k # Nobody
    BY <1>2, MappingValue, MappingNext, CacheAssumption
  <1>4. valid[b] /\ locked[b] = p
    BY <1>0, <1>1, Holder DEF IInv, FlagsOK, Holding
  <1>5. locked'[b] = Nobody /\ \A x \in Bufs \ {b} : locked'[x] = locked[x]
    BY <1>1, <1>2 DEF IInv, TypeOK
  <1>6. \A j \in Blocks \ {k} : ContentAt(j)' = ContentAt(j) /\ UserAt(j)' = UserAt(j)
    BY <1>1, <1>2, <1>3, <1>5, OtherBlocks
  <1>7. ContentAt(k)' = ContentAt(k) /\ UserAt(k) = p /\ UserAt(k)' = Nobody
    BY <1>1, <1>2, <1>3, <1>4, <1>5 DEF Mapped
  <1> QED BY <1>2, <1>6, <1>7, StoreUserChanges

\* A write that is started reaches the disk under a valid buffer, which is what
\* readers see: the store does not change.
LEMMA RefineIderw ==
    ASSUME IInv, IInv', NEW p \in Users, Iderw(p)
    PROVE  [Store!Next]_(Store!vars)
  <1>0. PICK b \in Bufs, k \in Blocks : b = mine[p] /\ k = blockno[b]
    BY InCall DEF Iderw
  <1>1. /\ at[p] = "iderw" /\ UNCHANGED <<blockno, valid, content, locked>>
        /\ disk' = disk \/ disk' = Started(b, disk)
    BY <1>0 DEF Iderw, meta, flags
  <1>2. b \in Bufs /\ k = blockno[b] /\ blockno[b] \in Blocks
    BY <1>0
  <1>3. Mapped /\ Mapped' /\ k # Nobody
    BY <1>2, MappingValue, MappingNext, CacheAssumption
  <1>4. CASE disk' = disk
    BY <1>1, <1>4, RefineQuiet
  <1>5. CASE disk' = Started(b, disk)
    <2>1. /\ \A j \in Blocks : j # k \/ ~dirty[b] => disk'[j] = disk[j]
          /\ \A x \in Bufs \ {b} : blockno[x] # Nobody => disk'[blockno[x]] = disk[blockno[x]]
      BY <1>2, <1>5, StartedDisk
    <2>2. \A j \in Blocks : (\A x \in Bufs : blockno[x] # j) => disk'[j] = disk[j]
      BY <1>2, <2>1
    <2>3. \A j \in Blocks \ {k} : ContentAt(j)' = ContentAt(j) /\ UserAt(j)' = UserAt(j)
      BY <1>1, <1>2, <1>3, <2>1, <2>2, OtherBlocks
    <2>4. ~valid[b] => disk'[k] = disk[k]
      BY <1>2, <2>1 DEF IInv, FlagsOK
    <2>5. ContentAt(k)' = ContentAt(k) /\ UserAt(k)' = UserAt(k)
      BY <1>1, <1>2, <1>3, <2>4 DEF Mapped
    <2> QED BY <2>3, <2>5, StoreStutters
  <1> QED BY <1>1, <1>4, <1>5

\* The end of a read is where the process gets the block; the end of a write
\* changes nothing the store shows.
LEMMA RefineIdeintr ==
    ASSUME IInv, IInv', Ideintr
    PROVE  [Store!Next]_(Store!vars)
  <1>0. PICK b \in Bufs, k \in Blocks : b = idequeue[1] /\ k = blockno[b]
    BY IdeintrFacts
  <1>1. PICK p \in Users :
             /\ at[p] = "disk_sleep" /\ mine[p] = b
             /\ valid' = [valid EXCEPT ![b] = TRUE]
             /\ content' = [content EXCEPT ![b] = disk[k]]
             /\ \A x \in Bufs : blockno[x] # Nobody /\ (x = b \/ ~dirty[x]) =>
                   disk'[blockno[x]] = disk[blockno[x]]
             /\ UNCHANGED <<blockno, locked>>
    BY <1>0, IdeintrFacts
  <1>2. Mapped /\ Mapped' /\ k # Nobody
    BY <1>0, MappingValue, MappingNext, CacheAssumption
  <1>3. locked[b] = p
    BY <1>1, Holder DEF Holding
  <1>4. busy /\ (dirty[b] => content[b] = disk[k])
    BY <1>0 DEF Ideintr, IInv, DiskOK
  <1>5. valid[b] => content[b] = disk[k]
    BY <1>0, <1>4 DEF IInv, DiskOK
  <1>6. \A j \in Blocks : (\A x \in Bufs : blockno[x] # j) => disk'[j] = disk[j]
    <2> SUFFICES ASSUME NEW j \in Blocks, \A x \in Bufs : blockno[x] # j PROVE disk'[j] = disk[j]
      OBVIOUS
    <2>1. CASE disk' = disk
      BY <2>1
    <2>2. CASE disk' # disk
      <3>1. Tail(idequeue) # <<>> /\ disk' = Started(idequeue[2], disk)
        BY <2>2 DEF Ideintr, NextStart
      <3>2. idequeue # <<>> /\ idequeue \in Seq(Bufs)
        BY <1>4, QueueHead DEF IInv, TypeOK
      <3>3. Tail(idequeue) \in Seq(Bufs) /\ Len(Tail(idequeue)) = Len(idequeue) - 1
        BY <3>2, HeadTailProperties
      <3>4. Len(Tail(idequeue)) \in Nat \ {0} /\ Len(idequeue) \in Nat
        BY <3>1, <3>2, <3>3, EmptySeq, LenProperties
      <3>5. 2 \in 1 .. Len(idequeue)
        BY <3>3, <3>4
      <3>6. idequeue[2] \in Bufs
        BY <3>2, <3>5, ElementOfSeq
      <3>7. disk'[j] = disk[j]
        BY <3>1, <3>6 DEF Started, Set, IInv, TypeOK
      <3> QED BY <3>7
    <2> QED BY <2>1, <2>2
  <1>7. /\ valid'[b] = TRUE /\ content'[b] = disk[k]
        /\ \A x \in Bufs \ {b} : valid'[x] = valid[x] /\ content'[x] = content[x]
    BY <1>1 DEF IInv, TypeOK
  <1>8. \A x \in Bufs \ {b} : blockno[x] # Nobody /\ ~valid[x] => disk'[blockno[x]] = disk[blockno[x]]
    BY <1>1 DEF IInv, FlagsOK
  <1>9. \A j \in Blocks \ {k} : ContentAt(j)' = ContentAt(j) /\ UserAt(j)' = UserAt(j)
    BY <1>0, <1>1, <1>2, <1>6, <1>7, <1>8, OtherBlocks
  <1>10. /\ ContentAt(k)' = ContentAt(k) /\ UserAt(k)' = p
         /\ UserAt(k) = IF valid[b] THEN p ELSE Nobody
    BY <1>0, <1>1, <1>2, <1>3, <1>5, <1>7 DEF Mapped
  <1>11. CASE valid[b]
    BY <1>9, <1>10, <1>11, StoreStutters
  <1>12. CASE ~valid[b]
    BY <1>1, <1>9, <1>10, <1>12, StoreUserChanges
  <1> QED BY <1>11, <1>12

LEMMA RefineStep ==
    ASSUME IInv, IInv', [Next]_vars
    PROVE  [Store!Next]_(Store!vars)
  <1>1. ASSUME NEW p \in Users, UserRest(p) \/ Brelse(p) PROVE [Store!Next]_(Store!vars)
    <2>1. CASE IderwAwake(p) \/ BrelseRef(p)
      BY <2>1, RefineQuiet DEF IderwAwake, BrelseRef, meta, flags, ide
    <2> QED BY <1>1, <2>1, RefineAcquire, RefineIderw, RefineBrelse DEF UserRest
  <1>2. ASSUME NEW p \in Users, NEW k \in Blocks, BgetHit(p, k) PROVE [Store!Next]_(Store!vars)
    BY <1>2, RefineQuiet DEF BgetHit, flags, ide
  <1>3. CASE UNCHANGED vars
    BY <1>3, RefineQuiet DEF vars, meta, flags, ide
  <1> QED BY <1>1, <1>2, <1>3, RefineMiss, RefineChange, RefineIdeintr DEF Next

LEMMA RefineInit == Init => Store!Init
  <1> SUFFICES ASSUME Init PROVE Store!Init
    OBVIOUS
  <1>1. \A k \in Blocks : \A b \in Bufs : blockno[b] # k
    BY CacheAssumption DEF Init
  <1>2. \A k \in Blocks : ContentAt(k) = disk[k] /\ UserAt(k) = Nobody
    BY <1>1, InitIInv, MappingValue DEF Mapped
  <1>3. \A k \in Blocks : disk[k] \in Values
    BY InitIInv DEF IInv, TypeOK
  <1>4. [k \in Blocks |-> ContentAt(k)] \in [Blocks -> Values]
    BY <1>2, <1>3
  <1>5. [k \in Blocks |-> UserAt(k)] = [k \in Blocks |-> Nobody]
    BY <1>2
  <1> QED BY <1>4, <1>5 DEF Store!Init, ContentAt, UserAt

\* The cache implements a store of blocks: whatever is recycled, read again,
\* written, pinned or queued for the disk, a block has one content and at most
\* one user, and only its user changes it.
THEOREM CacheImplementsBlockStore == Spec => CacheIsBlockStore
  <1>1. IInv /\ [Next]_vars => IInv'
    BY StepIInv
  <1>2. IInv /\ IInv' /\ [Next]_vars => [Store!Next]_(Store!vars)
    BY RefineStep
  <1> QED BY <1>1, <1>2, InitIInv, RefineInit, PTL DEF Spec, CacheIsBlockStore, Store!Spec
=============================================================================
