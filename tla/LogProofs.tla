----------------------------- MODULE LogProofs ------------------------------
(***************************************************************************)
(* Proofs about Log for any number of processes, blocks, values and        *)
(* crashes: the space begin_op reserves, the absence of panics, durability *)
(* and the refinement of Transactions.                                     *)
(***************************************************************************)
EXTENDS Log, FiniteSetTheorems, SequenceTheorems, TLAPS

\* The hypothesis on the callers and on mkfs: a call writes fewer blocks than
\* begin_op reserves for it, by more than what the log area is short of
\* LOGSIZE.  With the repository's LOGSIZE = nlog = 3 * MAXOPBLOCKS this is
\* OpBlocks <= MAXOPBLOCKS - 2.
CallsFit ==
    /\ OpBlocks < MAXOPBLOCKS
    /\ LOGSIZE + OpBlocks < MAXOPBLOCKS + nlog - 1

Injective(s) == \A i, j \in 1 .. Len(s) : s[i] = s[j] => i = j

-----------------------------------------------------------------------------
(***************************************************************************)
(* The first half of the inductive invariant: counting.                    *)
(***************************************************************************)

\* log.outstanding is the number of calls in progress; none is in progress
\* while initlog or a commit runs.
Counted ==
    /\ IsFiniteSet(Active) /\ outstanding = Cardinality(Active)
    /\ committing \/ boot # "up" => Active = {}

\* A process holds a buffer exactly between bread and brelse, and only one
\* its call has written; a call writes at most OpBlocks blocks.
CallsOK ==
    \A o \in Procs :
        /\ buf[o] # NoBlock <=> pc[o] \in {"modified", "checked"}
        /\ buf[o] # NoBlock => buf[o] \in wrote[o]
        /\ IsFiniteSet(wrote[o]) /\ Cardinality(wrote[o]) <= OpBlocks

\* The blocks in the log that a call in progress has written.
Touched == {b \in Logged : \E o \in Active : b \in wrote[o]}

\* What begin_op reserved, less what the calls in progress have used of it.
Reserved == Len(lh) + outstanding * MAXOPBLOCKS <= LOGSIZE + Cardinality(Touched)

\* Absorption keeps the block numbers of a transaction different, in memory and
\* on disk, and the log area has room for them.
Transaction(s) == Injective(s) /\ Len(s) <= nlog - 1

CInv ==
    /\ TypeOK /\ ~panicked
    /\ Counted /\ CallsOK /\ Reserved
    /\ Transaction(lh) /\ Transaction(hdr)

-----------------------------------------------------------------------------
(***************************************************************************)
(* The second half: what is where.                                         *)
(***************************************************************************)

\* Blocks whose contents are only in memory.
CleanOutside(S) == \A b \in Blocks \ S : cache[b] = home[b]

\* The first n blocks of the transaction are in the log area.
Copied(n) == \A i \in 1 .. n : logd[i] = cache[lh[i]]

\* The first n blocks of the transaction are at home.
Installed(n) == \A i \in 1 .. n : home[lh[i]] = logd[i]

InLoop == tail <= Len(lh) + 1

\* initlog has not returned.
Recovering ==
    /\ boot # "up" /\ ~committing
    /\ lh = (IF boot = "read_head" THEN <<>> ELSE hdr)
    /\ boot = "read_head" => tail = 1
    /\ \A o \in Procs : pc[o] = "idle"
    /\ dirty = {} /\ cache = home
    /\ InLoop /\ Installed(tail - 1)

\* Calls may run: what differs from home is in the log or in use.
Collecting ==
    /\ boot = "up" /\ ~committing
    /\ \A o \in Procs : pc[o] \notin Committing
    /\ hdr = <<>> /\ dirty = Logged
    /\ CleanOutside(Logged \cup {buf[o] : o \in Procs})
    /\ Active = {} => lh = <<>>

\* Process o is in write_log, in install_trans, or at the end of commit.
Writing(o) ==
    /\ pc[o] = "write_log"
    /\ hdr = <<>> /\ dirty = Logged /\ CleanOutside(Logged)
    /\ InLoop /\ Copied(tail - 1)

Installing(o) ==
    /\ pc[o] = "install"
    /\ hdr = lh /\ dirty = {lh[i] : i \in tail .. Len(lh)} /\ CleanOutside(dirty)
    /\ InLoop /\ Copied(Len(lh)) /\ Installed(tail - 1)

Erased(o) ==
    /\ pc[o] = "done"
    /\ hdr = <<>> /\ lh = <<>> /\ dirty = {} /\ cache = home

\* One process commits and nobody else is in a call.
CommitRuns ==
    /\ boot = "up" /\ committing
    /\ \E o \in Procs :
          /\ Writing(o) \/ Installing(o) \/ Erased(o)
          /\ \A q \in Procs \ {o} : pc[q] \in {"idle", "begin", "asleep"}

Phase == Recovering \/ Collecting \/ CommitRuns

\* The inductive invariant.
IInv == CInv /\ Phase

-----------------------------------------------------------------------------
(***************************************************************************)
(* Lemmas.                                                                 *)
(***************************************************************************)

\* Finitely many sets of at most n elements have a union of at most n times
\* as many.  By well-founded induction on the subsets of S: a smallest bad
\* one has an element whose removal leaves a smaller bad one.
LEMMA UnionBound ==
    ASSUME NEW S, IsFiniteSet(S), NEW w, NEW n \in Nat,
           \A o \in S : IsFiniteSet(w[o]) /\ Cardinality(w[o]) <= n
    PROVE  /\ IsFiniteSet(UNION {w[o] : o \in S})
           /\ Cardinality(UNION {w[o] : o \in S}) <= Cardinality(S) * n
  <1> DEFINE U(T) == UNION {w[o] : o \in T}
             Good(T) == IsFiniteSet(U(T)) /\ Cardinality(U(T)) <= Cardinality(T) * n
             Bad == {T \in SUBSET S : ~Good(T)}
  <1>1. SUFFICES ASSUME Bad # {} PROVE FALSE
    <2>1. S \in SUBSET S
      OBVIOUS
    <2>2. Good(S)
      BY <1>1, <2>1
    <2> QED
      BY <2>2
  <1>2. IsWellFoundedOn(StrictSubsetOrdering(S), SUBSET S)
    BY FS_StrictSubsetOrderingWellFounded, FS_FiniteSubsetsOfFinite
  <1>3. Bad \subseteq SUBSET S
    OBVIOUS
  <1> HIDE DEF Bad
  <1>4. PICK T \in Bad : \A V \in Bad : <<V, T>> \notin StrictSubsetOrdering(S)
    BY <1>1, <1>2, <1>3, WFMin
  <1> USE DEF Bad
  <1>5. T \in SUBSET S /\ IsFiniteSet(T) /\ ~Good(T)
    BY <1>4, FS_Subset
  <1>6. T # {}
    <2>1. U({}) = {}
      OBVIOUS
    <2>2. 0 * n = 0
      OBVIOUS
    <2>3. IsFiniteSet(U({})) /\ Cardinality(U({})) = 0 /\ Cardinality({}) = 0
      BY <2>1, FS_EmptySet
    <2>4. Good({})
      BY <2>2, <2>3
    <2> QED
      BY <1>5, <2>4
  <1>7. PICK o \in T : TRUE
    BY <1>6
  <1> DEFINE V == T \ {o}
  <1>8. Good(V)
    <2>1. V \in SUBSET S /\ V \subseteq T /\ V # T
      BY <1>5, <1>7
    <2>2. <<V, T>> \in StrictSubsetOrdering(S)
      BY <1>5, <2>1 DEF StrictSubsetOrdering
    <2> QED
      BY <1>4, <2>1, <2>2
  <1>9. U(T) = U(V) \cup w[o]
    BY <1>7
  <1>10. Cardinality(V) = Cardinality(T) - 1 /\ Cardinality(T) \in Nat
    BY <1>5, <1>7, FS_RemoveElement, FS_CardinalityType
  <1>11. IsFiniteSet(w[o]) /\ Cardinality(w[o]) <= n /\ Cardinality(w[o]) \in Nat
    BY <1>5, <1>7, FS_CardinalityType
  <1> HIDE DEF U, V
  <1>12. /\ IsFiniteSet(U(T))
         /\ Cardinality(U(T)) = Cardinality(U(V)) + Cardinality(w[o]) - Cardinality(U(V) \cap w[o])
    BY <1>8, <1>9, <1>11, FS_Union
  <1>13. Cardinality(U(V)) \in Nat /\ Cardinality(U(V) \cap w[o]) \in Nat
    BY <1>8, FS_Intersection, FS_CardinalityType
  <1>14. (Cardinality(T) - 1) * n + n = Cardinality(T) * n
    BY <1>10
  <1>15. Cardinality(U(T)) <= Cardinality(T) * n
    BY <1>8, <1>10, <1>11, <1>12, <1>13, <1>14
  <1> QED
    BY <1>5, <1>12, <1>15

\* The blocks that calls in progress have written are at most OpBlocks each.
LEMMA TouchedBound ==
    ASSUME NEW A, IsFiniteSet(A), NEW w, NEW T, T \subseteq UNION {w[o] : o \in A},
           \A o \in A : IsFiniteSet(w[o]) /\ Cardinality(w[o]) <= OpBlocks
    PROVE  IsFiniteSet(T) /\ Cardinality(T) \in Nat /\ Cardinality(T) <= Cardinality(A) * OpBlocks
  <1> DEFINE U == UNION {w[o] : o \in A}
  <1>1. OpBlocks \in Nat
    BY LogAssumption
  <1>2. IsFiniteSet(U) /\ Cardinality(U) <= Cardinality(A) * OpBlocks
    BY <1>1, UnionBound
  <1>3. Cardinality(A) \in Nat
    BY FS_CardinalityType
  <1> HIDE DEF U
  <1>4. IsFiniteSet(T) /\ Cardinality(T) <= Cardinality(U)
    BY <1>2, FS_Subset DEF U
  <1>5. Cardinality(T) \in Nat /\ Cardinality(U) \in Nat
    BY <1>2, <1>4, FS_CardinalityType
  <1>6. Cardinality(A) * OpBlocks \in Nat
    BY <1>1, <1>3
  <1> QED
    BY <1>2, <1>4, <1>5, <1>6

\* A log that satisfies the reservation while a call is in progress has room
\* for one more block, in its header and in its area on disk.
LEMMA RoomLeft ==
    ASSUME CallsFit, NEW len \in Nat, NEW out \in Nat \ {0}, NEW t \in Nat,
           t <= out * OpBlocks, len + out * MAXOPBLOCKS <= LOGSIZE + t
    PROVE  len < LOGSIZE /\ len < nlog - 1
  <1>1. OpBlocks \in Nat /\ MAXOPBLOCKS \in Nat /\ LOGSIZE \in Nat /\ nlog \in Nat
    BY LogAssumption
  <1> DEFINE d == MAXOPBLOCKS - OpBlocks
             k == out - 1
  <1>2. d \in Nat \ {0} /\ k \in Nat
    BY <1>1 DEF CallsFit
  <1>3. out * MAXOPBLOCKS = out * OpBlocks + d + k * d
    BY <1>1
  <1>4. k * d >= 0 /\ k * d \in Int
    BY <1>2
  <1>5. out * OpBlocks \in Int /\ out * MAXOPBLOCKS \in Int
    BY <1>1
  <1> DEFINE x == out * OpBlocks
             y == out * MAXOPBLOCKS
             z == k * d
  <1> HIDE DEF x, y, z, k
  <1>6. x \in Int /\ y \in Int /\ z \in Int /\ z >= 0 /\ y = x + d + z
    BY <1>3, <1>4, <1>5 DEF x, y, z
  <1>7. t <= x /\ len + y <= LOGSIZE + t
    BY DEF x, y
  <1> QED
    BY <1>1, <1>6, <1>7 DEF CallsFit

LEMMA CInvRoom ==
    ASSUME CInv, CallsFit
    PROVE  /\ IsFiniteSet(Touched) /\ Cardinality(Touched) \in Nat
           /\ Active # {} => Len(lh) < LOGSIZE /\ Len(lh) < nlog - 1
  <1>1. Touched \subseteq UNION {wrote[o] : o \in Active}
    BY DEF Touched
  <1>2. /\ IsFiniteSet(Active)
        /\ \A o \in Active : IsFiniteSet(wrote[o]) /\ Cardinality(wrote[o]) <= OpBlocks
    BY DEF CInv, Counted, CallsOK, Active
  <1>3. /\ IsFiniteSet(Touched) /\ Cardinality(Touched) \in Nat
        /\ Cardinality(Touched) <= Cardinality(Active) * OpBlocks
    BY <1>1, <1>2, TouchedBound
  <1>4. outstanding \in Nat /\ outstanding = Cardinality(Active) /\ Len(lh) \in Nat
    BY LenProperties DEF CInv, Counted, TypeOK
  <1>5. Active # {} => outstanding # 0
    BY <1>2, <1>4, FS_EmptySet
  <1>6. Len(lh) + outstanding * MAXOPBLOCKS <= LOGSIZE + Cardinality(Touched)
    BY DEF CInv, Reserved
  <1>7. ASSUME Active # {} PROVE Len(lh) < LOGSIZE /\ Len(lh) < nlog - 1
    BY <1>3, <1>4, <1>5, <1>6, <1>7, RoomLeft
  <1> QED
    BY <1>3, <1>7

\* A step that leaves the log, the calls and their blocks alone keeps the count.
LEMMA CountFrame ==
    ASSUME CInv, Active' = Active, UNCHANGED <<lh, outstanding, wrote>>
    PROVE  Reserved'
  <1>1. Touched' = Touched
    BY DEF Touched, Logged
  <1> QED
    BY <1>1 DEF CInv, Reserved

-----------------------------------------------------------------------------
(***************************************************************************)
(* Every step preserves the counting half.                                 *)
(***************************************************************************)

LEMMA CInvBegin ==
    ASSUME CInv, NEW o \in Procs, BeginOp(o)
    PROVE  CInv'
  <1> USE DEF CInv
  <1>1. CASE MustWait
    <2>1. /\ pc' = [pc EXCEPT ![o] = "asleep"] /\ pc[o] \in {"idle", "begin"}
          /\ UNCHANGED <<disk, memory, boot, buf, wrote, panicked>>
      BY <1>1 DEF BeginOp, Goto, memory
    <2>2. TypeOK' /\ Active' = Active /\ CallsOK'
      BY <2>1 DEF TypeOK, disk, memory, Active, InOp, Committing, CallsOK
    <2>3. Reserved'
      BY <2>1, <2>2, CountFrame DEF memory
    <2> QED
      BY <2>1, <2>2, <2>3 DEF disk, memory, Counted, Transaction, Injective
  <1>2. CASE ~MustWait
    <2>1. /\ pc' = [pc EXCEPT ![o] = "op"] /\ pc[o] \in {"idle", "begin"} /\ boot = "up"
          /\ outstanding' = outstanding + 1 /\ ~committing
          /\ UNCHANGED <<disk, cache, dirty, lh, committing, tail, boot, buf, wrote, panicked>>
      BY <1>2 DEF BeginOp, Goto, MustWait
    <2>2. TypeOK' /\ CallsOK'
      BY <2>1 DEF TypeOK, disk, InOp, Committing, CallsOK
    <2>3. Active' = Active \cup {o} /\ o \notin Active
      BY <2>1 DEF TypeOK, Active, InOp
    <2>4. Counted'
      BY <2>1, <2>3, FS_AddElement DEF Counted
    <2>5. Cardinality(Touched') \in Nat
      <3>1. Touched' \subseteq UNION {wrote'[q] : q \in Active'}
        BY DEF Touched
      <3>2. \A q \in Active' : IsFiniteSet(wrote'[q]) /\ Cardinality(wrote'[q]) <= OpBlocks
        BY <2>2 DEF CallsOK, Active
      <3> QED
        BY <2>4, <3>1, <3>2, TouchedBound DEF Counted
    <2>6. Len(lh) + (outstanding + 1) * MAXOPBLOCKS <= LOGSIZE
      BY <1>2, LenProperties, LogAssumption DEF MustWait, TypeOK
    <2>7. Reserved'
      BY <2>1, <2>5, <2>6, LogAssumption DEF Reserved, TypeOK
    <2> QED
      BY <2>1, <2>2, <2>4, <2>7 DEF disk, Transaction, Injective
  <1> QED
    BY <1>1, <1>2

LEMMA CInvKill ==
    ASSUME CInv, NEW o \in Procs, KillWakes(o)
    PROVE  CInv'
  <1> USE DEF CInv
  <1>1. /\ pc' = [pc EXCEPT ![o] = "begin"] /\ pc[o] = "asleep"
        /\ UNCHANGED <<disk, memory, boot, buf, wrote, panicked>>
    BY DEF KillWakes, Goto
  <1>2. TypeOK' /\ Active' = Active /\ CallsOK'
    BY <1>1 DEF TypeOK, disk, memory, Active, InOp, Committing, CallsOK
  <1>3. Reserved'
    BY <1>1, <1>2, CountFrame DEF memory
  <1> QED
    BY <1>1, <1>2, <1>3 DEF disk, memory, Counted, Transaction, Injective

LEMMA CInvModify ==
    ASSUME CInv, CallsFit, NEW o \in Procs, NEW b \in Blocks, NEW v \in Values, Modify(o, b, v)
    PROVE  CInv'
  <1> USE DEF CInv
  <1>1. /\ pc[o] = "op" /\ pc' = [pc EXCEPT ![o] = "modified"]
        /\ cache' = [cache EXCEPT ![b] = v]
        /\ buf' = [buf EXCEPT ![o] = b]
        /\ wrote' = [wrote EXCEPT ![o] = wrote[o] \cup {b}]
        /\ Cardinality(wrote[o] \cup {b}) <= OpBlocks
        /\ UNCHANGED <<disk, dirty, lh, outstanding, committing, tail, boot, panicked>>
    BY DEF Modify, Goto, TypeOK
  <1>2. TypeOK'
    BY <1>1 DEF TypeOK, disk, InOp, Committing
  <1>3. Active' = Active
    BY <1>1 DEF TypeOK, Active, InOp
  <1>4. CallsOK'
    <2>1. IsFiniteSet(wrote[o] \cup {b})
      BY FS_AddElement DEF CallsOK
    <2>2. wrote'[o] = wrote[o] \cup {b} /\ buf'[o] = b /\ pc'[o] = "modified"
      BY <1>1 DEF TypeOK
    <2>3. \A q \in Procs \ {o} : wrote'[q] = wrote[q] /\ buf'[q] = buf[q] /\ pc'[q] = pc[q]
      BY <1>1 DEF TypeOK
    <2> QED
      BY <1>1, <2>1, <2>2, <2>3, LogAssumption DEF CallsOK
  <1>5. Reserved'
    <2>1. \A q \in Procs : wrote[q] \subseteq wrote'[q]
      BY <1>1 DEF TypeOK
    <2>2. Touched \subseteq Touched'
      BY <1>1, <1>3, <2>1 DEF Touched, Logged, Active
    <2>3. Touched' \subseteq UNION {wrote'[q] : q \in Active'}
      BY DEF Touched
    <2>4. \A q \in Active' : IsFiniteSet(wrote'[q]) /\ Cardinality(wrote'[q]) <= OpBlocks
      BY <1>4 DEF CallsOK, Active
    <2>5. IsFiniteSet(Touched') /\ Cardinality(Touched') \in Nat
      BY <1>3, <2>3, <2>4, TouchedBound DEF Counted
    <2>6. Cardinality(Touched) <= Cardinality(Touched') /\ Cardinality(Touched) \in Nat
      BY <2>2, <2>5, FS_Subset, CInvRoom
    <2>7. Len(lh) + outstanding * MAXOPBLOCKS <= LOGSIZE + Cardinality(Touched)
      BY DEF Reserved
    <2>8. Len(lh) \in Nat /\ outstanding * MAXOPBLOCKS \in Nat /\ LOGSIZE \in Nat
      BY LenProperties, LogAssumption DEF TypeOK
    <2> QED
      BY <1>1, <2>5, <2>6, <2>7, <2>8 DEF Reserved
  <1> QED
    BY <1>1, <1>2, <1>3, <1>4, <1>5 DEF disk, Counted, Transaction, Injective

LEMMA CInvCheck ==
    ASSUME CInv, CallsFit, NEW o \in Procs, LogWriteCheck(o)
    PROVE  CInv'
  <1> USE DEF CInv
  <1>1. o \in Active
    BY DEF LogWriteCheck, Active, InOp
  <1>2. ~(Len(lh) >= LOGSIZE \/ Len(lh) >= nlog - 1 \/ outstanding < 1)
    <2>1. outstanding # 0
      BY <1>1, FS_EmptySet DEF Counted
    <2> QED
      BY <1>1, <2>1, CInvRoom, LenProperties, LogAssumption DEF TypeOK
  <1>3. /\ pc[o] = "modified" /\ pc' = [pc EXCEPT ![o] = "checked"]
        /\ UNCHANGED <<disk, memory, boot, buf, wrote, panicked>>
    BY <1>2 DEF LogWriteCheck, Goto
  <1>4. TypeOK' /\ Active' = Active /\ CallsOK'
    BY <1>3 DEF TypeOK, disk, memory, Active, InOp, Committing, CallsOK
  <1>5. Reserved'
    BY <1>3, <1>4, CountFrame DEF memory
  <1> QED
    BY <1>3, <1>4, <1>5 DEF disk, memory, Counted, Transaction, Injective

\* What Absorb does to the block numbers.
LEMMA AbsorbAdds ==
    ASSUME lh \in Seq(Blocks), Injective(lh), NEW b \in Blocks, lh' = Absorb(b)
    PROVE  /\ lh' \in Seq(Blocks) /\ Injective(lh')
           /\ Logged' = Logged \cup {b}
           /\ b \in Logged => lh' = lh
           /\ b \notin Logged => Len(lh') = Len(lh) + 1
  <1>1. CASE b \in Logged
    BY <1>1 DEF Absorb, Logged
  <1>2. CASE b \notin Logged
    <2>1. lh' = Append(lh, b)
      BY <1>2 DEF Absorb
    <2>2. /\ lh' \in Seq(Blocks) /\ Len(lh') = Len(lh) + 1 /\ Len(lh) \in Nat
          /\ \A i \in 1 .. Len(lh) : lh'[i] = lh[i]
          /\ lh'[Len(lh) + 1] = b
      BY <2>1, AppendProperties, LenProperties
    <2>3. Logged' = Logged \cup {b}
      BY <2>2 DEF Logged
    <2>4. Injective(lh')
      BY <1>2, <2>2 DEF Injective, Logged
    <2> QED
      BY <1>2, <2>2, <2>3, <2>4
  <1> QED
    BY <1>1, <1>2

LEMMA CInvLogWrite ==
    ASSUME CInv, CallsFit, NEW o \in Procs, LogWrite(o)
    PROVE  CInv'
  <1> USE DEF CInv
  <1> DEFINE b == buf[o]
  <1>1. /\ pc[o] = "checked" /\ pc' = [pc EXCEPT ![o] = "op"]
        /\ lh' = Absorb(b) /\ dirty' = dirty \cup {b}
        /\ buf' = [buf EXCEPT ![o] = NoBlock]
        /\ UNCHANGED <<disk, cache, outstanding, committing, tail, boot, wrote, panicked>>
    BY DEF LogWrite, Goto, Pin
  <1>2. b \in Blocks /\ b \in wrote[o] /\ o \in Active
    BY <1>1 DEF CallsOK, TypeOK, Active, InOp
  <1>3. Active' = Active
    BY <1>1 DEF TypeOK, Active, InOp
  <1>4. CallsOK'
    BY <1>1 DEF CallsOK, TypeOK
  <1>5. /\ lh' \in Seq(Blocks) /\ Injective(lh')
        /\ Logged' = Logged \cup {b}
        /\ b \in Logged => lh' = lh
        /\ b \notin Logged => Len(lh') = Len(lh) + 1
    BY <1>1, <1>2, AbsorbAdds DEF TypeOK, Transaction
  <1>6. Len(lh) \in Nat /\ Len(lh') \in Nat
    BY <1>5, LenProperties DEF TypeOK
  <1>7. Len(lh) < LOGSIZE /\ Len(lh) < nlog - 1
    BY <1>2, CInvRoom
  <1>8. Len(lh') <= LOGSIZE /\ Len(lh') <= nlog - 1
    BY <1>5, <1>6, <1>7, LogAssumption
  <1>9. TypeOK'
    BY <1>1, <1>2, <1>5, <1>8 DEF TypeOK, disk, InOp
  <1>10. Touched' = Touched \cup {b}
    BY <1>1, <1>2, <1>3, <1>5 DEF Touched
  <1>11. Reserved'
    <2>1. IsFiniteSet(Touched) /\ Cardinality(Touched) \in Nat
      BY CInvRoom
    <2>2. b \in Logged => b \in Touched
      BY <1>2 DEF Touched
    <2>3. b \notin Logged => b \notin Touched
      BY DEF Touched
    <2>4. Cardinality(Touched') = IF b \in Touched THEN Cardinality(Touched) ELSE Cardinality(Touched) + 1
      BY <1>10, <2>1, FS_AddElement
    <2>5. Len(lh) + outstanding * MAXOPBLOCKS <= LOGSIZE + Cardinality(Touched)
      BY DEF Reserved
    <2>6. outstanding * MAXOPBLOCKS \in Nat /\ LOGSIZE \in Nat
      BY LogAssumption DEF TypeOK
    <2>7. CASE b \in Logged
      BY <1>1, <1>5, <1>6, <2>1, <2>2, <2>4, <2>5, <2>6, <2>7 DEF Reserved
    <2>8. CASE b \notin Logged
      BY <1>1, <1>5, <1>6, <2>1, <2>3, <2>4, <2>5, <2>6, <2>8 DEF Reserved
    <2> QED
      BY <2>7, <2>8
  <1> QED
    BY <1>1, <1>3, <1>4, <1>5, <1>8, <1>9, <1>11 DEF disk, Counted, Transaction, Injective

\* What end_op does when no commit is running.
LEMMA EndOpStep ==
    ASSUME CInv, NEW o \in Procs, EndOp(o)
    PROVE  /\ ~committing /\ boot = "up" /\ pc[o] = "op" /\ o \in Active
           /\ outstanding \in Nat \ {0} /\ outstanding' = outstanding - 1
           /\ wrote' = [wrote EXCEPT ![o] = {}]
           /\ outstanding = 1 =>
                 /\ Active = {o}
                 /\ committing' = TRUE /\ tail' = 1
                 /\ pc' = [pc EXCEPT ![o] = IF lh = <<>> THEN "done" ELSE "write_log"]
           /\ outstanding # 1 =>
                 /\ pc' = WakeupAnd(o, "idle")
                 /\ UNCHANGED <<committing, tail>>
           /\ UNCHANGED <<disk, cache, dirty, lh, boot, buf, panicked>>
  <1> USE DEF CInv
  <1>1. pc[o] = "op" /\ o \in Active
    BY DEF EndOp, Active, InOp
  <1>2. ~committing /\ boot = "up"
    BY <1>1 DEF Counted
  <1>3. outstanding \in Nat \ {0}
    BY <1>1, FS_EmptySet DEF Counted, TypeOK
  <1>4. outstanding = 1 => Active = {o}
    BY <1>1, FS_Singleton DEF Counted
  <1> QED
    BY <1>1, <1>2, <1>3, <1>4 DEF EndOp, Goto

LEMMA CInvEnd ==
    ASSUME CInv, CallsFit, NEW o \in Procs, EndOp(o)
    PROVE  CInv'
  <1> USE DEF CInv
  <1>1. /\ ~committing /\ boot = "up" /\ pc[o] = "op" /\ o \in Active
        /\ outstanding \in Nat \ {0} /\ outstanding' = outstanding - 1
        /\ wrote' = [wrote EXCEPT ![o] = {}]
        /\ UNCHANGED <<disk, cache, dirty, lh, boot, buf, panicked>>
    BY EndOpStep
  <1>2. /\ pc' \in [Procs -> {"idle", "begin", "asleep"} \cup InOp \cup Committing]
        /\ pc'[o] \in {"idle", "done", "write_log"}
        /\ \A q \in Procs \ {o} : pc'[q] = pc[q] \/ (pc[q] = "asleep" /\ pc'[q] = "begin")
    <2> DEFINE D == {"idle", "begin", "asleep"} \cup InOp \cup Committing
    <2>1. /\ {"idle", "begin", "done", "write_log"} \subseteq D
          /\ pc \in [Procs -> D]
      BY DEF InOp, Committing, TypeOK
    <2> SUFFICES /\ pc' \in [Procs -> D]
                 /\ pc'[o] \in {"idle", "done", "write_log"}
                 /\ \A q \in Procs \ {o} : pc'[q] = pc[q] \/ (pc[q] = "asleep" /\ pc'[q] = "begin")
      OBVIOUS
    <2> HIDE DEF D
    <2>2. CASE pc' = WakeupAnd(o, "idle")
      BY <2>1, <2>2 DEF WakeupAnd
    <2>3. CASE pc' = [pc EXCEPT ![o] = IF lh = <<>> THEN "done" ELSE "write_log"]
      BY <2>1, <2>3
    <2> QED
      BY <2>2, <2>3, EndOpStep
  <1>3. committing' \in BOOLEAN /\ tail' \in Nat \ {0}
    BY EndOpStep DEF TypeOK
  <1>4. TypeOK'
    <2>1. wrote' \in [Procs -> SUBSET Blocks] /\ outstanding' \in Nat
      BY <1>1 DEF TypeOK
    <2> QED
      BY <1>1, <1>2, <1>3, <2>1 DEF TypeOK, disk
  <1>5. Active' = Active \ {o}
    BY <1>1, <1>2 DEF Active, InOp
  <1>6. Counted'
    <2>1. IsFiniteSet(Active') /\ outstanding' = Cardinality(Active')
      BY <1>1, <1>5, FS_RemoveElement DEF Counted
    <2>2. committing' => Active' = {}
      BY <1>1, <1>5, EndOpStep
    <2> QED
      BY <1>1, <2>1, <2>2 DEF Counted
  <1>7. CallsOK'
    <2>1. wrote'[o] = {} /\ \A q \in Procs \ {o} : wrote'[q] = wrote[q]
      BY <1>1 DEF TypeOK
    <2>2. IsFiniteSet({}) /\ Cardinality({}) <= OpBlocks
      BY FS_EmptySet, LogAssumption
    <2> QED
      BY <1>1, <1>2, <2>1, <2>2 DEF CallsOK
  <1>8. Reserved'
    <2>1. IsFiniteSet(Touched) /\ Cardinality(Touched) \in Nat
      BY CInvRoom
    <2>2. Touched \subseteq Touched' \cup wrote[o]
      <3>1. Logged' = Logged
        BY <1>1 DEF Logged
      <3>2. \A q \in Procs \ {o} : wrote'[q] = wrote[q]
        BY <1>1 DEF TypeOK
      <3> QED
        BY <1>5, <3>1, <3>2 DEF Touched, Active
    <2>3. Touched' \subseteq UNION {wrote'[q] : q \in Active'}
      BY DEF Touched
    <2>4. \A q \in Active' : IsFiniteSet(wrote'[q]) /\ Cardinality(wrote'[q]) <= OpBlocks
      BY <1>7 DEF CallsOK, Active
    <2>5. IsFiniteSet(Touched') /\ Cardinality(Touched') \in Nat
      BY <1>6, <2>3, <2>4, TouchedBound DEF Counted
    <2>6. IsFiniteSet(wrote[o]) /\ Cardinality(wrote[o]) \in Nat /\ Cardinality(wrote[o]) <= OpBlocks
      BY FS_CardinalityType DEF CallsOK
    <2> DEFINE T == Touched'
               C == Cardinality(T \cup wrote[o])
    <2>7. Cardinality(T \cap wrote[o]) \in Nat
      BY <2>5, FS_Intersection, FS_CardinalityType
    <2> HIDE DEF T
    <2>8. IsFiniteSet(T \cup wrote[o]) /\ C = Cardinality(T) + Cardinality(wrote[o]) - Cardinality(T \cap wrote[o])
      BY <2>5, <2>6, FS_Union DEF T
    <2>9. Cardinality(Touched) <= C
      BY <2>2, <2>8, FS_Subset DEF T
    <2> HIDE DEF C
    <2>10. Cardinality(Touched) <= Cardinality(T) + OpBlocks
      BY <2>1, <2>5, <2>6, <2>7, <2>8, <2>9, LogAssumption DEF T
    <2>11. (outstanding - 1) * MAXOPBLOCKS + MAXOPBLOCKS = outstanding * MAXOPBLOCKS
      BY <1>1, LogAssumption
    <2>12. Len(lh) + outstanding * MAXOPBLOCKS <= LOGSIZE + Cardinality(Touched)
      BY DEF Reserved
    <2>13. outstanding * MAXOPBLOCKS \in Nat /\ (outstanding - 1) * MAXOPBLOCKS \in Nat /\ Len(lh) \in Nat
      BY <1>1, LogAssumption, LenProperties DEF TypeOK
    <2>14. Len(lh) + (outstanding - 1) * MAXOPBLOCKS <= LOGSIZE + Cardinality(T)
      BY <2>1, <2>5, <2>10, <2>11, <2>12, <2>13, LogAssumption DEF T
    <2> QED
      BY <1>1, <2>14 DEF Reserved, T
  <1> QED
    BY <1>1, <1>4, <1>6, <1>7, <1>8 DEF disk, Transaction, Injective

LEMMA CInvWriteLog ==
    ASSUME CInv, NEW o \in Procs, WriteLog(o)
    PROVE  CInv'
  <1> USE DEF CInv
  <1>1. /\ tail <= Len(lh) /\ tail' = tail + 1
        /\ logd' = [logd EXCEPT ![tail] = cache[lh[tail]]]
        /\ UNCHANGED <<home, hdr, cache, dirty, lh, outstanding, committing, boot, pc, buf, wrote, panicked>>
    BY DEF WriteLog, calls
  <1>2. Len(lh) \in Nat /\ tail \in 1 .. Len(lh)
    BY <1>1, LenProperties DEF TypeOK
  <1>3. lh[tail] \in Blocks
    BY <1>2, ElementOfSeq DEF TypeOK
  <1>4. TypeOK'
    <2>1. logd' \in [1 .. (nlog - 1) -> Values]
      BY <1>1, <1>3 DEF TypeOK
    <2> QED
      BY <1>1, <2>1 DEF TypeOK
  <1>5. Active' = Active /\ CallsOK'
    BY <1>1 DEF Active, CallsOK
  <1>6. Reserved'
    BY <1>1, <1>5, CountFrame
  <1> QED
    BY <1>1, <1>4, <1>5, <1>6 DEF Counted, Transaction, Injective

LEMMA CInvWriteHead ==
    ASSUME CInv, NEW o \in Procs, WriteHead(o)
    PROVE  CInv'
  <1> USE DEF CInv
  <1>1. /\ pc[o] = "write_log" /\ pc' = [pc EXCEPT ![o] = "install"]
        /\ hdr' = lh /\ tail' = 1
        /\ UNCHANGED <<home, logd, cache, dirty, lh, outstanding, committing, boot, buf, wrote, panicked>>
    BY DEF WriteHead, Goto
  <1>2. TypeOK' /\ Active' = Active /\ CallsOK'
    BY <1>1 DEF TypeOK, Active, InOp, Committing, CallsOK
  <1>3. Reserved'
    BY <1>1, <1>2, CountFrame
  <1> QED
    BY <1>1, <1>2, <1>3 DEF Counted, Transaction, Injective

\* A turn of install_trans keeps the types; the sizes and the calls do not change.
LEMMA InstallTypes ==
    ASSUME CInv, InstallBlock
    PROVE  /\ tail \in 1 .. Len(lh) /\ lh[tail] \in Blocks /\ logd[tail] \in Values
           /\ home' \in [Blocks -> Values] /\ cache' \in [Blocks -> Values]
           /\ dirty' \subseteq Blocks /\ tail' \in Nat \ {0}
  <1> USE DEF CInv
  <1>1. tail \in 1 .. Len(lh) /\ Len(lh) \in Nat
    BY LenProperties DEF TypeOK, InstallBlock
  <1>2. lh[tail] \in Blocks
    BY <1>1, ElementOfSeq DEF TypeOK
  <1>3. logd[tail] \in Values
    BY <1>1, LogAssumption DEF TypeOK, Transaction
  <1> QED
    BY <1>1, <1>2, <1>3 DEF TypeOK, InstallBlock

LEMMA CInvInstall ==
    ASSUME CInv, InstallBlock, UNCHANGED <<boot, calls, panicked>>
    PROVE  CInv'
  <1> USE DEF CInv
  <1>1. UNCHANGED <<logd, hdr, lh, outstanding, committing, boot, pc, buf, wrote, panicked>>
    BY DEF InstallBlock, calls
  <1>2. TypeOK'
    BY <1>1, InstallTypes DEF TypeOK
  <1>3. Active' = Active /\ CallsOK'
    BY <1>1 DEF Active, CallsOK
  <1>4. Reserved'
    BY <1>1, <1>3, CountFrame
  <1> QED
    BY <1>1, <1>2, <1>3, <1>4 DEF Counted, Transaction, Injective

\* An empty log is a transaction, and no call in progress leaves the whole of
\* it to the next one.
LEMMA EmptyTransaction == Transaction(<<>>) /\ <<>> \in Seq(Blocks) /\ Len(<<>>) = 0
  BY EmptySeq, LogAssumption DEF Transaction, Injective

\* The reservation of a log without calls is that it fits its header.
LEMMA IdleReserved ==
    ASSUME Active' = {}, outstanding' = 0, lh' \in Seq(Blocks), Len(lh') <= LOGSIZE
    PROVE  Reserved'
  <1>1. Touched' = {}
    BY DEF Touched
  <1>2. Cardinality(Touched') = 0
    BY <1>1, FS_EmptySet
  <1>3. 0 * MAXOPBLOCKS = 0 /\ Len(lh') \in Nat
    BY LogAssumption, LenProperties
  <1> QED
    BY <1>2, <1>3, LogAssumption DEF Reserved

LEMMA CInvErase ==
    ASSUME CInv, EraseLog, Active = {}, Active' = {}, UNCHANGED <<buf, wrote, panicked>>,
           boot' \in {"read_head", "install", "up"},
           pc' \in [Procs -> {"idle", "begin", "asleep"} \cup InOp \cup Committing],
           \A o \in Procs : pc'[o] \in {"modified", "checked"} <=> pc[o] \in {"modified", "checked"}
    PROVE  CInv'
  <1> USE DEF CInv
  <1>1. lh' = <<>> /\ hdr' = <<>> /\ UNCHANGED <<home, logd, cache, dirty, outstanding, committing, tail>>
    BY DEF EraseLog
  <1>2. TypeOK'
    BY <1>1, EmptyTransaction, LogAssumption DEF TypeOK
  <1>3. CallsOK'
    BY DEF CallsOK
  <1>4. outstanding = 0
    BY FS_EmptySet DEF Counted
  <1>5. Counted'
    BY <1>1 DEF Counted
  <1>6. Reserved'
    BY <1>1, <1>4, EmptyTransaction, IdleReserved, LogAssumption
  <1>7. Transaction(lh)' /\ Transaction(hdr)'
    BY <1>1, EmptyTransaction DEF Transaction, Injective
  <1> QED
    BY <1>2, <1>3, <1>5, <1>6, <1>7

LEMMA CInvClear ==
    ASSUME CInv, NEW o \in Procs, ClearLog(o), Active = {}
    PROVE  CInv'
  <1>1. /\ pc[o] = "install" /\ pc' = [pc EXCEPT ![o] = "done"] /\ EraseLog
        /\ UNCHANGED <<boot, buf, wrote, panicked>>
    BY DEF ClearLog, Goto
  <1>2. /\ pc' \in [Procs -> {"idle", "begin", "asleep"} \cup InOp \cup Committing]
        /\ boot' \in {"read_head", "install", "up"}
        /\ \A q \in Procs : pc'[q] \in {"modified", "checked"} <=> pc[q] \in {"modified", "checked"}
    BY <1>1 DEF CInv, TypeOK, Committing, InOp
  <1>3. Active' = {}
    BY <1>1 DEF Active, CInv, TypeOK, InOp
  <1> QED
    BY <1>1, <1>2, <1>3, CInvErase

LEMMA CInvCommitted ==
    ASSUME CInv, NEW o \in Procs, Committed(o)
    PROVE  CInv'
  <1> USE DEF CInv
  <1>1. /\ pc[o] = "done" /\ committing' = FALSE /\ pc' = WakeupAnd(o, "idle")
        /\ UNCHANGED <<disk, cache, dirty, lh, outstanding, tail, boot, buf, wrote, panicked>>
    BY DEF Committed
  <1>2. /\ pc' \in [Procs -> {"idle", "begin", "asleep"} \cup InOp \cup Committing]
        /\ pc'[o] = "idle"
        /\ \A q \in Procs \ {o} : pc'[q] = pc[q] \/ (pc[q] = "asleep" /\ pc'[q] = "begin")
    <2> DEFINE D == {"idle", "begin", "asleep"} \cup InOp \cup Committing
    <2> SUFFICES /\ pc' \in [Procs -> D] /\ pc'[o] = "idle"
                 /\ \A q \in Procs \ {o} : pc'[q] = pc[q] \/ (pc[q] = "asleep" /\ pc'[q] = "begin")
      OBVIOUS
    <2>1. {"idle", "begin"} \subseteq D /\ pc \in [Procs -> D]
      BY DEF TypeOK
    <2> HIDE DEF D
    <2> QED
      BY <1>1, <2>1 DEF WakeupAnd
  <1>3. TypeOK'
    BY <1>1, <1>2 DEF TypeOK, disk
  <1>4. Active' = Active
    BY <1>1, <1>2 DEF Active, InOp
  <1>5. CallsOK'
    BY <1>1, <1>2 DEF CallsOK
  <1>6. Reserved'
    BY <1>1, <1>4, CountFrame
  <1> QED
    BY <1>1, <1>3, <1>4, <1>5, <1>6 DEF disk, Counted, Transaction, Injective

LEMMA CInvEvict ==
    ASSUME CInv, NEW b \in Blocks, Evict(b)
    PROVE  CInv'
  <1> USE DEF CInv
  <1>1. /\ cache' = [cache EXCEPT ![b] = home[b]]
        /\ UNCHANGED <<disk, dirty, lh, outstanding, committing, tail, boot, pc, buf, wrote, panicked>>
    BY DEF Evict, calls
  <1>2. TypeOK' /\ Active' = Active /\ CallsOK'
    BY <1>1 DEF TypeOK, disk, Active, CallsOK
  <1>3. Reserved'
    BY <1>1, <1>2, CountFrame
  <1> QED
    BY <1>1, <1>2, <1>3 DEF disk, Counted, Transaction, Injective

LEMMA CInvCrash ==
    ASSUME CInv, Crash
    PROVE  CInv'
  <1> USE DEF CInv
  <1>1. Active' = {} /\ outstanding' = 0 /\ lh' = <<>>
    BY DEF Crash, Active, InOp
  <1>2. TypeOK'
    <2>1. /\ pc' \in [Procs -> {"idle", "begin", "asleep"} \cup InOp \cup Committing]
          /\ buf' \in [Procs -> Blocks \cup {NoBlock}]
          /\ wrote' \in [Procs -> SUBSET Blocks]
      BY DEF Crash
    <2>2. committing' \in BOOLEAN /\ panicked' \in BOOLEAN /\ dirty' \subseteq Blocks
      BY DEF Crash
    <2>3. /\ lh' \in Seq(Blocks) /\ Len(lh') <= LOGSIZE
          /\ outstanding' \in Nat /\ tail' \in Nat \ {0} /\ boot' \in {"read_head", "install", "up"}
      BY <1>1, EmptyTransaction, LogAssumption DEF Crash
    <2>4. cache' \in [Blocks -> Values] /\ UNCHANGED <<home, logd, hdr>>
      BY DEF Crash, TypeOK, disk
    <2> QED
      BY <2>1, <2>2, <2>3, <2>4 DEF TypeOK
  <1>3. CallsOK'
    BY FS_EmptySet, LogAssumption DEF Crash, CallsOK
  <1>4. Counted'
    BY <1>1, FS_EmptySet DEF Counted
  <1>5. Reserved'
    BY <1>1, EmptyTransaction, IdleReserved, LogAssumption
  <1>6. Transaction(lh)' /\ Transaction(hdr)'
    BY <1>1, EmptyTransaction DEF Crash, disk, Transaction, Injective
  <1> QED
    BY <1>2, <1>3, <1>4, <1>5, <1>6 DEF Crash

LEMMA CInvReadHead ==
    ASSUME CInv, ReadHead
    PROVE  CInv'
  <1> USE DEF CInv
  <1>1. /\ boot = "read_head" /\ boot' = "install" /\ lh' = hdr
        /\ UNCHANGED <<disk, cache, dirty, outstanding, committing, tail, pc, buf, wrote, panicked>>
    BY DEF ReadHead, calls
  <1>2. TypeOK' /\ Active' = Active /\ CallsOK'
    BY <1>1 DEF TypeOK, disk, Active, CallsOK
  <1>3. Active = {} /\ outstanding = 0
    BY <1>1, FS_EmptySet DEF Counted
  <1>4. Reserved'
    BY <1>1, <1>2, <1>3, IdleReserved DEF TypeOK
  <1> QED
    BY <1>1, <1>2, <1>3, <1>4 DEF disk, Counted, Transaction, Injective

LEMMA CInvRecoverClear ==
    ASSUME CInv, RecoverClear
    PROVE  CInv'
  <1>1. boot = "install" /\ boot' = "up" /\ EraseLog /\ UNCHANGED <<pc, buf, wrote, panicked>>
    BY DEF RecoverClear, calls
  <1>2. Active = {} /\ Active' = {}
    BY <1>1 DEF CInv, Counted, Active
  <1> QED
    BY <1>1, <1>2, CInvErase DEF CInv, TypeOK

-----------------------------------------------------------------------------
(***************************************************************************)
(* Every step preserves the contents half.                                 *)
(***************************************************************************)

\* Who runs tells the phase.
LEMMA WhoRuns ==
    ASSUME CInv, Phase
    PROVE  /\ boot # "up" => Recovering
           /\ Active # {} => Collecting
           /\ boot = "up" /\ ~committing => Collecting
           /\ boot = "up" /\ committing => CommitRuns
           /\ \A o \in Procs : pc[o] \in Committing =>
                 /\ CommitRuns /\ Active = {}
                 /\ Writing(o) \/ Installing(o) \/ Erased(o)
                 /\ \A q \in Procs \ {o} : pc[q] \in {"idle", "begin", "asleep"}
  <1>1. boot # "up" => Recovering
    BY DEF Phase, Collecting, CommitRuns
  <1>2. boot = "up" /\ ~committing => Collecting
    BY DEF Phase, Recovering, CommitRuns
  <1>3. boot = "up" /\ committing => CommitRuns
    BY DEF Phase, Recovering, Collecting
  <1>4. Active # {} => Collecting
    BY <1>2 DEF CInv, Counted
  <1>5. ASSUME NEW o \in Procs, pc[o] \in Committing
        PROVE  /\ CommitRuns /\ Active = {}
               /\ Writing(o) \/ Installing(o) \/ Erased(o)
               /\ \A q \in Procs \ {o} : pc[q] \in {"idle", "begin", "asleep"}
    <2>1. CommitRuns
      BY <1>5 DEF Phase, Recovering, Collecting, Committing
    <2>2. Active = {}
      BY <2>1 DEF CommitRuns, CInv, Counted
    <2>3. PICK r \in Procs : /\ Writing(r) \/ Installing(r) \/ Erased(r)
                             /\ \A q \in Procs \ {r} : pc[q] \in {"idle", "begin", "asleep"}
      BY <2>1 DEF CommitRuns
    <2>4. r = o
      BY <1>5, <2>3 DEF Committing
    <2> QED
      BY <2>1, <2>2, <2>3, <2>4
  <1> QED
    BY <1>1, <1>2, <1>3, <1>4, <1>5

LEMMA PhaseBegin ==
    ASSUME CInv, Phase, NEW o \in Procs, BeginOp(o)
    PROVE  Phase'
  <1>1. CASE ~committing
    <2>1. Collecting
      BY <1>1, WhoRuns DEF BeginOp
    <2>2. pc' \in {[pc EXCEPT ![o] = "asleep"], [pc EXCEPT ![o] = "op"]} /\ pc[o] \in {"idle", "begin"}
      BY DEF BeginOp, Goto
    <2>3. UNCHANGED <<disk, cache, dirty, lh, committing, boot, buf>>
      BY DEF BeginOp
    <2>4. \A q \in Procs : pc'[q] \notin Committing
      BY <2>1, <2>2 DEF Collecting, Committing, CInv, TypeOK
    <2>5. Active \subseteq Active'
      BY <2>2 DEF Active, InOp, CInv, TypeOK
    <2>6. Collecting'
      BY <2>1, <2>3, <2>4, <2>5 DEF Collecting, disk, Logged, CleanOutside
    <2> QED
      BY <2>6 DEF Phase
  <1>2. CASE committing
    <2>1. CommitRuns
      BY <1>2, WhoRuns DEF BeginOp
    <2>2. pc' = [pc EXCEPT ![o] = "asleep"] /\ pc[o] \in {"idle", "begin"}
      BY <1>2 DEF BeginOp, Goto, MustWait
    <2>3. UNCHANGED <<disk, memory, boot>>
      BY <1>2 DEF BeginOp, MustWait, memory
    <2>4. PICK r \in Procs : /\ Writing(r) \/ Installing(r) \/ Erased(r)
                             /\ \A q \in Procs \ {r} : pc[q] \in {"idle", "begin", "asleep"}
      BY <2>1 DEF CommitRuns
    <2>5. r # o /\ pc'[r] = pc[r]
      BY <2>2, <2>4 DEF Writing, Installing, Erased, CInv, TypeOK
    <2>6. (Writing(r) \/ Installing(r) \/ Erased(r))'
      BY <2>3, <2>4, <2>5 DEF Writing, Installing, Erased, disk, memory, Logged, CleanOutside,
                              InLoop, Copied, Installed
    <2>7. \A q \in Procs \ {r} : pc'[q] \in {"idle", "begin", "asleep"}
      BY <2>2, <2>4 DEF CInv, TypeOK
    <2> QED
      BY <1>2, <2>1, <2>3, <2>6, <2>7 DEF Phase, CommitRuns, memory
  <1> QED
    BY <1>1, <1>2

LEMMA PhaseKill ==
    ASSUME CInv, Phase, NEW o \in Procs, KillWakes(o)
    PROVE  Phase'
  <1>1. pc' = [pc EXCEPT ![o] = "begin"] /\ pc[o] = "asleep" /\ UNCHANGED <<disk, memory, boot, buf>>
    BY DEF KillWakes, Goto
  <1>2. CASE Collecting
    <2>1. Active' = Active
      BY <1>1 DEF Active, InOp, CInv, TypeOK
    <2>2. Collecting'
      BY <1>1, <1>2, <2>1 DEF Collecting, disk, memory, Logged, CleanOutside, Committing, CInv, TypeOK
    <2> QED
      BY <2>2 DEF Phase
  <1>3. CASE CommitRuns
    <2>1. PICK r \in Procs : /\ Writing(r) \/ Installing(r) \/ Erased(r)
                             /\ \A q \in Procs \ {r} : pc[q] \in {"idle", "begin", "asleep"}
      BY <1>3 DEF CommitRuns
    <2>2. r # o /\ pc'[r] = pc[r]
      BY <1>1, <2>1 DEF Writing, Installing, Erased, CInv, TypeOK
    <2>3. (Writing(r) \/ Installing(r) \/ Erased(r))'
      BY <1>1, <2>1, <2>2 DEF Writing, Installing, Erased, disk, memory, Logged, CleanOutside,
                              InLoop, Copied, Installed
    <2>4. \A q \in Procs \ {r} : pc'[q] \in {"idle", "begin", "asleep"}
      BY <1>1, <2>1 DEF CInv, TypeOK
    <2> QED
      BY <1>1, <1>3, <2>3, <2>4 DEF Phase, CommitRuns, memory
  <1> QED
    BY <1>1, <1>2, <1>3 DEF Phase, Recovering

LEMMA PhaseOp ==
    ASSUME CInv, Phase, NEW o \in Procs, OpStep(o), Active' = Active, CInv'
    PROVE  Phase'
  <1>1. o \in Active /\ Collecting /\ boot = "up" /\ ~committing
    <2>1. o \in Active
      BY DEF OpStep, Modify, LogWriteCheck, LogWrite, Active, InOp
    <2> QED
      BY <2>1, WhoRuns DEF Collecting
  <1>2. /\ pc'[o] \notin Committing
        /\ \A q \in Procs \ {o} : pc'[q] = pc[q] /\ buf'[q] = buf[q]
        /\ UNCHANGED <<hdr, home, committing, boot>>
    BY DEF OpStep, Modify, LogWriteCheck, LogWrite, Goto, CInv, TypeOK, Committing, disk, memory
  <1>3. dirty' = Logged' /\ CleanOutside(Logged \cup {buf[q] : q \in Procs})'
    <2>1. ASSUME NEW b \in Blocks, NEW v \in Values, Modify(o, b, v)
          PROVE  dirty' = Logged' /\ CleanOutside(Logged \cup {buf[q] : q \in Procs})'
      <3>1. buf[o] = NoBlock /\ buf'[o] = b /\ cache' = [cache EXCEPT ![b] = v] /\ UNCHANGED <<dirty, lh>>
        BY <2>1 DEF Modify, CInv, TypeOK, CallsOK
      <3>2. ASSUME NEW x \in Blocks, x \notin Logged, \A q \in Procs : x # buf'[q]
            PROVE  cache'[x] = home'[x]
        <4>1. x # b /\ \A q \in Procs : x # buf[q]
          BY <1>2, <3>1, <3>2, LogAssumption
        <4> QED
          BY <1>1, <1>2, <3>1, <3>2, <4>1 DEF Collecting, CleanOutside, CInv, TypeOK
      <3> QED
        BY <1>1, <3>1, <3>2 DEF Collecting, CleanOutside, Logged
    <2>2. CASE LogWriteCheck(o)
      BY <1>1, <2>2 DEF LogWriteCheck, Collecting, CleanOutside, Logged, disk, memory
    <2>3. CASE LogWrite(o)
      <3>1. buf[o] \in Blocks
        BY <2>3 DEF LogWrite, CInv, CallsOK, TypeOK
      <3>2. Logged' = Logged \cup {buf[o]} /\ dirty' = dirty \cup {buf[o]} /\ UNCHANGED cache
        BY <2>3, <3>1, AbsorbAdds DEF LogWrite, Pin, CInv, TypeOK, Transaction
      <3>3. ASSUME NEW x \in Blocks, x \notin Logged', \A q \in Procs : x # buf'[q]
            PROVE  cache'[x] = home'[x]
        BY <1>1, <1>2, <3>2, <3>3 DEF Collecting, CleanOutside
      <3> QED
        BY <1>1, <3>2, <3>3 DEF Collecting, CleanOutside
    <2> QED
      BY <2>1, <2>2, <2>3 DEF OpStep
  <1>4. Collecting'
    BY <1>1, <1>2, <1>3 DEF Collecting
  <1> QED
    BY <1>4 DEF Phase

\* Nobody holds a buffer when no call is in progress.
LEMMA QuietBufs ==
    ASSUME CInv, NEW o \in Procs, pc[o] \notin {"modified", "checked"}
    PROVE  buf[o] = NoBlock
  BY DEF CInv, CallsOK

\* A cache without differences is the disk.
LEMMA CleanIsHome ==
    ASSUME CInv, CleanOutside({NoBlock})
    PROVE  cache = home
  BY LogAssumption DEF CInv, TypeOK, CleanOutside

LEMMA PhaseEnd ==
    ASSUME CInv, Phase, NEW o \in Procs, EndOp(o), CInv'
    PROVE  Phase'
  <1>1. /\ ~committing /\ boot = "up" /\ pc[o] = "op" /\ o \in Active
        /\ outstanding \in Nat \ {0} /\ outstanding' = outstanding - 1
        /\ UNCHANGED <<disk, cache, dirty, lh, boot, buf>>
    BY EndOpStep
  <1>2. Collecting
    BY <1>1, WhoRuns
  <1>3. CASE outstanding # 1
    <2>1. pc' = WakeupAnd(o, "idle") /\ UNCHANGED committing
      BY <1>3, EndOpStep
    <2>2. \A q \in Procs : pc'[q] \notin Committing
      BY <1>2, <2>1 DEF WakeupAnd, Collecting, Committing
    <2>3. Active' # {}
      <3>1. outstanding' # 0 /\ outstanding' = Cardinality(Active')
        BY <1>1, <1>3 DEF CInv, Counted
      <3> QED
        BY <3>1, FS_EmptySet
    <2>4. Collecting'
      BY <1>1, <1>2, <2>1, <2>2, <2>3 DEF Collecting, disk, Logged, CleanOutside
    <2> QED
      BY <2>4 DEF Phase
  <1>4. CASE outstanding = 1
    <2>1. /\ Active = {o} /\ committing' = TRUE /\ tail' = 1
          /\ pc' = [pc EXCEPT ![o] = IF lh = <<>> THEN "done" ELSE "write_log"]
      BY <1>4, EndOpStep
    <2>2. \A q \in Procs \ {o} : pc[q] \in {"idle", "begin", "asleep"} /\ pc'[q] = pc[q]
      BY <1>2, <2>1 DEF Active, Collecting, CInv, TypeOK
    <2>3. \A q \in Procs : buf[q] = NoBlock
      BY <1>1, <2>2, QuietBufs
    <2>4. CleanOutside(Logged \cup {NoBlock})
      BY <1>2, <2>3 DEF Collecting, CleanOutside
    <2>5. CleanOutside(Logged)
      BY <2>4, LogAssumption DEF CleanOutside
    <2>6. Len(lh) \in Nat /\ (lh = <<>> => Logged = {})
      BY LenProperties, EmptyTransaction DEF Logged, CInv, TypeOK
    <2>7. CASE lh = <<>>
      <3>1. cache = home
        BY <2>4, <2>6, <2>7, CleanIsHome
      <3>2. Erased(o)'
        BY <1>1, <1>2, <2>1, <2>6, <2>7, <3>1 DEF Erased, Collecting, disk, CInv, TypeOK
      <3> QED
        BY <1>1, <2>1, <2>2, <3>2 DEF Phase, CommitRuns
    <2>8. CASE lh # <<>>
      <3>1. Writing(o)'
        BY <1>1, <1>2, <2>1, <2>5, <2>6, <2>8 DEF Writing, Collecting, disk, Logged, CleanOutside,
                                                  InLoop, Copied, CInv, TypeOK
      <3> QED
        BY <1>1, <2>1, <2>2, <3>1 DEF Phase, CommitRuns
    <2> QED
      BY <2>7, <2>8
  <1> QED
    BY <1>1, <1>3, <1>4

LEMMA PhaseWriteLog ==
    ASSUME CInv, Phase, NEW o \in Procs, WriteLog(o)
    PROVE  Phase'
  <1>1. /\ pc[o] = "write_log" /\ tail <= Len(lh) /\ tail' = tail + 1
        /\ logd' = [logd EXCEPT ![tail] = cache[lh[tail]]]
        /\ UNCHANGED <<home, hdr, cache, dirty, lh, committing, boot, pc>>
    BY DEF WriteLog, calls
  <1>2. /\ CommitRuns /\ Writing(o)
        /\ \A q \in Procs \ {o} : pc[q] \in {"idle", "begin", "asleep"}
    BY <1>1, WhoRuns DEF Committing, Installing, Erased
  <1>3. tail \in Nat \ {0} /\ Len(lh) \in Nat /\ tail \in 1 .. (nlog - 1)
    BY <1>1, LenProperties, LogAssumption DEF CInv, TypeOK, Transaction
  <1>4. Copied(tail - 1)'
    BY <1>1, <1>2, <1>3 DEF Writing, Copied, CInv, TypeOK
  <1>5. InLoop'
    BY <1>1, <1>3 DEF InLoop
  <1>6. Writing(o)'
    BY <1>1, <1>2, <1>4, <1>5 DEF Writing, CleanOutside, Logged
  <1> QED
    BY <1>1, <1>2, <1>6 DEF Phase, CommitRuns

LEMMA PhaseWriteHead ==
    ASSUME CInv, Phase, NEW o \in Procs, WriteHead(o)
    PROVE  Phase' /\ Writing(o) /\ tail = Len(lh) + 1
  <1>1. /\ pc[o] = "write_log" /\ tail > Len(lh) /\ pc' = [pc EXCEPT ![o] = "install"]
        /\ hdr' = lh /\ tail' = 1
        /\ UNCHANGED <<home, logd, cache, dirty, lh, committing, boot>>
    BY DEF WriteHead, Goto
  <1>2. /\ CommitRuns /\ Writing(o)
        /\ \A q \in Procs \ {o} : pc[q] \in {"idle", "begin", "asleep"}
    BY <1>1, WhoRuns DEF Committing, Installing, Erased
  <1>3. tail \in Nat /\ Len(lh) \in Nat /\ tail = Len(lh) + 1
    BY <1>1, <1>2, LenProperties DEF CInv, TypeOK, Writing, InLoop
  <1>4. Copied(Len(lh))' /\ Installed(tail - 1)' /\ InLoop'
    BY <1>1, <1>2, <1>3 DEF Writing, Copied, Installed, InLoop
  <1>5. dirty' = {lh'[i] : i \in tail' .. Len(lh')} /\ CleanOutside(dirty)'
    BY <1>1, <1>2, <1>3 DEF Writing, Logged, CleanOutside
  <1>6. pc'[o] = "install" /\ \A q \in Procs \ {o} : pc'[q] = pc[q]
    BY <1>1 DEF CInv, TypeOK
  <1>7. Installing(o)'
    BY <1>1, <1>4, <1>5, <1>6 DEF Installing
  <1> QED
    BY <1>1, <1>2, <1>3, <1>6, <1>7 DEF Phase, CommitRuns

\* A turn of install_trans brings one more block home and touches no other.
LEMMA InstallTurn ==
    ASSUME CInv, InstallBlock, InLoop, Installed(tail - 1)
    PROVE  /\ InLoop' /\ Installed(tail - 1)'
           /\ home'[lh[tail]] = logd[tail] /\ cache'[lh[tail]] = logd[tail]
           /\ \A b \in Blocks \ {lh[tail]} : home'[b] = home[b] /\ cache'[b] = cache[b]
  <1>1. /\ tail \in 1 .. Len(lh) /\ lh[tail] \in Blocks /\ Len(lh) \in Nat
        /\ tail' = tail + 1 /\ UNCHANGED <<lh, logd>>
        /\ home' = [home EXCEPT ![lh[tail]] = logd[tail]]
        /\ cache' = [cache EXCEPT ![lh[tail]] = logd[tail]]
    BY InstallTypes, LenProperties DEF InstallBlock, CInv, TypeOK
  <1>2. /\ home'[lh[tail]] = logd[tail] /\ cache'[lh[tail]] = logd[tail]
        /\ \A b \in Blocks \ {lh[tail]} : home'[b] = home[b] /\ cache'[b] = cache[b]
    BY <1>1 DEF CInv, TypeOK
  <1>3. InLoop'
    BY <1>1 DEF InLoop
  <1>4. ASSUME NEW i \in 1 .. tail
        PROVE  home'[lh[i]] = logd[i]
    <2>1. i \in 1 .. Len(lh)
      BY <1>1
    <2>2. lh[i] \in Blocks
      BY <2>1, ElementOfSeq DEF CInv, TypeOK
    <2>3. CASE i = tail
      BY <1>2, <2>3
    <2>4. CASE i # tail
      <3>1. lh[i] # lh[tail]
        BY <1>1, <2>1, <2>4 DEF CInv, Transaction, Injective
      <3>2. home[lh[i]] = logd[i]
        BY <1>1, <2>4 DEF Installed
      <3> QED
        BY <1>2, <2>2, <3>1, <3>2
    <2> QED
      BY <2>3, <2>4
  <1>5. Installed(tail - 1)'
    BY <1>1, <1>4 DEF Installed
  <1> QED
    BY <1>2, <1>3, <1>5

LEMMA PhaseInstall ==
    ASSUME CInv, Phase, NEW o \in Procs, InstallTrans(o)
    PROVE  Phase' /\ Installing(o) /\ cache' = cache
  <1>1. /\ pc[o] = "install" /\ InstallBlock
        /\ UNCHANGED <<boot, pc, logd, hdr, lh, committing>>
    BY DEF InstallTrans, InstallBlock, calls
  <1>2. /\ CommitRuns /\ Installing(o)
        /\ \A q \in Procs \ {o} : pc[q] \in {"idle", "begin", "asleep"}
    BY <1>1, WhoRuns DEF Committing, Writing, Erased
  <1>3. /\ tail \in 1 .. Len(lh) /\ lh[tail] \in Blocks /\ Len(lh) \in Nat
        /\ tail' = tail + 1 /\ dirty' = dirty \ {lh[tail]}
        /\ cache' = [cache EXCEPT ![lh[tail]] = logd[tail]]
    BY <1>1, InstallTypes, LenProperties DEF InstallBlock, CInv, TypeOK
  <1>4. /\ InLoop' /\ Installed(tail - 1)'
        /\ home'[lh[tail]] = logd[tail] /\ cache'[lh[tail]] = logd[tail]
        /\ \A b \in Blocks \ {lh[tail]} : home'[b] = home[b] /\ cache'[b] = cache[b]
    BY <1>1, <1>2, InstallTurn DEF Installing
  <1>5. logd[tail] = cache[lh[tail]]
    BY <1>2, <1>3 DEF Installing, Copied
  <1>6. cache' = cache
    BY <1>3, <1>5 DEF CInv, TypeOK
  <1>7. dirty' = {lh[i] : i \in tail + 1 .. Len(lh)}
    BY <1>2, <1>3 DEF Installing, CInv, Transaction, Injective
  <1>8. CleanOutside(dirty)'
    BY <1>2, <1>3, <1>4, <1>5, <1>6 DEF Installing, CleanOutside
  <1>9. Copied(Len(lh))'
    BY <1>1, <1>2, <1>6 DEF Installing, Copied
  <1>10. Installing(o)'
    BY <1>1, <1>2, <1>3, <1>4, <1>7, <1>8, <1>9 DEF Installing
  <1> QED
    BY <1>1, <1>2, <1>6, <1>10 DEF Phase, CommitRuns

LEMMA PhaseClear ==
    ASSUME CInv, Phase, NEW o \in Procs, ClearLog(o)
    PROVE  Phase' /\ Installing(o) /\ cache = home
  <1>1. /\ pc[o] = "install" /\ pc' = [pc EXCEPT ![o] = "done"]
        /\ tail > Len(lh) /\ lh' = <<>> /\ hdr' = <<>>
        /\ UNCHANGED <<home, cache, dirty, boot, committing>>
    BY DEF ClearLog, EraseLog, Goto
  <1>2. /\ CommitRuns /\ Installing(o)
        /\ \A q \in Procs \ {o} : pc[q] \in {"idle", "begin", "asleep"}
    BY <1>1, WhoRuns DEF Committing, Writing, Erased
  <1>3. dirty = {}
    BY <1>1, <1>2, LenProperties DEF Installing, CInv, TypeOK
  <1>4. cache = home
    BY <1>2, <1>3, CleanIsHome DEF Installing, CleanOutside
  <1>5. pc'[o] = "done" /\ \A q \in Procs \ {o} : pc'[q] = pc[q]
    BY <1>1 DEF CInv, TypeOK
  <1>6. Erased(o)'
    BY <1>1, <1>3, <1>4, <1>5 DEF Erased
  <1> QED
    BY <1>1, <1>2, <1>4, <1>5, <1>6 DEF Phase, CommitRuns

LEMMA PhaseCommitted ==
    ASSUME CInv, Phase, NEW o \in Procs, Committed(o)
    PROVE  Phase'
  <1>1. /\ pc[o] = "done" /\ committing' = FALSE /\ pc' = WakeupAnd(o, "idle")
        /\ UNCHANGED <<disk, cache, dirty, lh, boot, buf>>
    BY DEF Committed
  <1>2. /\ CommitRuns /\ Erased(o)
        /\ \A q \in Procs \ {o} : pc[q] \in {"idle", "begin", "asleep"}
    BY <1>1, WhoRuns DEF Committing, Writing, Installing
  <1>3. \A q \in Procs : pc'[q] \notin Committing
    BY <1>1, <1>2 DEF WakeupAnd, Committing
  <1>4. Logged' = {}
    BY <1>1, <1>2, EmptyTransaction DEF Erased, Logged
  <1>5. Collecting'
    BY <1>1, <1>2, <1>3, <1>4 DEF Collecting, CommitRuns, Erased, disk, CleanOutside
  <1> QED
    BY <1>5 DEF Phase

\* A buffer that bget recycles has the contents of its block on disk.
LEMMA EvictClean ==
    ASSUME CInv, Phase, NEW b \in Blocks, Evict(b)
    PROVE  cache' = cache
  <1>1. b \notin dirty /\ (\A o \in Procs : buf[o] # b) /\ cache' = [cache EXCEPT ![b] = home[b]]
    BY DEF Evict
  <1>2. cache[b] = home[b]
    <2>1. CASE Recovering
      BY <2>1 DEF Recovering
    <2>2. CASE Collecting
      BY <1>1, <2>2 DEF Collecting, CleanOutside
    <2>3. CASE CommitRuns
      BY <1>1, <2>3 DEF CommitRuns, Writing, Installing, Erased, CleanOutside
    <2> QED
      BY <2>1, <2>2, <2>3 DEF Phase
  <1> QED
    BY <1>1, <1>2 DEF CInv, TypeOK

\* A step that changes none of the variables of a phase.
LEMMA PhaseFrame ==
    ASSUME Phase, UNCHANGED <<home, logd, hdr, cache, dirty, lh, committing, tail, boot, pc, buf>>
    PROVE  Phase'
  <1>1. Recovering => Recovering'
    BY DEF Recovering, InLoop, Installed
  <1>2. Collecting => Collecting'
    BY DEF Collecting, Logged, CleanOutside, Active
  <1>3. ASSUME NEW o \in Procs
        PROVE  /\ Writing(o) => Writing(o)'
               /\ Installing(o) => Installing(o)'
               /\ Erased(o) => Erased(o)'
    BY DEF Writing, Installing, Erased, Logged, CleanOutside, InLoop, Copied, Installed
  <1>4. CommitRuns => CommitRuns'
    BY <1>3 DEF CommitRuns
  <1> QED
    BY <1>1, <1>2, <1>4 DEF Phase

LEMMA PhaseCrash ==
    ASSUME CInv, Crash
    PROVE  Phase'
  <1>1. InLoop' /\ Installed(tail - 1)'
    BY EmptyTransaction DEF Crash, InLoop, Installed
  <1>2. Recovering'
    BY <1>1 DEF Recovering, Crash, disk
  <1> QED
    BY <1>2 DEF Phase

LEMMA PhaseReadHead ==
    ASSUME CInv, Phase, ReadHead
    PROVE  Phase'
  <1>1. /\ boot = "read_head" /\ boot' = "install" /\ lh' = hdr
        /\ UNCHANGED <<disk, cache, dirty, committing, tail, pc>>
    BY DEF ReadHead, calls
  <1>2. Recovering /\ tail = 1
    BY <1>1, WhoRuns DEF Recovering
  <1>3. InLoop' /\ Installed(tail - 1)'
    BY <1>1, <1>2, LenProperties DEF InLoop, Installed, CInv, TypeOK
  <1>4. Recovering'
    BY <1>1, <1>2, <1>3 DEF Recovering, disk
  <1> QED
    BY <1>4 DEF Phase

LEMMA PhaseRecoverInstall ==
    ASSUME CInv, Phase, RecoverInstall
    PROVE  Phase' /\ Recovering
  <1>1. boot = "install" /\ InstallBlock /\ UNCHANGED <<boot, pc, logd, hdr, lh, committing>>
    BY DEF RecoverInstall, InstallBlock, calls
  <1>2. Recovering
    BY <1>1, WhoRuns
  <1>3. /\ InLoop' /\ Installed(tail - 1)'
        /\ home'[lh[tail]] = logd[tail] /\ cache'[lh[tail]] = logd[tail]
        /\ \A b \in Blocks \ {lh[tail]} : home'[b] = home[b] /\ cache'[b] = cache[b]
    BY <1>1, <1>2, InstallTurn DEF Recovering
  <1>4. cache' = home' /\ dirty' = {}
    BY <1>1, <1>2 DEF Recovering, InstallBlock
  <1>5. Recovering'
    BY <1>1, <1>2, <1>3, <1>4 DEF Recovering
  <1> QED
    BY <1>2, <1>5 DEF Phase

LEMMA PhaseRecoverClear ==
    ASSUME CInv, Phase, RecoverClear
    PROVE  Phase' /\ Recovering
  <1>1. /\ boot = "install" /\ boot' = "up" /\ lh' = <<>> /\ hdr' = <<>>
        /\ UNCHANGED <<home, cache, dirty, committing, pc, buf>>
    BY DEF RecoverClear, EraseLog, calls
  <1>2. Recovering
    BY <1>1, WhoRuns
  <1>3. Logged' = {}
    BY <1>1, EmptyTransaction DEF Logged
  <1>4. Collecting'
    BY <1>1, <1>2, <1>3 DEF Collecting, Recovering, CleanOutside, Committing
  <1> QED
    BY <1>2, <1>4 DEF Phase

-----------------------------------------------------------------------------
(***************************************************************************)
(* The invariant and what follows from it.                                 *)
(***************************************************************************)

LEMMA InitIInv == Init => IInv
  <1> SUFFICES ASSUME Init PROVE IInv
    OBVIOUS
  <1>1. Active = {} /\ Logged = {} /\ Len(lh) = 0 /\ Transaction(lh) /\ Transaction(hdr)
    BY EmptyTransaction DEF Init, Active, InOp, Logged
  <1>2. TypeOK
    <2>1. /\ pc \in [Procs -> {"idle", "begin", "asleep"} \cup InOp \cup Committing]
          /\ buf \in [Procs -> Blocks \cup {NoBlock}]
          /\ wrote \in [Procs -> SUBSET Blocks]
      BY DEF Init
    <2>2. committing \in BOOLEAN /\ panicked \in BOOLEAN /\ dirty \subseteq Blocks
      BY DEF Init
    <2>3. home \in [Blocks -> Values] /\ cache \in [Blocks -> Values] /\ logd \in [1 .. (nlog - 1) -> Values]
      BY DEF Init
    <2>4. /\ lh \in Seq(Blocks) /\ Len(lh) <= LOGSIZE /\ hdr \in Seq(Blocks) /\ Len(hdr) <= LOGSIZE
          /\ outstanding \in Nat /\ tail \in Nat \ {0} /\ boot \in {"read_head", "install", "up"}
      BY EmptyTransaction, LogAssumption DEF Init
    <2> QED
      BY <2>1, <2>2, <2>3, <2>4 DEF TypeOK
  <1>3. Counted /\ CallsOK
    BY <1>1, FS_EmptySet, LogAssumption DEF Init, Counted, CallsOK
  <1>4. Reserved
    <2>1. Touched = {} /\ Cardinality({}) = 0
      BY <1>1, FS_EmptySet DEF Touched
    <2>2. 0 * MAXOPBLOCKS = 0
      BY LogAssumption
    <2> QED
      BY <1>1, <2>1, <2>2, LogAssumption DEF Init, Reserved
  <1>5. InLoop /\ Installed(tail - 1)
    BY <1>1 DEF Init, InLoop, Installed
  <1>6. Recovering
    BY <1>5 DEF Init, Recovering
  <1> QED
    BY <1>1, <1>2, <1>3, <1>4, <1>6 DEF IInv, CInv, Phase, Init

LEMMA StepIInv ==
    ASSUME CallsFit, IInv, [Next]_vars
    PROVE  IInv'
  <1> USE DEF IInv
  <1>1. ASSUME NEW o \in Procs, BeginOp(o) PROVE IInv'
    BY <1>1, CInvBegin, PhaseBegin
  <1>2. ASSUME NEW o \in Procs, KillWakes(o) PROVE IInv'
    BY <1>2, CInvKill, PhaseKill
  <1>3. ASSUME NEW o \in Procs, OpStep(o) PROVE IInv'
    <2>1. CInv'
      BY <1>3, CInvModify, CInvCheck, CInvLogWrite DEF OpStep
    <2>2. Active' = Active
      BY <1>3 DEF OpStep, Modify, LogWriteCheck, LogWrite, Goto, Active, InOp, CInv, TypeOK
    <2> QED
      BY <1>3, <2>1, <2>2, PhaseOp
  <1>4. ASSUME NEW o \in Procs, EndOp(o) PROVE IInv'
    BY <1>4, CInvEnd, PhaseEnd
  <1>5. ASSUME NEW o \in Procs, CommitStep(o) PROVE IInv'
    <2>1. CASE WriteLog(o)
      BY <2>1, CInvWriteLog, PhaseWriteLog
    <2>2. CASE WriteHead(o)
      BY <2>2, CInvWriteHead, PhaseWriteHead
    <2>3. CASE InstallTrans(o)
      BY <2>3, CInvInstall, PhaseInstall DEF InstallTrans
    <2>4. CASE ClearLog(o)
      <3>1. Active = {}
        BY <2>4, WhoRuns DEF ClearLog, Committing
      <3> QED
        BY <2>4, <3>1, CInvClear, PhaseClear
    <2>5. CASE Committed(o)
      BY <2>5, CInvCommitted, PhaseCommitted
    <2> QED
      BY <1>5, <2>1, <2>2, <2>3, <2>4, <2>5 DEF CommitStep
  <1>6. ASSUME NEW b \in Blocks, Evict(b) PROVE IInv'
    <2>1. cache' = cache /\ UNCHANGED <<home, logd, hdr, dirty, lh, committing, tail, boot, pc, buf>>
      BY <1>6, EvictClean DEF Evict, disk, calls
    <2> QED
      BY <1>6, <2>1, CInvEvict, PhaseFrame
  <1>7. CASE ReadHead
    BY <1>7, CInvReadHead, PhaseReadHead
  <1>8. CASE RecoverInstall
    BY <1>8, CInvInstall, PhaseRecoverInstall DEF RecoverInstall
  <1>9. CASE RecoverClear
    BY <1>9, CInvRecoverClear, PhaseRecoverClear
  <1>10. CASE Crash
    BY <1>10, CInvCrash, PhaseCrash
  <1>11. CASE UNCHANGED vars
    <2>1. UNCHANGED <<home, logd, hdr, cache, dirty, lh, outstanding, committing, tail, boot, pc, buf, wrote, panicked>>
      BY <1>11 DEF vars, disk, memory, calls
    <2>2. Active' = Active /\ TypeOK' /\ CallsOK'
      BY <2>1 DEF Active, CInv, TypeOK, CallsOK
    <2>3. CInv'
      BY <2>1, <2>2, CountFrame DEF CInv, Counted, Transaction, Injective
    <2> QED
      BY <2>1, <2>3, PhaseFrame
  <1> QED
    BY <1>1, <1>2, <1>3, <1>4, <1>5, <1>6, <1>7, <1>8, <1>9, <1>10, <1>11 DEF Next, Running

\* Types: in particular the header never holds more than LOGSIZE numbers.
THEOREM LogTypes == CallsFit => (Spec => []TypeOK)
  <1> SUFFICES ASSUME CallsFit PROVE Spec => []TypeOK
    OBVIOUS
  <1>1. IInv /\ [Next]_vars => IInv'
    BY StepIInv
  <1>2. IInv => TypeOK
    BY DEF IInv, CInv
  <1> QED
    BY <1>1, <1>2, InitIInv, PTL DEF Spec

\* The panics of log.c are unreachable: log_write is never called outside a
\* call or with a full log, and end_op never meets a commit.
THEOREM LogNeverPanics == CallsFit => (Spec => []NoPanic)
  <1> SUFFICES ASSUME CallsFit PROVE Spec => []NoPanic
    OBVIOUS
  <1>1. IInv /\ [Next]_vars => IInv'
    BY StepIInv
  <1>2. IInv => NoPanic
    BY DEF IInv, CInv, NoPanic
  <1> QED
    BY <1>1, <1>2, InitIInv, PTL DEF Spec

\* What begin_op reserves is there, and write_log stays inside the log area.
THEOREM LogSpaceReserved == CallsFit => (Spec => []SpaceReserved)
  <1> SUFFICES ASSUME CallsFit PROVE Spec => []SpaceReserved
    OBVIOUS
  <1>1. IInv /\ [Next]_vars => IInv'
    BY StepIInv
  <1>2. IInv => SpaceReserved
    <2> SUFFICES ASSUME IInv PROVE SpaceReserved
      OBVIOUS
    <2> USE DEF IInv, CInv
    <2> DEFINE U == UNION {wrote[o] : o \in Active}
    <2>1. IsFiniteSet(Active) /\ outstanding = Cardinality(Active)
      BY DEF Counted
    <2>2. \A o \in Active : IsFiniteSet(wrote[o]) /\ Cardinality(wrote[o]) <= OpBlocks
      BY DEF CallsOK, Active
    <2>3. IsFiniteSet(U) /\ Cardinality(U) \in Nat
      BY <2>1, <2>2, TouchedBound
    <2>4. Touched \subseteq U
      BY DEF Touched
    <2>5. Cardinality(Touched) <= Cardinality(U) /\ Cardinality(Touched) \in Nat
      BY <2>3, <2>4, FS_Subset, FS_CardinalityType
    <2>6. outstanding * OpBlocks <= outstanding * MAXOPBLOCKS
      BY LogAssumption DEF TypeOK
    <2>7. outstanding * OpBlocks \in Nat /\ outstanding * MAXOPBLOCKS \in Nat /\ Len(lh) \in Nat
      BY LogAssumption, LenProperties DEF TypeOK
    <2>8. Len(lh) + outstanding * MAXOPBLOCKS <= LOGSIZE + Cardinality(Touched)
      BY DEF Reserved
    <2> HIDE DEF U
    <2>9. Len(lh) + outstanding * OpBlocks <= LOGSIZE + Cardinality(U)
      BY <2>3, <2>5, <2>6, <2>7, <2>8, LogAssumption
    <2> QED
      BY <2>1, <2>9 DEF SpaceReserved, Transaction, U
  <1> QED
    BY <1>1, <1>2, InitIInv, PTL DEF Spec

\* When no call is in progress and no commit is running, everything written is
\* at home on disk.
THEOREM LogQuietIsDurable == CallsFit => (Spec => []QuietIsDurable)
  <1> SUFFICES ASSUME CallsFit PROVE Spec => []QuietIsDurable
    OBVIOUS
  <1>1. IInv /\ [Next]_vars => IInv'
    BY StepIInv
  <1>2. IInv => QuietIsDurable
    <2> SUFFICES ASSUME IInv, boot = "up", outstanding = 0, ~committing
                 PROVE  home = cache /\ dirty = {} /\ hdr = <<>> /\ lh = <<>>
      BY DEF QuietIsDurable
    <2> USE DEF IInv
    <2>1. Collecting
      BY WhoRuns
    <2>2. Active = {}
      BY FS_EmptySet DEF CInv, Counted
    <2>3. lh = <<>> /\ hdr = <<>> /\ dirty = {}
      BY <2>1, <2>2, EmptyTransaction DEF Collecting, Logged
    <2>4. \A o \in Procs : buf[o] = NoBlock
      BY <2>2, QuietBufs DEF Active, InOp
    <2>5. CleanOutside({NoBlock})
      BY <2>1, <2>3, <2>4 DEF Collecting, CleanOutside
    <2> QED
      BY <2>3, <2>5, CleanIsHome
  <1> QED
    BY <1>1, <1>2, InitIInv, PTL DEF Spec

-----------------------------------------------------------------------------
(***************************************************************************)
(* Log implements Transactions.                                            *)
(***************************************************************************)

\* What the running system sees, as AtomicTransactions maps it.
Current == IF boot = "up" THEN cache ELSE Recovered

\* Recovery with an empty header leaves the disk as it is.
LEMMA RecoveredEmpty ==
    ASSUME home \in [Blocks -> Values], hdr = <<>>
    PROVE  Recovered = home
  BY EmptyTransaction DEF Recovered

\* Recovery takes the blocks of the header from the log area and no others.
LEMMA RecoveredBlocks ==
    ASSUME hdr \in Seq(Blocks), Injective(hdr)
    PROVE  /\ \A i \in 1 .. Len(hdr) : Recovered[hdr[i]] = logd[i]
           /\ \A b \in Blocks : (\A i \in 1 .. Len(hdr) : hdr[i] # b) => Recovered[b] = home[b]
  <1>1. ASSUME NEW i \in 1 .. Len(hdr)
        PROVE  Recovered[hdr[i]] = logd[i]
    <2> DEFINE j == CHOOSE k \in 1 .. Len(hdr) : hdr[k] = hdr[i]
    <2>1. hdr[i] \in Blocks
      BY ElementOfSeq
    <2>2. j \in 1 .. Len(hdr) /\ hdr[j] = hdr[i]
      OBVIOUS
    <2>3. j = i
      BY <2>2 DEF Injective
    <2>4. Recovered[hdr[i]] = logd[j]
      BY <2>1 DEF Recovered
    <2> QED
      BY <2>3, <2>4
  <1>2. ASSUME NEW b \in Blocks, \A i \in 1 .. Len(hdr) : hdr[i] # b
        PROVE  Recovered[b] = home[b]
    BY <1>2 DEF Recovered
  <1> QED
    BY <1>1, <1>2

\* A step that changes nothing on disk leaves what recovery makes of it.
LEMMA RecoveredFrame ==
    ASSUME UNCHANGED <<home, logd, hdr>>
    PROVE  Recovered' = Recovered
  BY DEF Recovered

LEMMA RefineInit == Init => Abs!Init
  <1> SUFFICES ASSUME Init PROVE Abs!Init
    OBVIOUS
  <1>1. Recovered = home /\ home \in [Blocks -> Values]
    BY RecoveredEmpty DEF Init
  <1>2. Active = {}
    BY DEF Init, Active, InOp
  <1> QED
    BY <1>1, <1>2 DEF Abs!Init, Init

\* A step that the callers cannot see.
LEMMA RefineStutter ==
    ASSUME Current' = Current, Recovered' = Recovered, Active' = Active
    PROVE  UNCHANGED Abs!vars
  BY DEF Abs!vars, Current

LEMMA RefineBegin ==
    ASSUME CInv, NEW o \in Procs, BeginOp(o)
    PROVE  [Abs!Next]_(Abs!vars)
  <1>1. UNCHANGED <<home, logd, hdr, cache, boot>> /\ pc[o] \in {"idle", "begin"}
    BY DEF BeginOp, disk
  <1>2. Recovered' = Recovered /\ Current' = Current
    BY <1>1, RecoveredFrame DEF Current
  <1>3. CASE pc' = [pc EXCEPT ![o] = "asleep"]
    <2>1. Active' = Active
      BY <1>1, <1>3 DEF Active, InOp, CInv, TypeOK
    <2> QED
      BY <1>2, <2>1, RefineStutter
  <1>4. CASE pc' = [pc EXCEPT ![o] = "op"]
    <2>1. o \notin Active /\ Active' = Active \cup {o}
      BY <1>1, <1>4 DEF Active, InOp, CInv, TypeOK
    <2>2. Abs!Begin(o)
      BY <1>2, <2>1 DEF Abs!Begin, Current
    <2> QED
      BY <2>2 DEF Abs!Next
  <1> QED
    BY <1>3, <1>4 DEF BeginOp, Goto

LEMMA RefineOp ==
    ASSUME CInv, Phase, NEW o \in Procs, OpStep(o)
    PROVE  [Abs!Next]_(Abs!vars)
  <1>1. o \in Active
    BY DEF OpStep, Modify, LogWriteCheck, LogWrite, Active, InOp
  <1>2. boot = "up"
    BY <1>1, WhoRuns DEF Collecting
  <1>3. /\ UNCHANGED <<home, logd, hdr, boot>>
        /\ Active' = Active
    BY DEF OpStep, Modify, LogWriteCheck, LogWrite, Goto, Active, InOp, CInv, TypeOK, disk
  <1>4. Recovered' = Recovered
    BY <1>3, RecoveredFrame
  <1>5. ASSUME NEW b \in Blocks, NEW v \in Values, Modify(o, b, v)
        PROVE  [Abs!Next]_(Abs!vars)
    <2>1. cache' = [cache EXCEPT ![b] = v]
      BY <1>5 DEF Modify
    <2>2. Abs!Write(o, b, v)
      BY <1>1, <1>2, <1>3, <1>4, <2>1 DEF Abs!Write
    <2> QED
      BY <2>2 DEF Abs!Next
  <1>6. CASE LogWriteCheck(o) \/ LogWrite(o)
    <2>1. UNCHANGED cache
      BY <1>6 DEF LogWriteCheck, LogWrite, memory
    <2>2. Current' = Current
      BY <1>3, <1>4, <2>1 DEF Current
    <2> QED
      BY <1>3, <1>4, <2>2, RefineStutter
  <1> QED
    BY <1>5, <1>6 DEF OpStep

LEMMA RefineEnd ==
    ASSUME CInv, NEW o \in Procs, EndOp(o)
    PROVE  [Abs!Next]_(Abs!vars)
  <1>1. boot = "up" /\ o \in Active /\ UNCHANGED <<disk, cache, boot>>
    BY EndOpStep
  <1>2. Recovered' = Recovered
    BY <1>1, RecoveredFrame DEF disk
  <1>3. Active' = Active \ {o}
    <2>1. CASE pc' = [pc EXCEPT ![o] = IF lh = <<>> THEN "done" ELSE "write_log"]
      BY <2>1 DEF Active, InOp, CInv, TypeOK
    <2>2. CASE pc' = WakeupAnd(o, "idle")
      BY <2>2 DEF Active, InOp, WakeupAnd
    <2> QED
      BY <2>1, <2>2, EndOpStep
  <1>4. Abs!End(o)
    BY <1>1, <1>2, <1>3 DEF Abs!End
  <1> QED
    BY <1>4 DEF Abs!Next

\* The write of the header is the step that commits.
LEMMA RefineWriteHead ==
    ASSUME CInv, Phase, NEW o \in Procs, WriteHead(o)
    PROVE  [Abs!Next]_(Abs!vars)
  <1>1. /\ Writing(o) /\ tail = Len(lh) + 1 /\ boot = "up" /\ Active = {}
        /\ hdr' = lh /\ pc' = [pc EXCEPT ![o] = "install"]
        /\ UNCHANGED <<home, logd, cache, lh, boot>>
    BY PhaseWriteHead, WhoRuns DEF WriteHead, Goto, CommitRuns, Committing
  <1>2. Active' = {}
    BY <1>1 DEF Active, InOp, CInv, TypeOK
  <1>3. hdr' \in Seq(Blocks) /\ Injective(hdr')
    BY <1>1 DEF CInv, TypeOK, Transaction
  <1>4. \A b \in Blocks : Recovered'[b] = cache[b]
    <2>1. /\ \A i \in 1 .. Len(hdr') : Recovered'[hdr'[i]] = logd'[i]
          /\ \A b \in Blocks : (\A i \in 1 .. Len(hdr') : hdr'[i] # b) => Recovered'[b] = home'[b]
      <3>1. ASSUME NEW i \in 1 .. Len(hdr')
            PROVE  Recovered'[hdr'[i]] = logd'[i]
        <4> DEFINE j == CHOOSE k \in 1 .. Len(hdr') : hdr'[k] = hdr'[i]
        <4>1. hdr'[i] \in Blocks
          BY <1>3, ElementOfSeq
        <4>2. j \in 1 .. Len(hdr') /\ hdr'[j] = hdr'[i]
          OBVIOUS
        <4>3. j = i
          BY <1>3, <4>2 DEF Injective
        <4>4. Recovered'[hdr'[i]] = logd'[j]
          BY <4>1 DEF Recovered
        <4> QED
          BY <4>3, <4>4
      <3>2. ASSUME NEW b \in Blocks, \A i \in 1 .. Len(hdr') : hdr'[i] # b
            PROVE  Recovered'[b] = home'[b]
        BY <3>2 DEF Recovered
      <3> QED
        BY <3>1, <3>2
    <2>2. \A i \in 1 .. Len(lh) : logd[i] = cache[lh[i]]
      BY <1>1, LenProperties DEF Writing, Copied, CInv, TypeOK
    <2>3. \A b \in Blocks : (\A i \in 1 .. Len(lh) : lh[i] # b) => cache[b] = home[b]
      BY <1>1 DEF Writing, CleanOutside, Logged
    <2> QED
      BY <1>1, <2>1, <2>2, <2>3
  <1>5. Recovered' = cache
    BY <1>4 DEF Recovered, CInv, TypeOK
  <1>6. Abs!Commit
    BY <1>1, <1>2, <1>5 DEF Abs!Commit
  <1> QED
    BY <1>6 DEF Abs!Next

\* write_log changes the log area while the header is empty.
LEMMA RefineWriteLog ==
    ASSUME CInv, Phase, NEW o \in Procs, WriteLog(o)
    PROVE  UNCHANGED Abs!vars
  <1>1. Writing(o)
    BY WhoRuns DEF WriteLog, Committing, Installing, Erased
  <1>2. hdr = <<>> /\ hdr' = <<>> /\ UNCHANGED <<home, cache, boot, pc>>
    BY <1>1 DEF WriteLog, Writing, calls
  <1>3. Recovered' = Recovered
    BY <1>2, EmptyTransaction DEF Recovered
  <1> QED
    BY <1>2, <1>3, RefineStutter DEF Current, Active

\* Installing a block of the committed transaction changes what is at home, not
\* what recovery makes of it.
LEMMA RecoveredInstall ==
    ASSUME CInv, InstallBlock, lh = hdr
    PROVE  Recovered' = Recovered
  <1>1. tail \in 1 .. Len(hdr) /\ home' = [home EXCEPT ![hdr[tail]] = logd[tail]] /\ UNCHANGED <<logd, hdr>>
    BY LenProperties DEF InstallBlock, CInv, TypeOK
  <1>2. ASSUME NEW b \in Blocks, \A i \in 1 .. Len(hdr) : hdr[i] # b
        PROVE  home'[b] = home[b]
    BY <1>1, <1>2 DEF CInv, TypeOK
  <1> QED
    BY <1>1, <1>2 DEF Recovered

\* Once every block is installed, what recovery makes of the disk is at home.
LEMMA RecoveredInstalled ==
    ASSUME CInv, lh = hdr, Installed(tail - 1), tail > Len(lh)
    PROVE  Recovered = home
  <1>1. \A i \in 1 .. Len(hdr) : home[hdr[i]] = logd[i]
    BY LenProperties DEF Installed, CInv, TypeOK
  <1>2. hdr \in Seq(Blocks) /\ Injective(hdr) /\ home \in [Blocks -> Values]
    BY DEF CInv, TypeOK, Transaction
  <1>3. \A b \in Blocks : Recovered[b] = home[b]
    BY <1>1, <1>2, RecoveredBlocks
  <1> QED
    BY <1>2, <1>3 DEF Recovered

LEMMA RefineInstall ==
    ASSUME CInv, Phase, NEW o \in Procs, InstallTrans(o)
    PROVE  UNCHANGED Abs!vars
  <1>1. hdr = lh /\ cache' = cache
    BY PhaseInstall DEF Installing
  <1>2. InstallBlock /\ UNCHANGED <<boot, pc>>
    BY DEF InstallTrans, calls
  <1>3. Recovered' = Recovered
    BY <1>1, <1>2, RecoveredInstall
  <1> QED
    BY <1>1, <1>2, <1>3, RefineStutter DEF Current, Active

LEMMA RefineClear ==
    ASSUME CInv, Phase, NEW o \in Procs, ClearLog(o)
    PROVE  UNCHANGED Abs!vars
  <1>1. /\ hdr = lh /\ Installed(tail - 1) /\ tail > Len(lh)
        /\ pc[o] = "install" /\ pc' = [pc EXCEPT ![o] = "done"]
        /\ hdr' = <<>> /\ UNCHANGED <<home, cache, boot>>
    BY PhaseClear DEF Installing, ClearLog, EraseLog, Goto
  <1>2. Recovered = home
    BY <1>1, RecoveredInstalled
  <1>3. Recovered' = home
    BY <1>1, EmptyTransaction DEF Recovered, CInv, TypeOK
  <1>4. Active' = Active
    BY <1>1 DEF Active, InOp, CInv, TypeOK
  <1> QED
    BY <1>1, <1>2, <1>3, <1>4, RefineStutter DEF Current

\* The steps that change neither the disk nor what the callers read.
LEMMA RefineQuiet ==
    ASSUME CInv, UNCHANGED <<home, logd, hdr, cache, boot>>, Active' = Active
    PROVE  UNCHANGED Abs!vars
  <1>1. Recovered' = Recovered
    BY RecoveredFrame
  <1> QED
    BY <1>1, RefineStutter DEF Current

LEMMA RefineCommitted ==
    ASSUME CInv, NEW o \in Procs, Committed(o)
    PROVE  UNCHANGED Abs!vars
  <1>1. UNCHANGED <<home, logd, hdr, cache, boot>>
    BY DEF Committed, disk
  <1>2. Active' = Active
    BY DEF Committed, WakeupAnd, Active, InOp
  <1> QED
    BY <1>1, <1>2, RefineQuiet

LEMMA RefineKill ==
    ASSUME CInv, NEW o \in Procs, KillWakes(o)
    PROVE  UNCHANGED Abs!vars
  <1>1. UNCHANGED <<home, logd, hdr, cache, boot>>
    BY DEF KillWakes, disk, memory
  <1>2. Active' = Active
    BY DEF KillWakes, Goto, Active, InOp, CInv, TypeOK
  <1> QED
    BY <1>1, <1>2, RefineQuiet

\* The machine loses its memory; initlog will bring back what Recovered says.
LEMMA RefineCrash ==
    ASSUME Crash
    PROVE  [Abs!Next]_(Abs!vars)
  <1>1. Recovered' = Recovered
    BY RecoveredFrame DEF Crash, disk
  <1>2. Active' = {} /\ boot' = "read_head"
    BY DEF Crash, Active, InOp
  <1>3. Abs!Crash
    BY <1>1, <1>2 DEF Abs!Crash
  <1> QED
    BY <1>3 DEF Abs!Next

\* The steps of initlog; when it returns, the cache is what was durable.
LEMMA RefineRecovery ==
    ASSUME CInv, Phase, ReadHead \/ RecoverInstall \/ RecoverClear
    PROVE  UNCHANGED Abs!vars
  <1>1. Recovering /\ boot # "up"
    BY WhoRuns DEF ReadHead, RecoverInstall, RecoverClear
  <1>2. Active' = Active
    BY DEF ReadHead, RecoverInstall, RecoverClear, calls, Active
  <1>3. CASE ReadHead
    <2>1. Recovered' = Recovered /\ boot' # "up"
      BY <1>3, RecoveredFrame DEF ReadHead, disk
    <2> QED
      BY <1>1, <1>2, <2>1, RefineStutter DEF Current
  <1>4. CASE RecoverInstall
    <2>1. lh = hdr /\ InstallBlock /\ boot' # "up"
      BY <1>1, <1>4 DEF RecoverInstall, Recovering
    <2>2. Recovered' = Recovered
      BY <2>1, RecoveredInstall
    <2> QED
      BY <1>1, <1>2, <2>1, <2>2, RefineStutter DEF Current
  <1>5. CASE RecoverClear
    <2>1. /\ hdr = lh /\ Installed(tail - 1) /\ tail > Len(lh) /\ cache = home
          /\ hdr' = <<>> /\ boot' = "up" /\ UNCHANGED <<home, cache>>
      BY <1>1, <1>5 DEF RecoverClear, EraseLog, Recovering
    <2>2. Recovered = home
      BY <2>1, RecoveredInstalled
    <2>3. Recovered' = home
      BY <2>1, EmptyTransaction DEF Recovered, CInv, TypeOK
    <2> QED
      BY <1>1, <1>2, <2>1, <2>2, <2>3, RefineStutter DEF Current
  <1> QED
    BY <1>3, <1>4, <1>5

LEMMA RefineStep ==
    ASSUME IInv, [Next]_vars
    PROVE  [Abs!Next]_(Abs!vars)
  <1> USE DEF IInv
  <1>1. ASSUME NEW o \in Procs, BeginOp(o) \/ KillWakes(o) \/ OpStep(o) \/ EndOp(o)
        PROVE  [Abs!Next]_(Abs!vars)
    BY <1>1, RefineBegin, RefineKill, RefineOp, RefineEnd
  <1>2. ASSUME NEW o \in Procs, CommitStep(o)
        PROVE  [Abs!Next]_(Abs!vars)
    BY <1>2, RefineWriteLog, RefineWriteHead, RefineInstall, RefineClear, RefineCommitted DEF CommitStep
  <1>3. ASSUME NEW b \in Blocks, Evict(b)
        PROVE  [Abs!Next]_(Abs!vars)
    <2>1. cache' = cache
      BY <1>3, EvictClean
    <2>2. UNCHANGED <<home, logd, hdr, boot>> /\ Active' = Active
      BY <1>3 DEF Evict, disk, calls, Active
    <2> QED
      BY <2>1, <2>2, RefineQuiet
  <1>4. CASE ReadHead \/ RecoverInstall \/ RecoverClear
    BY <1>4, RefineRecovery
  <1>5. CASE Crash
    BY <1>5, RefineCrash
  <1>6. CASE UNCHANGED vars
    <2>1. UNCHANGED <<home, logd, hdr, cache, boot>> /\ Active' = Active
      BY <1>6 DEF vars, disk, memory, calls, Active
    <2> QED
      BY <2>1, RefineQuiet
  <1> QED
    BY <1>1, <1>2, <1>3, <1>4, <1>5, <1>6 DEF Next, Running

\* The log implements atomic group transactions: whatever is interleaved and
\* wherever it crashes, also inside recovery, the disk recovers to the state
\* at the end of a whole group of calls.
THEOREM LogImplementsTransactions == CallsFit => (Spec => AtomicTransactions)
  <1> SUFFICES ASSUME CallsFit PROVE Spec => AtomicTransactions
    OBVIOUS
  <1>1. IInv /\ [Next]_vars => IInv'
    BY StepIInv
  <1>2. IInv /\ [Next]_vars => [Abs!Next]_(Abs!vars)
    BY RefineStep
  <1> QED
    BY <1>1, <1>2, InitIInv, RefineInit, PTL DEF Spec, AtomicTransactions, Abs!Spec
=============================================================================
