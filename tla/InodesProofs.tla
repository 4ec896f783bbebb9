---------------------------- MODULE InodesProofs ----------------------------
(***************************************************************************)
(* Proofs about Inodes for any number of processes, inodes, names and      *)
(* entries of the cache: what is referred to is allocated, link counts are *)
(* exact, and there is one circle in which processes wait for each other.  *)
(***************************************************************************)
EXTENDS Inodes, FiniteSetTheorems, WellFoundedInduction, TLAPS

\* Inode numbers are positive, and there are finitely many processes and names.
InodeConstants ==
    /\ IsFiniteSet(Procs) /\ None \notin Procs /\ IsFiniteSet(Names) /\ None \notin Names
    /\ Inums \subseteq Nat \ {0} /\ NINODE \in Nat

-----------------------------------------------------------------------------
(***************************************************************************)
(* The inductive invariant.                                                *)
(***************************************************************************)

\* Labels at which a call works on ip, at which it is in iput, and at which it
\* holds the directory's lock.
Calling == {"open", "open_locked", "create", "unlink", "unlink_count",
            "link", "link_dir", "link_bad"}
Putting == {"iput", "itrunc", "iput_free", "iput_ref"}
InRoot  == {"ialloc", "create", "unlink"}
Labels  == {"user", "ialloc"} \cup Calling \cup Putting

USE DEF At

\* The types of everything but the calls' positions.
Types ==
    /\ dtype \in [Inums -> BOOLEAN] /\ dnlink \in [Inums -> Nat]
    /\ dir \in [Names -> Inums \cup {None}] /\ rootlock \in Procs \cup {None}
    /\ inum \in [Entries -> Inums \cup {None}] /\ ref \in [Entries -> Nat]
    /\ valid \in [Entries -> BOOLEAN] /\ nlink \in [Entries -> Nat]
    /\ lock \in [Entries -> Procs \cup {None}]
    /\ \A f \in {ip, put, opened} : f \in [Procs -> Entries \cup {None}]

\* What a call has in its variables.
CallOK(p) ==
    /\ at[p] \in Putting <=> put[p] # None
    /\ ip[p] # None <=> at[p] \in Calling \/ then[p] = "link_bad"
    /\ then[p] = "link_bad" => at[p] \in Putting
    /\ at[p] \in {"open", "open_locked", "ialloc", "create"} => opened[p] = None
    /\ at[p] \in {"ialloc", "create", "unlink", "link", "link_dir"} => new[p].name # None
    /\ new[p].inum # None <=> at[p] \in {"ialloc", "create"}
    /\ at[p] = "create" => new[p].inum = inum[ip[p]]
    /\ at[p] = "unlink" => dir[new[p].name] = inum[ip[p]]
    /\ at[p] \in {"ialloc", "create"} => dir[new[p].name] = None

CallTypes ==
    /\ at \in [Procs -> Labels] /\ then \in [Procs -> {"user", "link_bad"}]
    /\ new \in [Procs -> [inum : Inums \cup {None}, name : Names \cup {None}]]

CallsOK == CallTypes /\ \A p \in Procs : CallOK(p)

\* Who holds the locks.
Rooted(p) == at[p] \in InRoot \/ then[p] = "link_bad"
RootOK    == \A p \in Procs : rootlock = p <=> Rooted(p)

Locked(p, e) ==
    \/ at[p] \in {"open_locked", "unlink_count"} /\ ip[p] = e
    \/ at[p] \in {"itrunc", "iput_free"} /\ put[p] = e
LockOK == \A e \in Entries, p \in Procs : lock[e] = p <=> Locked(p, e)

\* One reference for each pointer, and one entry in use for an inode.
RefsOK   == \A e \in Entries : ref[e] = Cardinality(Pointers(e))
UniqueOK ==
    /\ \A e \in Entries : ref[e] > 0 => inum[e] \in Inums
    /\ \A e, f \in Entries : ref[e] > 0 /\ ref[f] > 0 /\ inum[e] = inum[f] => e = f

\* The inodes a call can reach.  A call that has freed an inode, or has found
\* that it need not, is done with it; the create that is making one has not
\* shown it to anybody.
Reaches(q, i) ==
    \/ opened[q] # None /\ inum[opened[q]] = i
    \/ ip[q] # None /\ at[q] # "create" /\ inum[ip[q]] = i
    \/ at[q] \in {"iput", "itrunc"} /\ inum[put[q]] = i
Named(i)  == \E n \in Names : dir[n] = i
Live(i)   == Named(i) \/ \E q \in Procs : Reaches(q, i)
Making(i) == \E q \in Procs : new[q].inum = i

\* What can be reached or is being made is allocated; what is being made
\* cannot be reached yet, and has no links.
AllocOK == \A i \in Inums : Live(i) \/ Making(i) => dtype[i]
FreshOK == \A i \in Inums : Making(i) => ~Live(i) /\ dnlink[i] = 0

\* iput's decision to free stands until it has done so, and what it has freed
\* cannot be reached although its entry is still in use.
FreeingOK ==
    \A p \in Procs :
        /\ at[p] = "itrunc" => MayFree(put[p])
        /\ at[p] = "iput_free" => ~Live(inum[put[p]])

\* Link counts on disk, and the cache's copies of them.
NamesOf(i) == {n \in Names : dir[n] = i}
LinksOK ==
    \A i \in Inums : dtype[i] => dnlink[i] = Cardinality(NamesOf(i)) + Cardinality(Counting(i))

Freeing(e) == \E q \in Procs : at[q] = "iput_free" /\ put[q] = e
CacheOK    ==
    \A e \in Entries : ref[e] > 0 /\ valid[e] =>
        Freeing(e) \/ (dtype[inum[e]] /\ nlink[e] = dnlink[inum[e]])

\* A call that has unlinked a name has read the inode; a call on its way into
\* the iput of the directory has given up the directory's lock.
ReadOK == \A p \in Procs : at[p] = "unlink_count" => valid[ip[p]]
Halted == {"open", "open_locked", "unlink_count", "link", "link_bad", "iput"}
DputOK == dput \subseteq Procs /\ \A p \in dput : at[p] \in Halted /\ then[p] = "user"

IInv ==
    /\ Types /\ CallsOK /\ RootOK /\ LockOK /\ RefsOK /\ UniqueOK
    /\ AllocOK /\ FreshOK /\ FreeingOK /\ LinksOK /\ CacheOK

-----------------------------------------------------------------------------
(***************************************************************************)
(* Lemmas about numbers and finite sets.                                   *)
(***************************************************************************)

\* The first free entry of the cache, the first free inode of the disk.
LEMMA LowestIn ==
    ASSUME NEW S \in SUBSET Nat, S # {}
    PROVE  Lowest(S) \in S
  <1>1. IsWellFoundedOn(OpToRel(<, Nat), Nat)
    BY NatLessThanWellFounded
  <1>2. PICK x \in S : \A y \in S : ~(<<y, x>> \in OpToRel(<, Nat))
    BY <1>1, WFMin
  <1>3. \A y \in S : ~(y < x)
    BY <1>2 DEF OpToRel
  <1>4. \A y \in S : x <= y
    BY <1>3
  <1> QED BY <1>4 DEF Lowest

LEMMA CardAdd ==
    ASSUME NEW S, IsFiniteSet(S), NEW x, x \notin S
    PROVE  IsFiniteSet(S \cup {x}) /\ Cardinality(S \cup {x}) = Cardinality(S) + 1
  BY FS_AddElement

LEMMA CardDrop ==
    ASSUME NEW S, IsFiniteSet(S), NEW x \in S
    PROVE  /\ IsFiniteSet(S \ {x}) /\ Cardinality(S) \in Nat /\ Cardinality(S) >= 1
           /\ Cardinality(S \ {x}) = Cardinality(S) - 1
  <1>1. Cardinality(S) \in Nat /\ Cardinality(S \ {x}) \in Nat
    BY FS_CardinalityType, FS_RemoveElement
  <1>2. Cardinality(S \ {x}) = Cardinality(S) - 1
    BY FS_RemoveElement
  <1> QED BY <1>1, <1>2, FS_RemoveElement

LEMMA CardOne ==
    ASSUME NEW S, IsFiniteSet(S), Cardinality(S) <= 1, NEW x \in S, NEW y \in S
    PROVE  x = y
  <1> SUFFICES ASSUME x # y PROVE FALSE
    OBVIOUS
  <1>1. IsFiniteSet(S \ {x}) /\ Cardinality(S \ {x}) = Cardinality(S) - 1 /\ Cardinality(S) \in Nat
    BY CardDrop
  <1>2. Cardinality(S \ {x}) >= 1
    BY <1>1, CardDrop
  <1> QED BY <1>1, <1>2

-----------------------------------------------------------------------------
(***************************************************************************)
(* Lemmas about the pointers to an entry.                                  *)
(***************************************************************************)

Kinds == {"call", "iput", "file"}

LEMMA PointersAre ==
    ASSUME NEW e
    PROVE  Pointers(e) = {x \in Procs \X Kinds :
                            \/ x[2] = "call" /\ ip[x[1]] = e
                            \/ x[2] = "iput" /\ put[x[1]] = e
                            \/ x[2] = "file" /\ opened[x[1]] = e}
  BY DEF Pointers, Kinds

LEMMA HasPointer ==
    ASSUME NEW e, NEW p \in Procs
    PROVE  /\ <<p, "call">> \in Pointers(e) <=> ip[p] = e
           /\ <<p, "iput">> \in Pointers(e) <=> put[p] = e
           /\ <<p, "file">> \in Pointers(e) <=> opened[p] = e
  BY DEF Pointers

LEMMA PointersFinite ==
    ASSUME InodeConstants, NEW e
    PROVE  IsFiniteSet(Pointers(e)) /\ Cardinality(Pointers(e)) \in Nat
  <1>1. IsFiniteSet(Kinds)
    <2>1. IsFiniteSet({"call"})
      BY FS_Singleton
    <2>2. IsFiniteSet({"call"} \cup {"iput"})
      BY <2>1, FS_AddElement
    <2>3. IsFiniteSet(({"call"} \cup {"iput"}) \cup {"file"})
      BY <2>2, FS_AddElement
    <2>4. Kinds = ({"call"} \cup {"iput"}) \cup {"file"}
      BY DEF Kinds
    <2> QED BY <2>3, <2>4
  <1>2. IsFiniteSet(Procs \X Kinds)
    BY <1>1, FS_Product DEF InodeConstants
  <1>3. Pointers(e) \subseteq Procs \X Kinds
    BY PointersAre
  <1> QED BY <1>2, <1>3, FS_Subset, FS_CardinalityType

\* Whatever is pointed to is in use and holds an inode.
LEMMA InUseIs ==
    ASSUME InodeConstants, IInv, NEW p \in Procs
    PROVE  /\ ip[p] # None => ip[p] \in Entries /\ ref[ip[p]] > 0 /\ inum[ip[p]] \in Inums
           /\ put[p] # None => put[p] \in Entries /\ ref[put[p]] > 0 /\ inum[put[p]] \in Inums
           /\ opened[p] # None =>
                opened[p] \in Entries /\ ref[opened[p]] > 0 /\ inum[opened[p]] \in Inums
  <1>1. /\ ip[p] # None => ip[p] \in Entries
        /\ put[p] # None => put[p] \in Entries
        /\ opened[p] # None => opened[p] \in Entries
    BY DEF IInv, Types
  <1>2. \A e \in Entries : \A x \in Pointers(e) : ref[e] > 0
    <2> SUFFICES ASSUME NEW e \in Entries, NEW x \in Pointers(e) PROVE ref[e] > 0
      OBVIOUS
    <2>1. IsFiniteSet(Pointers(e))
      BY PointersFinite
    <2>2. Cardinality(Pointers(e)) \in Nat /\ Cardinality(Pointers(e)) >= 1
      BY <2>1, CardDrop
    <2>3. ref[e] = Cardinality(Pointers(e))
      BY DEF IInv, RefsOK
    <2> QED BY <2>2, <2>3
  <1>3. /\ ip[p] # None => ref[ip[p]] > 0
        /\ put[p] # None => ref[put[p]] > 0
        /\ opened[p] # None => ref[opened[p]] > 0
    BY <1>1, <1>2, HasPointer
  <1> QED BY <1>1, <1>3 DEF IInv, UniqueOK

\* The pointer that iput has is the only one when the count is one.
LEMMA SolePointer ==
    ASSUME InodeConstants, IInv, NEW p \in Procs, put[p] # None, ref[put[p]] = 1, NEW q \in Procs
    PROVE  ip[q] # put[p] /\ opened[q] # put[p] /\ (put[q] = put[p] => q = p)
  <1> DEFINE e == put[p]
  <1>1. e \in Entries
    BY InUseIs
  <1>2. IsFiniteSet(Pointers(e)) /\ Cardinality(Pointers(e)) <= 1
    <2>1. ref[e] = Cardinality(Pointers(e))
      BY <1>1 DEF IInv, RefsOK
    <2> QED BY <2>1, PointersFinite
  <1>3. <<p, "iput">> \in Pointers(e)
    BY HasPointer
  <1>4. \A x \in Pointers(e) : x = <<p, "iput">>
    BY <1>2, <1>3, CardOne
  <1>5. <<q, "call">> \notin Pointers(e) /\ <<q, "file">> \notin Pointers(e)
    BY <1>4
  <1>6. <<q, "iput">> \in Pointers(e) => q = p
    BY <1>4
  <1> QED BY <1>5, <1>6, HasPointer

-----------------------------------------------------------------------------
(***************************************************************************)
(* What a step of one process leaves alone.                                *)
(***************************************************************************)

\* The calls of the other processes; the inodes of the entries in use.
Others(p) ==
    \A q \in Procs : q # p =>
        /\ at'[q] = at[q] /\ ip'[q] = ip[q] /\ put'[q] = put[q]
        /\ then'[q] = then[q] /\ new'[q] = new[q] /\ opened'[q] = opened[q]
Kept == \A e \in Entries : ref[e] > 0 => inum'[e] = inum[e]

\* A link or an unlink between the count and the name.
Mid(p) == at[p] \in {"link_dir", "link_bad", "unlink_count"} \/ then[p] = "link_bad"

LEMMA CountingAre ==
    ASSUME NEW i
    PROVE  Counting(i) = {p \in Procs : Mid(p) /\ inum[ip[p]] = i}
  BY DEF Counting, Mid

LEMMA CountsFinite ==
    ASSUME InodeConstants, NEW i
    PROVE  /\ IsFiniteSet(NamesOf(i)) /\ Cardinality(NamesOf(i)) \in Nat
           /\ IsFiniteSet(Counting(i)) /\ Cardinality(Counting(i)) \in Nat
  BY FS_Subset, FS_CardinalityType DEF InodeConstants, NamesOf, Counting

\* An inode without links has no name and no link in progress.
LEMMA NoLinks ==
    ASSUME InodeConstants, IInv, NEW i \in Inums, dtype[i], dnlink[i] = 0
    PROVE  ~Named(i) /\ Counting(i) = {}
  <1>1. 0 = Cardinality(NamesOf(i)) + Cardinality(Counting(i))
    BY DEF IInv, LinksOK
  <1>2. Cardinality(NamesOf(i)) = 0 /\ Cardinality(Counting(i)) = 0
    BY <1>1, CountsFinite
  <1>3. NamesOf(i) = {} /\ Counting(i) = {}
    BY <1>2, CountsFinite, FS_EmptySet
  <1> QED BY <1>3 DEF NamesOf, Named

\* A step of p leaves every other call as consistent as it was.
LEMMA StepCalls ==
    ASSUME InodeConstants, IInv, NEW p \in Procs, Others(p), Kept, CallTypes', CallOK(p)',
           \A q \in Procs : q # p /\ at[q] \in InRoot => dir' = dir
    PROVE  CallsOK'
  <1> SUFFICES ASSUME NEW q \in Procs, q # p PROVE CallOK(q)'
    BY DEF CallsOK
  <1>1. /\ at'[q] = at[q] /\ ip'[q] = ip[q] /\ put'[q] = put[q]
        /\ then'[q] = then[q] /\ new'[q] = new[q] /\ opened'[q] = opened[q]
    BY DEF Others
  <1>2. CallOK(q)
    BY DEF IInv, CallsOK
  <1>3. at[q] \in Calling => inum'[ip[q]] = inum[ip[q]]
    BY <1>2, InUseIs DEF CallOK, Kept
  <1>4. at[q] \in {"unlink", "ialloc", "create"} => dir' = dir
    BY DEF InRoot
  <1> QED BY <1>1, <1>2, <1>3, <1>4 DEF CallOK, Calling

LEMMA StepRoot ==
    ASSUME IInv, NEW p \in Procs, Others(p),
           \A q \in Procs : q # p => (rootlock' = q <=> rootlock = q),
           rootlock' = p <=> Rooted(p)'
    PROVE  RootOK'
  BY DEF IInv, RootOK, Rooted, Others

LEMMA StepLock ==
    ASSUME IInv, NEW p \in Procs, Others(p),
           \A e \in Entries : \A q \in Procs : q # p => (lock'[e] = q <=> lock[e] = q),
           \A e \in Entries : lock'[e] = p <=> Locked(p, e)'
    PROVE  LockOK'
  BY DEF IInv, LockOK, Locked, Others

\* What can be reached after a step of p, p itself and the names apart.
LEMMA StepLive ==
    ASSUME InodeConstants, IInv, NEW p \in Procs, Others(p), Kept, NEW S,
           \A i \in Inums : Reaches(p, i)' => Live(i) \/ i \in S,
           \A i \in Inums : Named(i)' => Live(i) \/ i \in S
    PROVE  \A i \in Inums : Live(i)' => Live(i) \/ i \in S
  <1> SUFFICES ASSUME NEW i \in Inums, NEW q \in Procs, q # p, Reaches(q, i)' PROVE Live(i)
    BY DEF Live
  <1>1. /\ at'[q] = at[q] /\ ip'[q] = ip[q] /\ put'[q] = put[q]
        /\ opened'[q] = opened[q]
    BY DEF Others
  <1>2. at[q] \in {"iput", "itrunc"} => put[q] # None
    BY DEF IInv, CallsOK, CallOK, Putting
  <1>3. /\ ip[q] # None => inum'[ip[q]] = inum[ip[q]]
        /\ put[q] # None => inum'[put[q]] = inum[put[q]]
        /\ opened[q] # None => inum'[opened[q]] = inum[opened[q]]
    BY InUseIs DEF Kept
  <1>4. Reaches(q, i)
    BY <1>1, <1>2, <1>3 DEF Reaches
  <1> QED BY <1>4 DEF Live

LEMMA LiveShrinks ==
    ASSUME InodeConstants, IInv, NEW p \in Procs, Others(p), Kept,
           \A i \in Inums : Reaches(p, i)' => Live(i),
           \A i \in Inums : Named(i)' => Live(i)
    PROVE  \A i \in Inums : Live(i)' => Live(i)
  <1>1. PICK S : S = {}
    OBVIOUS
  <1>2. \A i \in Inums : Live(i)' => Live(i) \/ i \in S
    BY StepLive, Zenon
  <1> QED BY <1>1, <1>2

LEMMA StepMaking ==
    ASSUME NEW p \in Procs, Others(p), new'[p].inum = new[p].inum, NEW i
    PROVE  Making(i)' => Making(i)
  BY DEF Making, Others

LEMMA StepCounting ==
    ASSUME InodeConstants, IInv, NEW p \in Procs, Others(p), Kept,
           Mid(p)' <=> Mid(p), Mid(p) => ip'[p] = ip[p], NEW i
    PROVE  Counting(i)' = Counting(i)
  <1>1. ASSUME NEW q \in Procs PROVE (Mid(q)' <=> Mid(q)) /\ (Mid(q) => inum'[ip'[q]] = inum[ip[q]])
    <2>1. (Mid(q)' <=> Mid(q)) /\ (Mid(q) => ip'[q] = ip[q])
      BY DEF Others, Mid
    <2>2. Mid(q) => ip[q] # None
      BY DEF IInv, CallsOK, CallOK, Calling, Mid
    <2> QED BY <2>1, <2>2, InUseIs DEF Kept
  <1>2. Counting(i)' = {q \in Procs : Mid(q)' /\ inum'[ip'[q]] = i}
    BY DEF Counting, Mid
  <1> QED BY <1>1, <1>2, CountingAre

\* A link that ends is none of the links between their two steps.
LEMMA CountingDrop ==
    ASSUME InodeConstants, IInv, NEW p \in Procs, Others(p), Kept, ~Mid(p)', NEW i
    PROVE  Counting(i)' = Counting(i) \ {p}
  <1>1. ASSUME NEW q \in Procs, q # p
        PROVE  (Mid(q)' <=> Mid(q)) /\ (Mid(q) => inum'[ip'[q]] = inum[ip[q]])
    <2>1. (Mid(q)' <=> Mid(q)) /\ (Mid(q) => ip'[q] = ip[q])
      BY <1>1 DEF Others, Mid
    <2>2. Mid(q) => ip[q] # None
      BY DEF IInv, CallsOK, CallOK, Calling, Mid
    <2> QED BY <2>1, <2>2, InUseIs DEF Kept
  <1>2. Counting(i)' = {q \in Procs : Mid(q)' /\ inum'[ip'[q]] = i}
    BY DEF Counting, Mid
  <1> QED BY <1>1, <1>2, CountingAre

\* A step that leaves the disk and the directory alone.
LEMMA StepDiskKept ==
    ASSUME InodeConstants, IInv, NEW p \in Procs, Others(p), Kept, CallTypes', CallOK(p)',
           UNCHANGED <<disk, dir>>, new'[p].inum = new[p].inum,
           Mid(p)' <=> Mid(p), Mid(p) => ip'[p] = ip[p],
           \A i \in Inums : Reaches(p, i)' => Live(i)
    PROVE  /\ CallsOK' /\ AllocOK' /\ FreshOK' /\ LinksOK'
           /\ \A i \in Inums : Live(i)' => Live(i)
  <1>0. dtype' = dtype /\ dnlink' = dnlink /\ dir' = dir
    BY DEF disk
  <1>1. CallsOK'
    BY <1>0, StepCalls
  <1>2. \A i \in Inums : Live(i)' => Live(i)
    <2>1. \A i \in Inums : Named(i)' => Live(i)
      BY <1>0 DEF Named, Live
    <2> QED BY <2>1, LiveShrinks, Zenon
  <1>3. \A i \in Inums : Making(i)' => Making(i)
    BY StepMaking
  <1>4. AllocOK'
    BY <1>0, <1>2, <1>3 DEF IInv, AllocOK
  <1>5. FreshOK'
    BY <1>0, <1>2, <1>3 DEF IInv, FreshOK
  <1>6. LinksOK'
    <2>1. \A i \in Inums : Counting(i)' = Counting(i) /\ NamesOf(i)' = NamesOf(i)
      BY <1>0, StepCounting DEF NamesOf
    <2> QED BY <1>0, <2>1 DEF IInv, LinksOK
  <1> QED BY <1>1, <1>2, <1>4, <1>5, <1>6

\* An entry that iput is about to free, or is freeing, is nobody else's, and
\* its inode has no name and is not being made.
LEMMA FreeingEntry ==
    ASSUME InodeConstants, IInv, NEW q \in Procs, at[q] = "itrunc"
    PROVE  /\ put[q] \in Entries /\ inum[put[q]] \in Inums /\ ref[put[q]] = 1
           /\ dtype[inum[put[q]]] /\ dnlink[inum[put[q]]] = 0
           /\ ~Named(inum[put[q]]) /\ ~Making(inum[put[q]])
           /\ \A r \in Procs : /\ ip[r] # put[q] /\ opened[r] # put[q]
                               /\ put[r] = put[q] => r = q
  <1>1. MayFree(put[q]) /\ put[q] # None
    BY DEF IInv, FreeingOK, CallsOK, CallOK, Putting
  <1>2. put[q] \in Entries /\ inum[put[q]] \in Inums /\ ref[put[q]] = 1
    BY <1>1, InUseIs DEF MayFree
  <1>3. Live(inum[put[q]])
    BY DEF Live, Reaches
  <1>4. dtype[inum[put[q]]] /\ ~Making(inum[put[q]])
    BY <1>2, <1>3 DEF IInv, AllocOK, FreshOK
  <1>5. \A r \in Procs : ip[r] # put[q] /\ opened[r] # put[q] /\ (put[r] = put[q] => r = q)
    BY <1>1, <1>2, SolePointer
  <1>6. ~Freeing(put[q])
    BY <1>5 DEF Freeing
  <1>7. dnlink[inum[put[q]]] = 0
    BY <1>1, <1>2, <1>6 DEF IInv, CacheOK, MayFree
  <1>8. ~Named(inum[put[q]])
    BY <1>2, <1>4, <1>7, NoLinks
  <1> QED BY <1>2, <1>4, <1>5, <1>7, <1>8

LEMMA StepFreeingBut ==
    ASSUME InodeConstants, IInv, NEW p \in Procs, Others(p), Kept,
           \A q \in Procs : \A i \in Inums :
                at[q] = "iput_free" /\ inum[put[q]] = i /\ Live(i)' => Live(i),
           at'[p] = "itrunc" => MayFree(put[p])',
           at'[p] = "iput_free" => ~Live(inum[put[p]])',
           \A q \in Procs : q # p /\ at[q] = "itrunc" =>
                /\ ref'[put[q]] = ref[put[q]] /\ valid'[put[q]] = valid[put[q]]
                /\ nlink'[put[q]] = nlink[put[q]]
    PROVE  FreeingOK'
  <1> SUFFICES ASSUME NEW q \in Procs, q # p
               PROVE  /\ at'[q] = "itrunc" => MayFree(put[q])'
                      /\ at'[q] = "iput_free" => ~Live(inum[put[q]])'
    BY DEF FreeingOK
  <1>1. at'[q] = at[q] /\ put'[q] = put[q]
    BY DEF Others
  <1>2. ASSUME at[q] = "itrunc" PROVE MayFree(put[q])'
    BY <1>1, <1>2 DEF IInv, FreeingOK, MayFree
  <1>3. ASSUME at[q] = "iput_free" PROVE ~Live(inum[put[q]])'
    <2>1. put[q] # None /\ ~Live(inum[put[q]])
      BY <1>3 DEF IInv, FreeingOK, CallsOK, CallOK, Putting
    <2>2. inum[put[q]] \in Inums /\ inum'[put'[q]] = inum[put[q]]
      BY <1>1, <2>1, InUseIs DEF Kept
    <2>3. PICK j \in Inums : j = inum[put[q]]
      BY <2>2
    <2>4. ~Live(j)'
      BY <1>3, <2>1, <2>3
    <2>5. inum'[put'[q]] = j
      BY <2>2, <2>3
    <2> QED BY <2>4, <2>5 DEF Live, Named, Reaches
  <1> QED BY <1>1, <1>2, <1>3

LEMMA StepFreeing ==
    ASSUME InodeConstants, IInv, NEW p \in Procs, Others(p), Kept,
           \A i \in Inums : Live(i)' => Live(i),
           at'[p] = "itrunc" => MayFree(put[p])',
           at'[p] = "iput_free" => ~Live(inum[put[p]])',
           \A q \in Procs : q # p /\ at[q] = "itrunc" =>
                /\ ref'[put[q]] = ref[put[q]] /\ valid'[put[q]] = valid[put[q]]
                /\ nlink'[put[q]] = nlink[put[q]]
    PROVE  FreeingOK'
  BY StepFreeingBut

-----------------------------------------------------------------------------
(***************************************************************************)
(* References: a step of p gains, moves or loses one pointer.              *)
(***************************************************************************)

\* p points to e in its variable of kind k.
Own(p, k, e) ==
    \/ k = "call" /\ ip[p] = e
    \/ k = "iput" /\ put[p] = e
    \/ k = "file" /\ opened[p] = e

LEMMA PointersOwn ==
    ASSUME NEW e
    PROVE  /\ Pointers(e) = {x \in Procs \X Kinds : Own(x[1], x[2], e)}
           /\ Pointers(e)' = {x \in Procs \X Kinds : Own(x[1], x[2], e)'}
  <1>1. Pointers(e) = {x \in Procs \X Kinds : Own(x[1], x[2], e)}
    BY DEF Pointers, Kinds, Own
  <1>2. Pointers(e)' = {x \in Procs \X Kinds : Own(x[1], x[2], e)'}
    BY DEF Pointers, Kinds, Own
  <1> QED BY <1>1, <1>2

LEMMA OwnOthers ==
    ASSUME NEW p \in Procs, Others(p), NEW e, NEW x \in Procs \X Kinds, x[1] # p
    PROVE  Own(x[1], x[2], e)' <=> Own(x[1], x[2], e)
  BY DEF Others, Own

LEMMA PairIs ==
    ASSUME NEW p \in Procs, NEW k \in Kinds, NEW x \in Procs \X Kinds, x[1] = p, x[2] = k
    PROVE  x = <<p, k>>
  OBVIOUS

LEMMA RefsSame ==
    ASSUME InodeConstants, IInv, NEW p \in Procs, Others(p), ref' = ref,
           \A j \in Kinds : \A e \in Entries : Own(p, j, e)' <=> Own(p, j, e)
    PROVE  RefsOK'
  <1> SUFFICES ASSUME NEW e \in Entries PROVE ref'[e] = Cardinality(Pointers(e)')
    BY DEF RefsOK
  <1>1. \A x \in Procs \X Kinds : Own(x[1], x[2], e)' <=> Own(x[1], x[2], e)
    BY OwnOthers
  <1>2. Pointers(e)' = Pointers(e)
    BY <1>1, PointersOwn
  <1> QED BY <1>2 DEF IInv, RefsOK

LEMMA RefsGain ==
    ASSUME InodeConstants, IInv, NEW p \in Procs, Others(p), NEW k \in Kinds, NEW f \in Entries,
           ~Own(p, k, f), Own(p, k, f)',
           \A j \in Kinds : \A e \in Entries : j # k \/ e # f => (Own(p, j, e)' <=> Own(p, j, e)),
           ref' = [ref EXCEPT ![f] = @ + 1]
    PROVE  RefsOK'
  <1> SUFFICES ASSUME NEW e \in Entries PROVE ref'[e] = Cardinality(Pointers(e)')
    BY DEF RefsOK
  <1>0. ref \in [Entries -> Nat] /\ ref[e] = Cardinality(Pointers(e))
    BY DEF IInv, Types, RefsOK
  <1>1. CASE e # f
    <2>1. \A x \in Procs \X Kinds : Own(x[1], x[2], e)' <=> Own(x[1], x[2], e)
      BY <1>1, OwnOthers
    <2>2. Pointers(e)' = Pointers(e)
      BY <2>1, PointersOwn
    <2> QED BY <2>2, <1>0, <1>1
  <1>2. CASE e = f
    <2>1. \A x \in Procs \X Kinds :
             Own(x[1], x[2], e)' <=> Own(x[1], x[2], e) \/ x = <<p, k>>
      <3> SUFFICES ASSUME NEW x \in Procs \X Kinds
                   PROVE  Own(x[1], x[2], e)' <=> Own(x[1], x[2], e) \/ x = <<p, k>>
        OBVIOUS
      <3>1. CASE x[1] # p
        <4>1. Own(x[1], x[2], e)' <=> Own(x[1], x[2], e)
          BY <3>1, OwnOthers
        <4>2. x # <<p, k>>
          BY <3>1
        <4> QED BY <4>1, <4>2
      <3>2. CASE x[1] = p /\ x[2] # k
        BY <3>2
      <3>3. CASE x[1] = p /\ x[2] = k
        BY <3>3, <1>2, PairIs
      <3> QED BY <3>1, <3>2, <3>3
    <2>2. Pointers(e)' = Pointers(e) \cup {<<p, k>>} /\ <<p, k>> \notin Pointers(e)
      BY <2>1, <1>2, PointersOwn
    <2>3. Cardinality(Pointers(e) \cup {<<p, k>>}) = Cardinality(Pointers(e)) + 1
      BY <2>2, CardAdd, PointersFinite
    <2> QED BY <2>2, <2>3, <1>0, <1>2
  <1> QED BY <1>1, <1>2

LEMMA RefsLose ==
    ASSUME InodeConstants, IInv, NEW p \in Procs, Others(p), NEW k \in Kinds, NEW f \in Entries,
           Own(p, k, f), ~Own(p, k, f)',
           \A j \in Kinds : \A e \in Entries : j # k \/ e # f => (Own(p, j, e)' <=> Own(p, j, e)),
           ref' = [ref EXCEPT ![f] = @ - 1]
    PROVE  RefsOK'
  <1> SUFFICES ASSUME NEW e \in Entries PROVE ref'[e] = Cardinality(Pointers(e)')
    BY DEF RefsOK
  <1>0. ref \in [Entries -> Nat] /\ ref[e] = Cardinality(Pointers(e))
    BY DEF IInv, Types, RefsOK
  <1>1. CASE e # f
    <2>1. \A x \in Procs \X Kinds : Own(x[1], x[2], e)' <=> Own(x[1], x[2], e)
      BY <1>1, OwnOthers
    <2>2. Pointers(e)' = Pointers(e)
      BY <2>1, PointersOwn
    <2> QED BY <2>2, <1>0, <1>1
  <1>2. CASE e = f
    <2>1. \A x \in Procs \X Kinds :
             Own(x[1], x[2], e)' <=> Own(x[1], x[2], e) /\ x # <<p, k>>
      <3> SUFFICES ASSUME NEW x \in Procs \X Kinds
                   PROVE  Own(x[1], x[2], e)' <=> Own(x[1], x[2], e) /\ x # <<p, k>>
        OBVIOUS
      <3>1. CASE x[1] # p
        <4>1. Own(x[1], x[2], e)' <=> Own(x[1], x[2], e)
          BY <3>1, OwnOthers
        <4>2. x # <<p, k>>
          BY <3>1
        <4> QED BY <4>1, <4>2
      <3>2. CASE x[1] = p /\ x[2] # k
        BY <3>2
      <3>3. CASE x[1] = p /\ x[2] = k
        BY <3>3, <1>2, PairIs
      <3> QED BY <3>1, <3>2, <3>3
    <2>2. Pointers(e)' = Pointers(e) \ {<<p, k>>} /\ <<p, k>> \in Pointers(e)
      BY <2>1, <1>2, PointersOwn
    <2>3. Cardinality(Pointers(e) \ {<<p, k>>}) = Cardinality(Pointers(e)) - 1
      BY <2>2, CardDrop, PointersFinite
    <2> QED BY <2>2, <2>3, <1>0, <1>2
  <1> QED BY <1>1, <1>2

LEMMA RefsMove ==
    ASSUME InodeConstants, IInv, NEW p \in Procs, Others(p), NEW f \in Entries,
           NEW k \in Kinds, NEW l \in Kinds, k # l,
           Own(p, k, f), ~Own(p, l, f), ~Own(p, k, f)', Own(p, l, f)',
           \A j \in Kinds : \A e \in Entries :
                (j # k /\ j # l) \/ e # f => (Own(p, j, e)' <=> Own(p, j, e)),
           ref' = ref
    PROVE  RefsOK'
  <1> SUFFICES ASSUME NEW e \in Entries PROVE ref'[e] = Cardinality(Pointers(e)')
    BY DEF RefsOK
  <1>0. ref \in [Entries -> Nat] /\ ref[e] = Cardinality(Pointers(e))
    BY DEF IInv, Types, RefsOK
  <1>1. CASE e # f
    <2>1. \A x \in Procs \X Kinds : Own(x[1], x[2], e)' <=> Own(x[1], x[2], e)
      BY <1>1, OwnOthers
    <2>2. Pointers(e)' = Pointers(e)
      BY <2>1, PointersOwn
    <2> QED BY <2>2, <1>0, <1>1
  <1>2. CASE e = f
    <2>1. \A x \in Procs \X Kinds :
             Own(x[1], x[2], e)' <=> (Own(x[1], x[2], e) /\ x # <<p, k>>) \/ x = <<p, l>>
      <3> SUFFICES ASSUME NEW x \in Procs \X Kinds
                   PROVE  Own(x[1], x[2], e)'
                             <=> (Own(x[1], x[2], e) /\ x # <<p, k>>) \/ x = <<p, l>>
        OBVIOUS
      <3>1. CASE x[1] # p
        <4>1. Own(x[1], x[2], e)' <=> Own(x[1], x[2], e)
          BY <3>1, OwnOthers
        <4>2. x # <<p, k>> /\ x # <<p, l>>
          BY <3>1
        <4> QED BY <4>1, <4>2
      <3>2. CASE x[1] = p /\ x[2] # k /\ x[2] # l
        BY <3>2
      <3>3. CASE x[1] = p /\ x[2] = k
        BY <3>3, <1>2, PairIs
      <3>4. CASE x[1] = p /\ x[2] = l
        BY <3>4, <1>2, PairIs
      <3> QED BY <3>1, <3>2, <3>3, <3>4
    <2>2. /\ Pointers(e)' = (Pointers(e) \ {<<p, k>>}) \cup {<<p, l>>}
          /\ <<p, k>> \in Pointers(e) /\ <<p, l>> \notin Pointers(e) \ {<<p, k>>}
      BY <2>1, <1>2, PointersOwn
    <2>3. /\ IsFiniteSet(Pointers(e) \ {<<p, k>>})
          /\ Cardinality(Pointers(e)) \in Nat
          /\ Cardinality(Pointers(e) \ {<<p, k>>}) = Cardinality(Pointers(e)) - 1
      BY <2>2, CardDrop, PointersFinite
    <2>4. Cardinality(Pointers(e)') = Cardinality(Pointers(e) \ {<<p, k>>}) + 1
      BY <2>2, <2>3, CardAdd
    <2> QED BY <2>3, <2>4, <1>0, <1>2
  <1> QED BY <1>1, <1>2

-----------------------------------------------------------------------------
(***************************************************************************)
(* iget.                                                                   *)
(***************************************************************************)

\* The entry iget returns holds the inode; every entry in use keeps its inode
\* and what it knows of it; an entry that was not in use knows nothing.
LEMMA IgetIs ==
    ASSUME InodeConstants, IInv, NEW i \in Inums, Iget(i)
    PROVE  /\ Found(i) \in Entries /\ inum'[Found(i)] = i
           /\ ref[Found(i)] > 0 => inum[Found(i)] = i
           /\ Kept /\ UniqueOK'
           /\ \A e \in Entries : ref[e] > 0 => valid'[e] = valid[e]
           /\ \A e \in Entries : ref'[e] > 0 /\ valid'[e] => ref[e] > 0 /\ valid[e]
           /\ \A e \in Entries : e # Found(i) => ref'[e] = ref[e]
           /\ inum' \in [Entries -> Inums \cup {None}]
           /\ ref' \in [Entries -> Nat] /\ valid' \in [Entries -> BOOLEAN]
           /\ ref' = [ref EXCEPT ![Found(i)] = @ + 1]
           /\ nlink' = nlink /\ lock' = lock
  <1>0. /\ inum \in [Entries -> Inums \cup {None}] /\ ref \in [Entries -> Nat]
        /\ valid \in [Entries -> BOOLEAN]
    BY DEF IInv, Types
  <1>1. InUse(i) \in SUBSET Nat /\ Empty \in SUBSET Nat
    BY DEF InUse, Empty, Entries, InodeConstants
  <1>2. IF InUse(i) # {} THEN Found(i) \in InUse(i) ELSE Found(i) \in Empty
    BY <1>1, LowestIn DEF Found, Iget
  <1> DEFINE f == Found(i)
  <1>3. /\ f \in Entries
        /\ \/ ref[f] > 0 /\ inum[f] = i /\ valid' = valid
           \/ /\ ref[f] = 0 /\ valid' = [valid EXCEPT ![f] = FALSE]
              /\ \A e \in Entries : ref[e] > 0 => inum[e] # i
    BY <1>2 DEF InUse, Empty, Iget, Recycled, Set
  <1>4. /\ ref' = [ref EXCEPT ![f] = @ + 1] /\ inum' = [inum EXCEPT ![f] = i]
        /\ nlink' = nlink /\ lock' = lock
    BY DEF Iget, Set
  <1> HIDE DEF f
  <1>5. /\ inum' \in [Entries -> Inums \cup {None}]
        /\ ref' \in [Entries -> Nat] /\ valid' \in [Entries -> BOOLEAN]
    <2>1. inum' \in [Entries -> Inums \cup {None}] /\ ref' \in [Entries -> Nat]
      BY <1>0, <1>3, <1>4
    <2>2. valid' = valid \/ valid' = [valid EXCEPT ![f] = FALSE]
      BY <1>3
    <2>3. valid' \in [Entries -> BOOLEAN]
      BY <1>0, <2>2
    <2> QED BY <2>1, <2>3
  <1>6. Kept
    BY <1>0, <1>3, <1>4 DEF Kept
  <1>7. \A e \in Entries : /\ ref[e] > 0 => valid'[e] = valid[e]
                           /\ e # f => ref'[e] = ref[e] /\ inum'[e] = inum[e] /\ valid'[e] = valid[e]
    BY <1>0, <1>3, <1>4
  <1>8. \A e \in Entries : ref'[e] > 0 /\ valid'[e] => ref[e] > 0 /\ valid[e]
    BY <1>0, <1>3, <1>4
  <1>9. UniqueOK'
    BY <1>0, <1>3, <1>4 DEF IInv, UniqueOK
  <1> QED BY <1>0, <1>3, <1>4, <1>5, <1>6, <1>7, <1>8, <1>9 DEF f

-----------------------------------------------------------------------------
(***************************************************************************)
(* One step of one process: each action preserves the invariant.           *)
(***************************************************************************)

\* The types of the variables, one by one.
LEMMA Typed ==
    ASSUME IInv
    PROVE  /\ dtype \in [Inums -> BOOLEAN] /\ dnlink \in [Inums -> Nat]
           /\ dir \in [Names -> Inums \cup {None}] /\ rootlock \in Procs \cup {None}
           /\ inum \in [Entries -> Inums \cup {None}] /\ ref \in [Entries -> Nat]
           /\ valid \in [Entries -> BOOLEAN] /\ nlink \in [Entries -> Nat]
           /\ lock \in [Entries -> Procs \cup {None}]
           /\ ip \in [Procs -> Entries \cup {None}] /\ put \in [Procs -> Entries \cup {None}]
           /\ opened \in [Procs -> Entries \cup {None}]
           /\ at \in [Procs -> Labels] /\ then \in [Procs -> {"user", "link_bad"}]
           /\ new \in [Procs -> [inum : Inums \cup {None}, name : Names \cup {None}]]
  BY DEF IInv, Types, CallsOK, CallTypes

\* Zero is no process, no name, no inode and no entry.
LEMMA NoneIsNot ==
    ASSUME InodeConstants
    PROVE  None \notin Procs /\ None \notin Names /\ None \notin Inums /\ None \notin Entries
  BY DEF InodeConstants, None, Entries

\* What cached inodes know stays right as long as nobody writes to them.
LEMMA StepCache ==
    ASSUME InodeConstants, IInv, NEW p \in Procs, Others(p), Kept, at[p] # "iput_free",
           UNCHANGED <<disk, nlink>>,
           \A e \in Entries : ref'[e] > 0 /\ valid'[e] => ref[e] > 0 /\ valid[e]
    PROVE  CacheOK'
  <1>0. dtype' = dtype /\ dnlink' = dnlink /\ nlink' = nlink
    BY DEF disk
  <1>1. \A e \in Entries : Freeing(e) => Freeing(e)'
    BY DEF Freeing, Others
  <1> QED BY <1>0, <1>1 DEF IInv, CacheOK, Kept

\* iget of an inode with a name, or of the one that create is making, comes
\* upon no entry that is being freed.
LEMMA GetKeeps ==
    ASSUME InodeConstants, IInv, NEW p \in Procs, Others(p),
           NEW i \in Inums, Iget(i), Named(i) \/ Making(i),
           UNCHANGED disk, at[p] # "iput_free", at'[p] \notin {"itrunc", "iput_free"},
           \A j \in Inums : Live(j)' => Live(j)
    PROVE  FreeingOK' /\ CacheOK'
  <1>1. Kept /\ nlink' = nlink
    BY IgetIs
  <1>2. ASSUME NEW q \in Procs, at[q] = "itrunc"
        PROVE  /\ ref'[put[q]] = ref[put[q]] /\ valid'[put[q]] = valid[put[q]]
               /\ nlink'[put[q]] = nlink[put[q]]
    <2>1. /\ put[q] \in Entries /\ ref[put[q]] = 1
          /\ ~Named(inum[put[q]]) /\ ~Making(inum[put[q]])
      BY <1>2, FreeingEntry
    <2>2. inum[put[q]] # i
      BY <2>1
    <2>3. ref[Found(i)] > 0 => inum[Found(i)] = i
      BY IgetIs
    <2>4. put[q] # Found(i)
      BY <2>1, <2>2, <2>3
    <2> QED BY <1>1, <2>1, <2>4, IgetIs
  <1>3. FreeingOK'
    BY <1>1, <1>2, StepFreeing
  <1>4. CacheOK'
    <2>1. \A e \in Entries : ref'[e] > 0 /\ valid'[e] => ref[e] > 0 /\ valid[e]
      BY IgetIs
    <2> QED BY <1>1, <2>1, StepCache DEF disk
  <1> QED BY <1>3, <1>4

\* A call that gets the inode it works on.
LEMMA StepGet ==
    ASSUME InodeConstants, IInv, NEW p \in Procs,
           NEW i \in Inums, Iget(i), Named(i) \/ Making(i),
           NEW l \in {"open", "create", "unlink", "link"}, l # "create" => Named(i),
           at[p] \in {"user", "ialloc"}, at' = [at EXCEPT ![p] = l],
           ip' = [ip EXCEPT ![p] = Found(i)],
           UNCHANGED <<disk, dir, put, then, opened>>,
           new' \in [Procs -> [inum : Inums \cup {None}, name : Names \cup {None}]],
           \A q \in Procs : q # p => new'[q] = new[q],
           new'[p].inum = new[p].inum, CallOK(p)', RootOK', rootlock' \in Procs \cup {None}
    PROVE  IInv'
  <1>0. PICK f \in Entries : f = Found(i)
    BY IgetIs
  <1>1. /\ inum'[f] = i /\ Kept /\ UniqueOK'
        /\ inum' \in [Entries -> Inums \cup {None}]
        /\ ref' \in [Entries -> Nat] /\ valid' \in [Entries -> BOOLEAN]
        /\ ref' = [ref EXCEPT ![f] = @ + 1]
        /\ nlink' = nlink /\ lock' = lock
    BY <1>0, IgetIs
  <1>2. /\ dtype' = dtype /\ dnlink' = dnlink /\ dir' = dir
        /\ put' = put /\ then' = then /\ opened' = opened
    BY DEF disk
  <1>3. /\ at'[p] = l /\ ip'[p] = f /\ ip[p] = None /\ put[p] = None /\ then[p] = "user"
        /\ ip' = [ip EXCEPT ![p] = f]
    <2>1. CallOK(p) /\ then[p] \in {"user", "link_bad"}
      BY Typed DEF IInv, CallsOK
    <2>2. ip[p] = None /\ put[p] = None /\ then[p] = "user"
      BY <2>1 DEF CallOK, Calling, Putting
    <2> QED BY <1>0, <2>2, Typed
  <1>4. Others(p)
    BY <1>2, Typed DEF Others
  <1>5. CallTypes'
    <2>1. l \in Labels
      BY DEF Labels, Calling
    <2> QED BY <1>2, <2>1, Typed DEF CallTypes
  <1>6. Types'
    <2>1. ip' \in [Procs -> Entries \cup {None}]
      BY <1>1, <1>3, Typed
    <2> QED BY <1>1, <1>2, <2>1, Typed DEF Types
  <1>7. \A j \in Inums : Reaches(p, j)' => Live(j)
    <2> SUFFICES ASSUME NEW j \in Inums, Reaches(p, j)' PROVE Live(j)
      OBVIOUS
    <2>1. CASE opened[p] # None /\ inum'[opened[p]] = j
      <3>1. inum[opened[p]] = j
        BY <2>1, <1>1, InUseIs DEF Kept
      <3> QED BY <2>1, <3>1 DEF Live, Reaches
    <2>2. CASE l # "create" /\ i = j
      BY <2>2 DEF Live
    <2> QED BY <1>1, <1>2, <1>3, <2>1, <2>2 DEF Reaches
  <1>8. /\ CallsOK' /\ AllocOK' /\ FreshOK' /\ LinksOK'
        /\ \A j \in Inums : Live(j)' => Live(j)
    <2>1. (Mid(p)' <=> Mid(p)) /\ ~Mid(p)
      BY <1>2, <1>3 DEF Mid
    <2> QED BY <1>1, <1>4, <1>5, <1>7, <2>1, StepDiskKept DEF disk
  <1>9. FreeingOK' /\ CacheOK'
    BY <1>3, <1>4, <1>8, GetKeeps
  <1>10. LockOK'
    <2>1. \A e \in Entries : lock'[e] = p <=> Locked(p, e)'
      BY <1>1, <1>2, <1>3 DEF IInv, LockOK, Locked
    <2> QED BY <1>1, <1>4, <2>1, StepLock
  <1>11. RefsOK'
    <2>1. ~Own(p, "call", f) /\ Own(p, "call", f)'
      BY <1>1, <1>3, NoneIsNot DEF Own
    <2>2. \A j \in Kinds : \A e \in Entries :
             j # "call" \/ e # f => (Own(p, j, e)' <=> Own(p, j, e))
      BY <1>2, <1>3, NoneIsNot DEF Own
    <2>3. "call" \in Kinds
      BY DEF Kinds
    <2> QED BY <1>1, <1>4, <2>1, <2>2, <2>3, RefsGain
  <1> QED BY <1>1, <1>6, <1>8, <1>9, <1>10, <1>11 DEF IInv

\* What a process that is in no call has in its variables.
LEMMA AtUser ==
    ASSUME IInv, NEW p \in Procs, at[p] = "user"
    PROVE  ip[p] = None /\ put[p] = None /\ then[p] = "user" /\ new[p].inum = None
  BY Typed DEF IInv, CallsOK, CallOK, Calling, Putting

LEMMA NamedIs ==
    ASSUME InodeConstants, IInv, NEW n \in Names, dir[n] # None
    PROVE  dir[n] \in Inums /\ Named(dir[n])
  BY Typed DEF Named

LEMMA StepOpen ==
    ASSUME InodeConstants, IInv, NEW p \in Procs, NEW n \in Names, Open(p, n)
    PROVE  IInv'
  <1>1. PICK i \in Inums : i = dir[n] /\ Named(i)
    BY NamedIs DEF Open
  <1>2. /\ Iget(i) /\ at[p] = "user" /\ opened[p] = None
        /\ at' = [at EXCEPT ![p] = "open"] /\ ip' = [ip EXCEPT ![p] = Found(i)]
        /\ UNCHANGED <<disk, dir, put, then, opened>> /\ new' = new /\ rootlock' = rootlock
    BY <1>1 DEF Open, GoDirPut, Goto, Set
  <1>3. CallOK(p)'
    <2>1. /\ at'[p] = "open" /\ ip'[p] # None /\ put'[p] = None /\ then'[p] = "user"
          /\ opened'[p] = None /\ new'[p].inum = None
      BY <1>2, AtUser, IgetIs, NoneIsNot, Typed
    <2> QED BY <2>1 DEF CallOK, Calling, Putting
  <1>4. RootOK'
    BY <1>2, Typed DEF IInv, RootOK, Rooted, InRoot
  <1>5. new' \in [Procs -> [inum : Inums \cup {None}, name : Names \cup {None}]]
    BY <1>2, Typed
  <1> QED BY <1>1, <1>2, <1>3, <1>4, <1>5, StepGet, Typed

LEMMA StepIallocIget ==
    ASSUME InodeConstants, IInv, NEW p \in Procs, IallocIget(p)
    PROVE  IInv'
  <1>0. CallOK(p) /\ at[p] = "ialloc"
    BY DEF IInv, CallsOK, IallocIget
  <1>1. PICK i \in Inums : i = new[p].inum /\ Making(i)
    BY <1>0, Typed DEF CallOK, Making
  <1>2. /\ Iget(i)
        /\ at' = [at EXCEPT ![p] = "create"] /\ ip' = [ip EXCEPT ![p] = Found(i)]
        /\ UNCHANGED <<disk, dir, put, then, opened>> /\ new' = new /\ rootlock' = rootlock
    BY <1>1 DEF IallocIget, Goto, Set
  <1>3. CallOK(p)'
    <2>1. /\ at'[p] = "create" /\ ip'[p] # None /\ put'[p] = put[p] /\ then'[p] = then[p]
          /\ opened'[p] = opened[p] /\ new'[p] = new[p] /\ dir' = dir
          /\ inum'[ip'[p]] = i
      BY <1>2, IgetIs, NoneIsNot, Typed
    <2> QED BY <1>0, <1>1, <2>1 DEF CallOK, Calling, Putting
  <1>4. RootOK'
    BY <1>0, <1>2, Typed DEF IInv, RootOK, Rooted, InRoot
  <1>5. new' \in [Procs -> [inum : Inums \cup {None}, name : Names \cup {None}]]
    BY <1>2, Typed
  <1> QED BY <1>0, <1>1, <1>2, <1>3, <1>4, <1>5, StepGet, Typed

LEMMA StepUnlink ==
    ASSUME InodeConstants, IInv, NEW p \in Procs, NEW n \in Names, Unlink(p, n)
    PROVE  IInv'
  <1>1. PICK i \in Inums : i = dir[n] /\ Named(i)
    BY NamedIs DEF Unlink
  <1>2. /\ Iget(i) /\ at[p] = "user" /\ rootlock = None /\ rootlock' = p
        /\ at' = [at EXCEPT ![p] = "unlink"] /\ ip' = [ip EXCEPT ![p] = Found(i)]
        /\ UNCHANGED <<disk, dir, put, then, opened>>
        /\ new' = [new EXCEPT ![p] = [inum |-> None, name |-> n]]
    BY <1>1 DEF Unlink, Goto, Set
  <1>3. /\ at'[p] = "unlink" /\ ip'[p] # None /\ put'[p] = None /\ then'[p] = "user"
        /\ new'[p] = [inum |-> None, name |-> n] /\ dir' = dir
        /\ inum'[ip'[p]] = i
      BY <1>2, AtUser, IgetIs, NoneIsNot, Typed
  <1>4. CallOK(p)'
    <2>1. new'[p].inum = None /\ new'[p].name = n /\ n # None
      BY <1>3, NoneIsNot
    <2>2. dir'[new'[p].name] = inum'[ip'[p]]
      BY <1>1, <1>3
    <2> QED BY <1>3, <2>1, <2>2 DEF CallOK, Calling, Putting
  <1>5. RootOK'
    <2>1. \A q \in Procs : q # p => at'[q] = at[q] /\ then'[q] = then[q]
      BY <1>2, Typed
    <2>2. \A q \in Procs : q # p => rootlock # q /\ rootlock' # q
      BY <1>2, NoneIsNot
    <2> QED BY <1>2, <1>3, <2>1, <2>2 DEF IInv, RootOK, Rooted, InRoot
  <1>6. /\ new' \in [Procs -> [inum : Inums \cup {None}, name : Names \cup {None}]]
        /\ \A q \in Procs : q # p => new'[q] = new[q]
        /\ new'[p].inum = new[p].inum
    BY <1>2, AtUser, Typed
  <1> QED BY <1>1, <1>2, <1>4, <1>5, <1>6, StepGet

LEMMA StepLink ==
    ASSUME InodeConstants, IInv, NEW p \in Procs, NEW n \in Names, NEW m \in Names, Link(p, n, m)
    PROVE  IInv'
  <1>1. PICK i \in Inums : i = dir[n] /\ Named(i)
    BY NamedIs DEF Link
  <1>2. /\ Iget(i) /\ at[p] = "user" /\ rootlock' = rootlock
        /\ at' = [at EXCEPT ![p] = "link"] /\ ip' = [ip EXCEPT ![p] = Found(i)]
        /\ UNCHANGED <<disk, dir, put, then, opened>>
        /\ new' = [new EXCEPT ![p] = [inum |-> None, name |-> m]]
    BY <1>1 DEF Link, GoDirPut, Goto, Set
  <1>3. /\ at'[p] = "link" /\ ip'[p] # None /\ put'[p] = None /\ then'[p] = "user"
        /\ new'[p] = [inum |-> None, name |-> m]
      BY <1>2, AtUser, IgetIs, NoneIsNot, Typed
  <1>4. CallOK(p)'
    <2>1. new'[p].inum = None /\ new'[p].name = m /\ m # None
      BY <1>3, NoneIsNot
    <2> QED BY <1>3, <2>1 DEF CallOK, Calling, Putting
  <1>5. RootOK'
    BY <1>2, Typed DEF IInv, RootOK, Rooted, InRoot
  <1>6. /\ new' \in [Procs -> [inum : Inums \cup {None}, name : Names \cup {None}]]
        /\ \A q \in Procs : q # p => new'[q] = new[q]
        /\ new'[p].inum = new[p].inum
    BY <1>2, AtUser, Typed
  <1> QED BY <1>1, <1>2, <1>4, <1>5, <1>6, StepGet, Typed

\* ilock of an allocated inode that nobody has locked finds what is on disk.
LEMMA SeenIs ==
    ASSUME InodeConstants, IInv, NEW e \in Entries, ref[e] > 0, lock[e] = None, dtype[inum[e]]
    PROVE  LinksSeen(e) = dnlink[inum[e]] /\ ~NoType(e) /\ ~Freeing(e)
  <1>1. ~Freeing(e)
    BY NoneIsNot DEF IInv, LockOK, Locked, Freeing
  <1> QED BY <1>1 DEF IInv, CacheOK, LinksSeen, NoType

\* What a call works on, or iput drops, is allocated.
LEMMA IpIs ==
    ASSUME InodeConstants, IInv, NEW p \in Procs, at[p] \in Calling
    PROVE  /\ ip[p] \in Entries /\ ref[ip[p]] > 0 /\ inum[ip[p]] \in Inums /\ dtype[inum[ip[p]]]
           /\ at[p] # "create" => Live(inum[ip[p]])
           /\ put[p] = None /\ then[p] = "user"
           /\ \A q \in Procs : at[q] = "itrunc" => put[q] # ip[p]
  <1>1. CallOK(p)
    BY DEF IInv, CallsOK
  <1>2. ip[p] # None /\ put[p] = None /\ then[p] = "user"
    BY <1>1, Typed DEF CallOK, Calling, Putting
  <1>3. ip[p] \in Entries /\ ref[ip[p]] > 0 /\ inum[ip[p]] \in Inums
    BY <1>2, InUseIs
  <1>4. at[p] # "create" => Live(inum[ip[p]])
    BY <1>2 DEF Live, Reaches
  <1>5. at[p] = "create" => Making(inum[ip[p]])
    BY <1>1 DEF CallOK, Making
  <1>6. dtype[inum[ip[p]]]
    BY <1>3, <1>4, <1>5 DEF IInv, AllocOK
  <1>7. \A q \in Procs : at[q] = "itrunc" => put[q] # ip[p]
    BY FreeingEntry
  <1> QED BY <1>2, <1>3, <1>4, <1>6, <1>7

LEMMA StepOpenIlock ==
    ASSUME InodeConstants, IInv, NEW p \in Procs, OpenIlock(p)
    PROVE  IInv'
  <1>0. at[p] = "open" /\ at[p] \in Calling /\ CallOK(p)
    BY DEF OpenIlock, Calling, IInv, CallsOK
  <1>1. PICK e \in Entries : e = ip[p]
    BY <1>0, IpIs
  <1>2. /\ ref[e] > 0 /\ inum[e] \in Inums /\ dtype[inum[e]] /\ Live(inum[e])
        /\ put[p] = None /\ then[p] = "user"
    BY <1>0, <1>1, IpIs
  <1>3. LinksSeen(e) = dnlink[inum[e]] /\ ~NoType(e) /\ ~Freeing(e) /\ lock[e] = None
    BY <1>1, <1>2, SeenIs DEF OpenIlock
  <1>4. /\ lock' = [lock EXCEPT ![e] = p] /\ valid' = [valid EXCEPT ![e] = TRUE]
        /\ nlink' = [nlink EXCEPT ![e] = dnlink[inum[e]]]
        /\ at' = [at EXCEPT ![p] = "open_locked"]
        /\ UNCHANGED <<dtype, dnlink, dir, rootlock, inum, ref, ip, put, then, new, opened>>
    BY <1>1, <1>3 DEF OpenIlock, Set, Goto, disk
  <1>5. Others(p) /\ Kept
    BY <1>4, Typed DEF Others, Kept
  <1>6. Types' /\ CallTypes'
    <2>1. "open_locked" \in Labels
      BY DEF Labels, Calling
    <2>2. /\ lock' \in [Entries -> Procs \cup {None}] /\ valid' \in [Entries -> BOOLEAN]
          /\ nlink' \in [Entries -> Nat] /\ at' \in [Procs -> Labels]
      BY <1>2, <1>4, <2>1, Typed
    <2> QED BY <1>4, <2>2, Typed DEF Types, CallTypes
  <1>7. at'[p] = "open_locked"
    BY <1>4, Typed
  <1>8. CallOK(p)'
    BY <1>0, <1>4, <1>7 DEF CallOK, Calling, Putting
  <1>9. /\ CallsOK' /\ AllocOK' /\ FreshOK' /\ LinksOK'
        /\ \A j \in Inums : Live(j)' => Live(j)
    <2>1. (Mid(p)' <=> Mid(p)) /\ (Mid(p) => ip'[p] = ip[p]) /\ new'[p].inum = new[p].inum
      BY <1>0, <1>4, <1>7 DEF Mid
    <2>2. \A i \in Inums : Reaches(p, i)' => Live(i)
      BY <1>0, <1>4, <1>7 DEF Reaches, Live
    <2> QED BY <1>4, <1>5, <1>6, <1>8, <2>1, <2>2, StepDiskKept DEF disk
  <1>10. RootOK'
    BY <1>0, <1>4, <1>5, <1>7, StepRoot DEF Rooted, InRoot, IInv, RootOK
  <1>11. LockOK'
    <2>1. \A f \in Entries : f # e => lock'[f] = lock[f]
      BY <1>4, Typed
    <2>2. lock'[e] = p /\ lock[e] = None
      BY <1>3, <1>4, Typed
    <2>3. \A f \in Entries : lock'[f] = p <=> Locked(p, f)'
      BY <1>0, <1>1, <1>4, <1>7, <2>1, <2>2 DEF Locked, IInv, LockOK
    <2> QED BY <1>5, <2>1, <2>2, <2>3, StepLock, NoneIsNot
  <1>12. RefsOK'
    BY <1>4, <1>5, RefsSame DEF Own
  <1>13. UniqueOK'
    BY <1>4 DEF IInv, UniqueOK
  <1>14. FreeingOK'
    <2>1. \A f \in Entries : f # e => valid'[f] = valid[f] /\ nlink'[f] = nlink[f]
      BY <1>4, Typed
    <2>2. \A q \in Procs : at[q] = "itrunc" => put[q] \in Entries /\ put[q] # e
      BY <1>0, <1>1, IpIs, FreeingEntry
    <2> QED BY <1>4, <1>5, <1>7, <1>9, <2>1, <2>2, StepFreeing
  <1>15. CacheOK'
    <2>1. \A f \in Entries : f # e => valid'[f] = valid[f] /\ nlink'[f] = nlink[f]
      BY <1>4, Typed
    <2>2. nlink'[e] = dnlink[inum[e]]
      BY <1>4, Typed
    <2>3. \A f \in Entries : Freeing(f) => Freeing(f)'
      BY <1>0, <1>5 DEF Freeing, Others
    <2> QED BY <1>2, <1>4, <2>1, <2>2, <2>3 DEF IInv, CacheOK
  <1> QED BY <1>6, <1>9, <1>10, <1>11, <1>12, <1>13, <1>14, <1>15 DEF IInv

LEMMA StepOpenDone ==
    ASSUME InodeConstants, IInv, NEW p \in Procs, OpenDone(p)
    PROVE  IInv'
  <1>0. at[p] = "open_locked" /\ at[p] \in Calling /\ CallOK(p)
    BY DEF OpenDone, Calling, IInv, CallsOK
  <1>1. PICK e \in Entries : e = ip[p]
    BY <1>0, IpIs
  <1>2. /\ ref[e] > 0 /\ inum[e] \in Inums /\ Live(inum[e]) /\ lock[e] = p
        /\ put[p] = None /\ then[p] = "user" /\ opened[p] = None /\ new[p].inum = None
    BY <1>0, <1>1, IpIs DEF CallOK, IInv, LockOK, Locked
  <1>3. /\ lock' = [lock EXCEPT ![e] = None] /\ ip' = [ip EXCEPT ![p] = None]
        /\ UNCHANGED <<dtype, dnlink, dir, rootlock, inum, ref, valid, nlink, new>>
    BY <1>1 DEF OpenDone, Unlocked, Set, disk
  <1>4. \/ /\ opened' = [opened EXCEPT ![p] = e] /\ at' = [at EXCEPT ![p] = "user"]
           /\ put' = put /\ then' = then
        \/ /\ put' = [put EXCEPT ![p] = e] /\ at' = [at EXCEPT ![p] = "iput"]
           /\ then' = [then EXCEPT ![p] = "user"] /\ opened' = opened
    BY <1>1 DEF OpenDone, GoPut, Goto, Set
  <1>5. Others(p) /\ Kept
    BY <1>3, <1>4, Typed DEF Others, Kept
  <1>6. /\ ip'[p] = None /\ then'[p] = "user" /\ new'[p] = new[p]
        /\ \/ at'[p] = "user" /\ opened'[p] = e /\ put'[p] = None
           \/ at'[p] = "iput" /\ opened'[p] = None /\ put'[p] = e
    BY <1>2, <1>3, <1>4, Typed
  <1>7. Types' /\ CallTypes'
    <2>1. "user" \in Labels /\ "iput" \in Labels
      BY DEF Labels, Putting
    <2>2. /\ lock' \in [Entries -> Procs \cup {None}] /\ ip' \in [Procs -> Entries \cup {None}]
          /\ at' \in [Procs -> Labels]
      BY <1>3, <1>4, <2>1, Typed
    <2>3. put' = put \/ put' = [put EXCEPT ![p] = e]
      BY <1>4
    <2>4. opened' = opened \/ opened' = [opened EXCEPT ![p] = e]
      BY <1>4
    <2>5. then' = then \/ then' = [then EXCEPT ![p] = "user"]
      BY <1>4
    <2>6. put' \in [Procs -> Entries \cup {None}] /\ opened' \in [Procs -> Entries \cup {None}]
      BY <2>3, <2>4, Typed
    <2>7. then' \in [Procs -> {"user", "link_bad"}]
      BY <2>5, Typed
    <2> QED BY <1>3, <2>2, <2>6, <2>7, Typed DEF Types, CallTypes
  <1>8. CallOK(p)'
    BY <1>2, <1>6, NoneIsNot DEF CallOK, Calling, Putting
  <1>9. /\ CallsOK' /\ AllocOK' /\ FreshOK' /\ LinksOK'
        /\ \A j \in Inums : Live(j)' => Live(j)
    <2>1. (Mid(p)' <=> Mid(p)) /\ ~Mid(p) /\ new'[p].inum = new[p].inum
      BY <1>0, <1>2, <1>6 DEF Mid
    <2>2. \A i \in Inums : Reaches(p, i)' => Live(i)
      BY <1>2, <1>3, <1>6 DEF Reaches
    <2> QED BY <1>3, <1>5, <1>7, <1>8, <2>1, <2>2, StepDiskKept DEF disk
  <1>10. RootOK'
    BY <1>0, <1>2, <1>3, <1>5, <1>6, StepRoot DEF Rooted, InRoot, IInv, RootOK
  <1>11. LockOK'
    <2>1. \A f \in Entries : f # e => lock'[f] = lock[f]
      BY <1>3, Typed
    <2>2. lock'[e] = None /\ lock[e] = p
      BY <1>2, <1>3, Typed
    <2>3. \A f \in Entries : lock'[f] = p <=> Locked(p, f)'
      <3>1. \A f \in Entries : f # e => ~Locked(p, f)
        BY <1>0, <1>1 DEF Locked
      <3>2. \A f \in Entries : lock'[f] # p
        BY <2>1, <2>2, <3>1, NoneIsNot DEF IInv, LockOK
      <3> QED BY <1>6, <3>2 DEF Locked
    <2> QED BY <1>5, <2>1, <2>2, <2>3, StepLock, NoneIsNot
  <1>12. RefsOK'
    <2>0. "call" \in Kinds /\ "file" \in Kinds /\ "iput" \in Kinds
      BY DEF Kinds
    <2>1. CASE opened'[p] = e /\ put'[p] = None
      <3>1. /\ Own(p, "call", e) /\ ~Own(p, "file", e) /\ ~Own(p, "call", e)' /\ Own(p, "file", e)'
            /\ \A j \in Kinds : \A f \in Entries :
                  (j # "call" /\ j # "file") \/ f # e => (Own(p, j, f)' <=> Own(p, j, f))
        BY <1>1, <1>2, <1>6, <2>1, NoneIsNot DEF Own
      <3> QED BY <1>3, <1>5, <2>0, <3>1, RefsMove
    <2>2. CASE opened'[p] = None /\ put'[p] = e
      <3>1. /\ Own(p, "call", e) /\ ~Own(p, "iput", e) /\ ~Own(p, "call", e)' /\ Own(p, "iput", e)'
            /\ \A j \in Kinds : \A f \in Entries :
                  (j # "call" /\ j # "iput") \/ f # e => (Own(p, j, f)' <=> Own(p, j, f))
        BY <1>1, <1>2, <1>6, <2>2, NoneIsNot DEF Own
      <3> QED BY <1>3, <1>5, <2>0, <3>1, RefsMove
    <2> QED BY <1>6, <2>1, <2>2
  <1>13. UniqueOK'
    BY <1>3 DEF IInv, UniqueOK
  <1>14. FreeingOK'
    BY <1>3, <1>5, <1>6, <1>9, StepFreeing
  <1>15. CacheOK'
    BY <1>0, <1>3, <1>5, StepCache DEF disk
  <1> QED BY <1>7, <1>9, <1>10, <1>11, <1>12, <1>13, <1>14, <1>15 DEF IInv

LEMMA StepClose ==
    ASSUME InodeConstants, IInv, NEW p \in Procs, Close(p)
    PROVE  IInv'
  <1>0. at[p] = "user" /\ opened[p] # None
    BY DEF Close
  <1>1. PICK e \in Entries : e = opened[p] /\ ref[e] > 0 /\ inum[e] \in Inums
    BY <1>0, InUseIs
  <1>2. ip[p] = None /\ put[p] = None /\ then[p] = "user" /\ new[p].inum = None /\ Live(inum[e])
    BY <1>0, <1>1, AtUser DEF Live, Reaches
  <1>3. /\ opened' = [opened EXCEPT ![p] = None] /\ put' = [put EXCEPT ![p] = e]
        /\ then' = [then EXCEPT ![p] = "user"] /\ at' = [at EXCEPT ![p] = "iput"]
        /\ UNCHANGED <<dtype, dnlink, dir, rootlock, inum, ref, valid, nlink, lock, ip, new>>
    BY <1>1 DEF Close, GoPut, Goto, Set, disk, cache
  <1>4. Others(p) /\ Kept
    BY <1>3, Typed DEF Others, Kept
  <1>5. /\ at'[p] = "iput" /\ ip'[p] = None /\ put'[p] = e /\ then'[p] = "user"
        /\ new'[p] = new[p] /\ opened'[p] = None
    BY <1>2, <1>3, Typed
  <1>6. Types' /\ CallTypes'
    <2>1. "iput" \in Labels
      BY DEF Labels, Putting
    <2>2. /\ opened' \in [Procs -> Entries \cup {None}] /\ put' \in [Procs -> Entries \cup {None}]
          /\ then' \in [Procs -> {"user", "link_bad"}] /\ at' \in [Procs -> Labels]
      BY <1>3, <2>1, Typed
    <2> QED BY <1>3, <2>2, Typed DEF Types, CallTypes
  <1>7. CallOK(p)'
    BY <1>2, <1>5, NoneIsNot DEF CallOK, Calling, Putting
  <1>8. /\ CallsOK' /\ AllocOK' /\ FreshOK' /\ LinksOK'
        /\ \A j \in Inums : Live(j)' => Live(j)
    <2>1. (Mid(p)' <=> Mid(p)) /\ ~Mid(p) /\ new'[p].inum = new[p].inum
      BY <1>0, <1>2, <1>5 DEF Mid
    <2>2. \A i \in Inums : Reaches(p, i)' => Live(i)
      BY <1>2, <1>3, <1>5 DEF Reaches
    <2> QED BY <1>3, <1>4, <1>6, <1>7, <2>1, <2>2, StepDiskKept DEF disk
  <1>9. RootOK'
    BY <1>0, <1>2, <1>3, <1>4, <1>5, StepRoot DEF Rooted, InRoot, IInv, RootOK
  <1>10. LockOK'
    <2>1. \A f \in Entries : lock'[f] = p <=> Locked(p, f)'
      BY <1>0, <1>3, <1>5 DEF Locked, IInv, LockOK
    <2> QED BY <1>3, <1>4, <2>1, StepLock
  <1>11. RefsOK'
    <2>1. /\ Own(p, "file", e) /\ ~Own(p, "iput", e) /\ ~Own(p, "file", e)' /\ Own(p, "iput", e)'
          /\ \A j \in Kinds : \A f \in Entries :
                (j # "file" /\ j # "iput") \/ f # e => (Own(p, j, f)' <=> Own(p, j, f))
      BY <1>1, <1>2, <1>5, NoneIsNot DEF Own
    <2>2. "file" \in Kinds /\ "iput" \in Kinds
      BY DEF Kinds
    <2> QED BY <1>3, <1>4, <2>1, <2>2, RefsMove
  <1>12. UniqueOK'
    BY <1>3 DEF IInv, UniqueOK
  <1>13. FreeingOK'
    BY <1>3, <1>4, <1>5, <1>8, StepFreeing
  <1>14. CacheOK'
    BY <1>0, <1>3, <1>4, StepCache DEF disk
  <1> QED BY <1>6, <1>8, <1>9, <1>10, <1>11, <1>12, <1>13, <1>14 DEF IInv

\* What iput works on.
LEMMA PutIs ==
    ASSUME InodeConstants, IInv, NEW p \in Procs, at[p] \in Putting
    PROVE  /\ put[p] \in Entries /\ ref[put[p]] > 0 /\ inum[put[p]] \in Inums
           /\ at[p] \in {"iput", "itrunc"} => Live(inum[put[p]])
           /\ new[p].inum = None
           /\ \A q \in Procs : at[q] = "itrunc" /\ q # p => put[q] # put[p]
  <1>1. CallOK(p)
    BY DEF IInv, CallsOK
  <1>2. put[p] # None /\ new[p].inum = None
    BY <1>1 DEF CallOK, Putting
  <1>3. at[p] \in {"iput", "itrunc"} => Live(inum[put[p]])
    BY DEF Live, Reaches
  <1>4. \A q \in Procs : at[q] = "itrunc" /\ q # p => put[q] # put[p]
    BY FreeingEntry
  <1> QED BY <1>2, <1>3, <1>4, InUseIs

\* iput of an entry takes its time: what holds of every step of it.
LEMMA StepPut ==
    ASSUME InodeConstants, IInv, NEW p \in Procs, at[p] \in Putting,
           NEW l \in Putting, at' = [at EXCEPT ![p] = l],
           l \in {"iput", "itrunc"} => at[p] \in {"iput", "itrunc"},
           UNCHANGED <<disk, dir, rootlock, inum, ref, ip, put, then, new, opened>>
    PROVE  /\ Others(p) /\ Kept /\ at'[p] = l /\ CallTypes'
           /\ CallsOK' /\ AllocOK' /\ FreshOK' /\ LinksOK'
           /\ RootOK' /\ RefsOK' /\ UniqueOK'
           /\ \A j \in Inums : Live(j)' => Live(j)
  <1>1. UNCHANGED <<dtype, dnlink, dir, rootlock, inum, ref, ip, put, then, new, opened>>
    BY DEF disk
  <1>2. Others(p) /\ Kept /\ at'[p] = l
    BY <1>1, Typed DEF Others, Kept
  <1>3. CallTypes'
    <2>1. l \in Labels
      BY DEF Labels
    <2> QED BY <1>1, <2>1, Typed DEF CallTypes
  <1>4. CallOK(p)'
    <2>1. CallOK(p)
      BY DEF IInv, CallsOK
    <2> QED BY <1>1, <1>2, <2>1 DEF CallOK, Calling, Putting
  <1>5. /\ CallsOK' /\ AllocOK' /\ FreshOK' /\ LinksOK'
        /\ \A j \in Inums : Live(j)' => Live(j)
    <2>1. (Mid(p)' <=> Mid(p)) /\ (Mid(p) => ip'[p] = ip[p]) /\ new'[p].inum = new[p].inum
      BY <1>1, <1>2 DEF Mid, Putting
    <2>2. \A i \in Inums : Reaches(p, i)' => Live(i)
      BY <1>1, <1>2 DEF Reaches, Live, Putting
    <2> QED BY <1>1, <1>2, <1>3, <1>4, <2>1, <2>2, StepDiskKept DEF disk
  <1>6. RootOK'
    BY <1>1, <1>2, StepRoot DEF Rooted, InRoot, Putting, IInv, RootOK
  <1>7. RefsOK'
    BY <1>1, <1>2, RefsSame DEF Own
  <1>8. UniqueOK'
    BY <1>1 DEF IInv, UniqueOK
  <1> QED BY <1>2, <1>3, <1>5, <1>6, <1>7, <1>8

LEMMA StepIput ==
    ASSUME InodeConstants, IInv, NEW p \in Procs, Iput(p)
    PROVE  IInv'
  <1>0. at[p] = "iput" /\ at[p] \in Putting
    BY DEF Iput, Putting
  <1>1. PICK e \in Entries : e = put[p] /\ ref[e] > 0
    BY <1>0, PutIs
  <1>2. PICK l \in {"itrunc", "iput_ref"} :
            /\ at' = [at EXCEPT ![p] = l]
            /\ l = "itrunc" => MayFree(e) /\ lock' = [lock EXCEPT ![e] = p]
            /\ l = "iput_ref" => lock' = lock
    BY <1>1 DEF Iput, Goto, Set
  <1>3. /\ UNCHANGED <<disk, dir, rootlock, inum, ref, ip, put, then, new, opened>>
        /\ valid' = valid /\ nlink' = nlink /\ lock[e] = None
    BY <1>1 DEF Iput
  <1>4. /\ Others(p) /\ Kept /\ at'[p] = l /\ CallTypes'
        /\ CallsOK' /\ AllocOK' /\ FreshOK' /\ LinksOK'
        /\ RootOK' /\ RefsOK' /\ UniqueOK'
        /\ \A j \in Inums : Live(j)' => Live(j)
    <2>1. l \in Putting
      BY DEF Putting
    <2>2. \A m \in Putting :
             /\ at' = [at EXCEPT ![p] = m]
             /\ m \in {"iput", "itrunc"} => at[p] \in {"iput", "itrunc"}
             =>
             /\ Others(p) /\ Kept /\ at'[p] = m /\ CallTypes'
             /\ CallsOK' /\ AllocOK' /\ FreshOK' /\ LinksOK'
             /\ RootOK' /\ RefsOK' /\ UniqueOK'
             /\ \A j \in Inums : Live(j)' => Live(j)
      BY <1>0, <1>3, StepPut, Zenon
    <2> QED BY <1>0, <1>2, <2>1, <2>2
  <1>5. Types'
    <2>1. lock' = lock \/ lock' = [lock EXCEPT ![e] = p]
      BY <1>2
    <2>2. lock' \in [Entries -> Procs \cup {None}]
      BY <2>1, Typed
    <2> QED BY <1>3, <2>2, Typed DEF Types, disk
  <1>6. LockOK'
    <2>1. \A f \in Entries : f # e => lock'[f] = lock[f]
      BY <1>2, Typed
    <2>2. IF l = "itrunc" THEN lock'[e] = p ELSE lock'[e] = None
      BY <1>2, <1>3, Typed
    <2>3. \A f \in Entries : ~Locked(p, f)
      BY <1>0 DEF Locked
    <2>4. \A f \in Entries : Locked(p, f)' <=> l = "itrunc" /\ f = e
      BY <1>1, <1>3, <1>4 DEF Locked
    <2>5. \A f \in Entries : lock'[f] = p <=> Locked(p, f)'
      BY <2>1, <2>2, <2>3, <2>4, NoneIsNot DEF IInv, LockOK
    <2> QED BY <1>3, <1>4, <2>1, <2>2, <2>5, StepLock, NoneIsNot
  <1>7. FreeingOK'
    <2>1. at'[p] = "itrunc" => MayFree(put[p])'
      BY <1>1, <1>2, <1>3, <1>4 DEF MayFree
    <2>2. at'[p] # "iput_free"
      BY <1>4
    <2> QED BY <1>3, <1>4, <2>1, <2>2, StepFreeing
  <1>8. CacheOK'
    BY <1>0, <1>3, <1>4, StepCache
  <1> QED BY <1>4, <1>5, <1>6, <1>7, <1>8 DEF IInv

LEMMA StepIputUnlock ==
    ASSUME InodeConstants, IInv, NEW p \in Procs, IputUnlock(p)
    PROVE  IInv'
  <1>0. at[p] = "iput_free" /\ at[p] \in Putting
    BY DEF IputUnlock, Putting
  <1>1. PICK e \in Entries : e = put[p] /\ ref[e] > 0
    BY <1>0, PutIs
  <1>2. /\ at' = [at EXCEPT ![p] = "iput_ref"]
        /\ lock' = [lock EXCEPT ![e] = None] /\ valid' = [valid EXCEPT ![e] = FALSE]
    BY <1>1 DEF IputUnlock, Goto, Set, Freed, Unlocked
  <1>3. /\ UNCHANGED <<disk, dir, rootlock, inum, ref, ip, put, then, new, opened>>
        /\ nlink' = nlink
    BY <1>1 DEF IputUnlock
  <1>4. /\ Others(p) /\ Kept /\ at'[p] = "iput_ref" /\ CallTypes'
        /\ CallsOK' /\ AllocOK' /\ FreshOK' /\ LinksOK'
        /\ RootOK' /\ RefsOK' /\ UniqueOK'
        /\ \A j \in Inums : Live(j)' => Live(j)
    <2>1. "iput_ref" \in Putting
      BY DEF Putting
    <2> QED BY <1>0, <1>2, <1>3, <2>1, StepPut
  <1>5. Types'
    <2>1. lock' \in [Entries -> Procs \cup {None}] /\ valid' \in [Entries -> BOOLEAN]
      BY <1>2, Typed
    <2> QED BY <1>3, <2>1, Typed DEF Types, disk
  <1>6. LockOK'
    <2>1. \A f \in Entries : f # e => lock'[f] = lock[f]
      BY <1>2, Typed
    <2>2. lock'[e] = None /\ lock[e] = p
      BY <1>0, <1>1, <1>2, Typed DEF IInv, LockOK, Locked
    <2>3. \A f \in Entries : f # e => ~Locked(p, f)
      BY <1>0, <1>1 DEF Locked
    <2>4. \A f \in Entries : ~Locked(p, f)'
      BY <1>4 DEF Locked
    <2>5. \A f \in Entries : lock'[f] = p <=> Locked(p, f)'
      BY <2>1, <2>2, <2>3, <2>4, NoneIsNot DEF IInv, LockOK
    <2> QED BY <1>4, <2>1, <2>2, <2>5, StepLock, NoneIsNot
  <1>7. FreeingOK'
    <2>1. \A f \in Entries : f # e => valid'[f] = valid[f]
      BY <1>2, Typed
    <2>2. \A q \in Procs : q # p /\ at[q] = "itrunc" => put[q] \in Entries /\ put[q] # e
      BY <1>0, <1>1, PutIs, FreeingEntry
    <2> QED BY <1>3, <1>4, <2>1, <2>2, StepFreeing
  <1>8. CacheOK'
    <2>1. \A f \in Entries : f # e => valid'[f] = valid[f]
      BY <1>2, Typed
    <2>2. ~valid'[e]
      BY <1>2, Typed
    <2>3. \A f \in Entries : f # e /\ Freeing(f) => Freeing(f)'
      BY <1>1, <1>4 DEF Freeing, Others
    <2> QED BY <1>3, <2>1, <2>2, <2>3 DEF IInv, CacheOK, disk
  <1> QED BY <1>4, <1>5, <1>6, <1>7, <1>8 DEF IInv

\* The inode being freed has one entry, and one pointer to it.
LEMMA StepItrunc ==
    ASSUME InodeConstants, IInv, NEW p \in Procs, Itrunc(p)
    PROVE  IInv'
  <1>0. at[p] = "itrunc" /\ at[p] \in Putting /\ CallOK(p)
    BY DEF Itrunc, Putting, IInv, CallsOK
  <1>1. PICK e \in Entries : e = put[p] /\ ref[e] > 0
    BY <1>0, PutIs
  <1>2. PICK i \in Inums : i = inum[e]
    BY <1>0, <1>1, PutIs
  <1>3. /\ dtype' = [dtype EXCEPT ![i] = FALSE] /\ at' = [at EXCEPT ![p] = "iput_free"]
        /\ UNCHANGED <<dnlink, dir, rootlock, inum, ref, valid, nlink, lock>>
        /\ UNCHANGED <<ip, put, then, new, opened>>
    BY <1>1, <1>2 DEF Itrunc, Goto, Set, cache
  <1>4. /\ ~Named(i) /\ ~Making(i)
        /\ \A q \in Procs : ip[q] # e /\ opened[q] # e /\ (put[q] = e => q = p)
    BY <1>0, <1>1, <1>2, FreeingEntry
  <1>5. Others(p) /\ Kept /\ at'[p] = "iput_free"
    BY <1>3, Typed DEF Others, Kept
  <1>6. Types' /\ CallTypes'
    <2>1. "iput_free" \in Labels
      BY DEF Labels, Putting
    <2>2. dtype' \in [Inums -> BOOLEAN] /\ at' \in [Procs -> Labels]
      BY <1>3, <2>1, Typed
    <2> QED BY <1>3, <2>2, Typed DEF Types, CallTypes
  <1>7. CallsOK'
    <2>1. CallOK(p)'
      BY <1>0, <1>3, <1>5 DEF CallOK, Calling, Putting
    <2> QED BY <1>3, <1>5, <1>6, <2>1, StepCalls
  <1>8. \A j \in Inums : Live(j)' => Live(j)
    <2>1. \A j \in Inums : Reaches(p, j)' => Live(j)
      BY <1>0, <1>3, <1>5 DEF Reaches, Live
    <2>2. \A j \in Inums : Named(j)' => Live(j)
      BY <1>3 DEF Named, Live
    <2> QED BY <1>5, <2>1, <2>2, LiveShrinks, Zenon
  <1>9. ~Live(i)'
    <2>1. ~Named(i)'
      BY <1>3, <1>4 DEF Named
    <2>2. ASSUME NEW q \in Procs PROVE ~Reaches(q, i)'
      <3>1. \A f \in Entries : ref[f] > 0 /\ f # e => inum[f] # i
        BY <1>1, <1>2 DEF IInv, UniqueOK
      <3>2. /\ ip[q] # None => inum[ip[q]] # i
            /\ opened[q] # None => inum[opened[q]] # i
            /\ put[q] # None /\ q # p => inum[put[q]] # i
        BY <1>4, <3>1, InUseIs
      <3>3. at[q] \in {"iput", "itrunc"} => put[q] # None
        BY DEF IInv, CallsOK, CallOK, Putting
      <3> QED BY <1>3, <1>5, <3>2, <3>3 DEF Reaches, Others
    <2> QED BY <2>1, <2>2 DEF Live
  <1>10. \A j \in Inums : (Making(j)' <=> Making(j)) /\ (j # i => dtype'[j] = dtype[j])
    BY <1>3, Typed DEF Making
  <1>11. AllocOK'
    BY <1>4, <1>8, <1>9, <1>10 DEF IInv, AllocOK
  <1>12. FreshOK'
    BY <1>3, <1>8, <1>10 DEF IInv, FreshOK
  <1>13. LinksOK'
    <2>1. Mid(p)' <=> Mid(p)
      BY <1>0, <1>3, <1>5 DEF Mid
    <2>2. Mid(p) => ip'[p] = ip[p]
      BY <1>3
    <2>3. \A j \in Inums : Counting(j)' = Counting(j) /\ NamesOf(j)' = NamesOf(j)
      BY <1>3, <1>5, <2>1, <2>2, StepCounting DEF NamesOf
    <2>4. \A j \in Inums : dtype'[j] => dtype[j]
      BY <1>3, Typed
    <2> QED BY <1>3, <2>3, <2>4 DEF IInv, LinksOK
  <1>14. RootOK'
    BY <1>0, <1>3, <1>5, StepRoot DEF Rooted, InRoot, IInv, RootOK
  <1>15. LockOK'
    <2>1. \A f \in Entries : lock'[f] = p <=> Locked(p, f)'
      BY <1>0, <1>3, <1>5 DEF Locked, IInv, LockOK
    <2> QED BY <1>3, <1>5, <2>1, StepLock
  <1>16. RefsOK' /\ UniqueOK'
    <2>1. RefsOK'
      BY <1>3, <1>5, RefsSame DEF Own
    <2> QED BY <1>3, <2>1 DEF IInv, UniqueOK
  <1>17. FreeingOK'
    <2>1. inum'[put'[p]] = i
      BY <1>1, <1>2, <1>3
    <2>2. ~Live(inum[put[p]])'
      BY <1>9, <2>1 DEF Live, Named, Reaches
    <2> QED BY <1>3, <1>5, <1>8, <2>2, StepFreeing
  <1>18. CacheOK'
    <2>1. \A f \in Entries : ref[f] > 0 /\ f # e => inum[f] # i
      BY <1>1, <1>2 DEF IInv, UniqueOK
    <2>2. \A f \in Entries : Freeing(f) => Freeing(f)'
      BY <1>0, <1>3, <1>5 DEF Freeing, Others
    <2>3. Freeing(e)'
      BY <1>1, <1>3, <1>5 DEF Freeing
    <2>4. \A f \in Entries : ref[f] > 0 /\ f # e => dtype'[inum[f]] = dtype[inum[f]]
      BY <1>10, <2>1 DEF IInv, UniqueOK
    <2> QED BY <1>3, <2>2, <2>3, <2>4 DEF IInv, CacheOK
  <1> QED BY <1>6, <1>7, <1>11, <1>12, <1>13, <1>14, <1>15, <1>16, <1>17, <1>18 DEF IInv

LEMMA StepIputRef ==
    ASSUME InodeConstants, IInv, NEW p \in Procs, IputRef(p)
    PROVE  IInv'
  <1>0. at[p] = "iput_ref" /\ at[p] \in Putting /\ CallOK(p)
    BY DEF IputRef, Putting, IInv, CallsOK
  <1>1. PICK e \in Entries : e = put[p] /\ ref[e] > 0
    BY <1>0, PutIs
  <1>2. PICK l \in {"user", "link_bad"} : l = then[p]
    BY Typed
  <1>3. /\ ref' = [ref EXCEPT ![e] = @ - 1]
        /\ rootlock' = IF rootlock = p THEN None ELSE rootlock
        /\ put' = [put EXCEPT ![p] = None] /\ then' = [then EXCEPT ![p] = "user"]
        /\ at' = [at EXCEPT ![p] = l]
        /\ UNCHANGED <<dtype, dnlink, dir, inum, valid, nlink, lock, ip, new, opened>>
    <2>1. CASE rootlock = p
      BY <1>1, <1>2, <2>1 DEF IputRef, GoDirPut, Goto, Set, disk
    <2>2. CASE rootlock # p
      BY <1>1, <1>2, <2>2 DEF IputRef, Goto, Set, disk
    <2> QED BY <2>1, <2>2
  <1>4. Others(p) /\ Kept
    BY <1>3, Typed DEF Others, Kept
  <1>5. at'[p] = l /\ put'[p] = None /\ then'[p] = "user" /\ ip'[p] = ip[p] /\ opened'[p] = opened[p]
    BY <1>3, Typed
  <1>6. /\ ref' \in [Entries -> Nat]
        /\ \A f \in Entries : f # e => ref'[f] = ref[f]
        /\ \A f \in Entries : ref'[f] > 0 => ref[f] > 0
    BY <1>1, <1>3, Typed
  <1>7. Types' /\ CallTypes'
    <2>1. l \in Labels
      BY DEF Labels, Calling
    <2>2. /\ put' \in [Procs -> Entries \cup {None}] /\ at' \in [Procs -> Labels]
          /\ then' \in [Procs -> {"user", "link_bad"}]
      BY <1>3, <2>1, Typed
    <2>3. rootlock' \in Procs \cup {None}
      BY <1>3, Typed
    <2> QED BY <1>3, <1>6, <2>2, <2>3, Typed DEF Types, CallTypes
  <1>8. CallOK(p)'
    <2>1. new[p].inum = None
      BY <1>0, PutIs
    <2> QED BY <1>0, <1>2, <1>3, <1>5, <2>1 DEF CallOK, Calling, Putting
  <1>9. /\ CallsOK' /\ AllocOK' /\ FreshOK' /\ LinksOK'
        /\ \A j \in Inums : Live(j)' => Live(j)
    <2>1. (Mid(p)' <=> Mid(p)) /\ (Mid(p) => ip'[p] = ip[p]) /\ new'[p].inum = new[p].inum
      BY <1>0, <1>2, <1>3, <1>5 DEF Mid
    <2>2. \A i \in Inums : Reaches(p, i)' => Live(i)
      BY <1>0, <1>3, <1>5 DEF Reaches, Live
    <2> QED BY <1>3, <1>4, <1>7, <1>8, <2>1, <2>2, StepDiskKept DEF disk
  <1>10. RootOK'
    <2>1. \A q \in Procs : q # p => (rootlock' = q <=> rootlock = q)
      BY <1>3, NoneIsNot
    <2>2. rootlock' # p
      BY <1>3, NoneIsNot
    <2>3. ~Rooted(p)'
      BY <1>5 DEF Rooted, InRoot
    <2> QED BY <1>4, <2>1, <2>2, <2>3, StepRoot
  <1>11. LockOK'
    <2>1. \A f \in Entries : lock'[f] = p <=> Locked(p, f)'
      BY <1>0, <1>3, <1>5 DEF Locked, IInv, LockOK
    <2> QED BY <1>3, <1>4, <2>1, StepLock
  <1>12. RefsOK'
    <2>1. /\ Own(p, "iput", e) /\ ~Own(p, "iput", e)'
          /\ \A j \in Kinds : \A f \in Entries :
                j # "iput" \/ f # e => (Own(p, j, f)' <=> Own(p, j, f))
      BY <1>1, <1>5, NoneIsNot DEF Own
    <2>2. "iput" \in Kinds
      BY DEF Kinds
    <2> QED BY <1>3, <1>4, <2>1, <2>2, RefsLose
  <1>13. UniqueOK'
    BY <1>3, <1>6 DEF IInv, UniqueOK
  <1>14. FreeingOK'
    <2>1. \A q \in Procs : q # p /\ at[q] = "itrunc" => put[q] \in Entries /\ put[q] # e
      BY <1>0, <1>1, PutIs, FreeingEntry
    <2> QED BY <1>2, <1>3, <1>4, <1>5, <1>6, <1>9, <2>1, StepFreeing
  <1>15. CacheOK'
    BY <1>0, <1>3, <1>4, <1>6, StepCache DEF disk
  <1> QED BY <1>7, <1>9, <1>10, <1>11, <1>12, <1>13, <1>14, <1>15 DEF IInv

\* A free inode is nobody's: create shows it to nobody either.
LEMMA StepCreate ==
    ASSUME InodeConstants, IInv, NEW p \in Procs, NEW n \in Names, Create(p, n)
    PROVE  IInv'
  <1>0. /\ at[p] = "user" /\ opened[p] = None /\ rootlock = None /\ dir[n] = None
        /\ ip[p] = None /\ put[p] = None /\ then[p] = "user" /\ new[p].inum = None
    BY AtUser DEF Create
  <1>1. PICK i \in Inums : i = Lowest({j \in Inums : ~dtype[j]}) /\ ~dtype[i]
    <2>1. {j \in Inums : ~dtype[j]} \in SUBSET Nat /\ {j \in Inums : ~dtype[j]} # {}
      BY DEF Create, InodeConstants
    <2>2. Lowest({j \in Inums : ~dtype[j]}) \in {j \in Inums : ~dtype[j]}
      BY <2>1, LowestIn
    <2> QED BY <2>2
  <1>2. /\ rootlock' = p /\ dtype' = [dtype EXCEPT ![i] = TRUE] /\ dnlink' = [dnlink EXCEPT ![i] = 0]
        /\ new' = [new EXCEPT ![p] = [inum |-> i, name |-> n]]
        /\ at' = [at EXCEPT ![p] = "ialloc"]
        /\ UNCHANGED <<dir, inum, ref, valid, nlink, lock, ip, put, then, opened>>
    BY <1>1 DEF Create, Goto, Set, cache
  <1>3. Others(p) /\ Kept
    BY <1>2, Typed DEF Others, Kept
  <1>4. at'[p] = "ialloc" /\ new'[p] = [inum |-> i, name |-> n]
    BY <1>2, Typed
  <1>5. Types' /\ CallTypes'
    <2>1. "ialloc" \in Labels
      BY DEF Labels
    <2>2. /\ dtype' \in [Inums -> BOOLEAN] /\ dnlink' \in [Inums -> Nat] /\ at' \in [Procs -> Labels]
          /\ new' \in [Procs -> [inum : Inums \cup {None}, name : Names \cup {None}]]
      BY <1>2, <2>1, Typed
    <2> QED BY <1>2, <2>2, Typed DEF Types, CallTypes
  <1>6. CallsOK'
    <2>1. new'[p].inum = i /\ new'[p].name = n /\ i # None /\ n # None
      BY <1>4, NoneIsNot
    <2>2. CallOK(p)'
      BY <1>0, <1>2, <1>4, <2>1 DEF CallOK, Calling, Putting
    <2> QED BY <1>2, <1>3, <1>5, <2>2, StepCalls
  <1>7. ~Live(i) /\ ~Making(i)
    BY <1>1 DEF IInv, AllocOK
  <1>8. \A j \in Inums : Live(j)' => Live(j)
    <2>1. \A j \in Inums : Reaches(p, j)' => Live(j)
      BY <1>0, <1>2, <1>4 DEF Reaches, Live
    <2>2. \A j \in Inums : Named(j)' => Live(j)
      BY <1>2 DEF Named, Live
    <2> QED BY <1>3, <2>1, <2>2, LiveShrinks, Zenon
  <1>9. \A j \in Inums : /\ Making(j)' => Making(j) \/ j = i
                         /\ j # i => dtype'[j] = dtype[j] /\ dnlink'[j] = dnlink[j]
    BY <1>2, <1>3, <1>4, Typed DEF Making, Others
  <1>10. dtype'[i] /\ dnlink'[i] = 0
    BY <1>2, Typed
  <1>11. AllocOK'
    BY <1>8, <1>9, <1>10 DEF IInv, AllocOK
  <1>12. FreshOK'
    BY <1>7, <1>8, <1>9, <1>10 DEF IInv, FreshOK
  <1>13. LinksOK'
    <2>1. (Mid(p)' <=> Mid(p)) /\ ~Mid(p)
      BY <1>0, <1>2, <1>4 DEF Mid
    <2>2. \A j \in Inums : Counting(j)' = Counting(j) /\ NamesOf(j)' = NamesOf(j)
      BY <1>2, <1>3, <2>1, StepCounting DEF NamesOf
    <2>3. NamesOf(i) = {}
      BY <1>7 DEF Live, Named, NamesOf
    <2>4. Counting(i) = {}
      <3>1. \A q \in Procs : Mid(q) => ip[q] # None /\ at[q] # "create"
        BY DEF Mid, IInv, CallsOK, CallOK, Calling, Putting
      <3>2. \A q \in Procs : ~(Mid(q) /\ inum[ip[q]] = i)
        BY <1>7, <3>1 DEF Live, Reaches
      <3> QED BY <3>2, CountingAre
    <2>5. Cardinality(NamesOf(i)) = 0 /\ Cardinality(Counting(i)) = 0
      BY <2>3, <2>4, FS_EmptySet
    <2> QED BY <1>9, <1>10, <2>2, <2>5 DEF IInv, LinksOK
  <1>14. RootOK'
    <2>1. Rooted(p)'
      BY <1>4 DEF Rooted, InRoot
    <2> QED BY <1>0, <1>2, <1>3, <2>1, StepRoot, NoneIsNot
  <1>15. LockOK'
    <2>1. \A f \in Entries : lock'[f] = p <=> Locked(p, f)'
      BY <1>0, <1>2, <1>4 DEF Locked, IInv, LockOK
    <2> QED BY <1>2, <1>3, <2>1, StepLock
  <1>16. RefsOK' /\ UniqueOK'
    <2>1. RefsOK'
      BY <1>2, <1>3, RefsSame DEF Own
    <2> QED BY <1>2, <2>1 DEF IInv, UniqueOK
  <1>17. FreeingOK'
    BY <1>2, <1>3, <1>4, <1>8, StepFreeing
  <1>18. CacheOK'
    <2>1. \A f \in Entries : Freeing(f) => Freeing(f)'
      BY <1>0, <1>3 DEF Freeing, Others
    <2>2. \A f \in Entries : ref[f] > 0 => inum[f] \in Inums
      BY DEF IInv, UniqueOK
    <2>3. \A f \in Entries : inum[f] = i /\ ref[f] > 0 /\ valid[f] => Freeing(f)
      BY <1>1 DEF IInv, CacheOK
    <2> QED BY <1>2, <1>9, <2>1, <2>2, <2>3 DEF IInv, CacheOK
  <1> QED BY <1>5, <1>6, <1>11, <1>12, <1>13, <1>14, <1>15, <1>16, <1>17, <1>18 DEF IInv

\* A call that writes the link count of the inode it works on, in the cache
\* and on the disk, with nobody else holding the inode.
LEMMA StepSetLinks ==
    ASSUME InodeConstants, IInv, NEW p \in Procs, Others(p), at[p] \in Calling,
           NEW e \in Entries, e = ip[p], NEW i \in Inums, i = inum[e], NEW k \in Nat,
           valid' = [valid EXCEPT ![e] = TRUE], nlink' = [nlink EXCEPT ![e] = k],
           dnlink' = [dnlink EXCEPT ![i] = k], UNCHANGED <<inum, ref, dtype>>
    PROVE  /\ CacheOK' /\ UniqueOK' /\ Kept
           /\ valid' \in [Entries -> BOOLEAN] /\ nlink' \in [Entries -> Nat]
           /\ dnlink' \in [Inums -> Nat]
           /\ dnlink'[i] = k /\ \A j \in Inums : j # i => dnlink'[j] = dnlink[j]
           /\ \A q \in Procs : at[q] = "itrunc" =>
                /\ ref'[put[q]] = ref[put[q]] /\ valid'[put[q]] = valid[put[q]]
                /\ nlink'[put[q]] = nlink[put[q]]
  <1>1. ref[e] > 0 /\ dtype[i]
    BY IpIs
  <1>2. \A f \in Entries : f # e => valid'[f] = valid[f] /\ nlink'[f] = nlink[f]
    BY Typed
  <1>3. nlink'[e] = k /\ dnlink'[i] = k /\ \A j \in Inums : j # i => dnlink'[j] = dnlink[j]
    BY Typed
  <1>4. /\ valid' \in [Entries -> BOOLEAN] /\ nlink' \in [Entries -> Nat]
        /\ dnlink' \in [Inums -> Nat]
    BY Typed
  <1>5. \A q \in Procs : at[q] = "itrunc" => put[q] \in Entries /\ put[q] # e
    BY IpIs, FreeingEntry
  <1>6. \A f \in Entries : Freeing(f) => Freeing(f)'
    BY DEF Freeing, Others, Calling
  <1>7. \A f \in Entries : ref[f] > 0 /\ f # e => inum[f] \in Inums /\ inum[f] # i
    BY <1>1 DEF IInv, UniqueOK
  <1>8. CacheOK'
    BY <1>1, <1>2, <1>3, <1>6, <1>7 DEF IInv, CacheOK
  <1>9. UniqueOK' /\ Kept
    BY DEF IInv, UniqueOK, Kept
  <1> QED BY <1>2, <1>3, <1>4, <1>5, <1>8, <1>9

\* Only the holder of the directory's lock makes an inode, or unlinks one.
LEMMA OneRoot ==
    ASSUME InodeConstants, IInv, NEW p \in Procs, Rooted(p), NEW q \in Procs, q # p
    PROVE  ~Rooted(q) /\ at[q] \notin InRoot /\ new[q].inum = None
  <1>1. rootlock = p
    BY DEF IInv, RootOK
  <1>2. ~Rooted(q)
    BY <1>1 DEF IInv, RootOK
  <1> QED BY <1>2 DEF Rooted, InRoot, IInv, CallsOK, CallOK

LEMMA StepCreateLink ==
    ASSUME InodeConstants, IInv, NEW p \in Procs, CreateLink(p)
    PROVE  IInv'
  <1>0. at[p] = "create" /\ at[p] \in Calling /\ CallOK(p) /\ Rooted(p)
    BY DEF CreateLink, Calling, IInv, CallsOK, Rooted, InRoot
  <1>1. PICK e \in Entries : e = ip[p]
    BY <1>0, IpIs
  <1>2. PICK i \in Inums : i = inum[e] /\ i = new[p].inum
    BY <1>0, <1>1, IpIs DEF CallOK
  <1>3. PICK n \in Names : n = new[p].name /\ dir[n] = None
    BY <1>0, Typed DEF CallOK
  <1>4. /\ ref[e] > 0 /\ dtype[i] /\ put[p] = None /\ then[p] = "user" /\ opened[p] = None
        /\ lock[e] = None /\ rootlock = p
    BY <1>0, <1>1, <1>2, IpIs DEF CallOK, CreateLink, IInv, RootOK
  <1>5. Making(i) /\ ~Live(i) /\ dnlink[i] = 0 /\ ~NoType(e)
    BY <1>1, <1>2, <1>4, SeenIs DEF Making, IInv, FreshOK
  <1>6. /\ valid' = [valid EXCEPT ![e] = TRUE] /\ nlink' = [nlink EXCEPT ![e] = 1]
        /\ dnlink' = [dnlink EXCEPT ![i] = 1] /\ lock' = [lock EXCEPT ![e] = p]
        /\ dir' = [dir EXCEPT ![n] = i] /\ rootlock' = None
        /\ new' = [new EXCEPT ![p] = [inum |-> None, name |-> None]]
        /\ at' = [at EXCEPT ![p] = "open_locked"]
        /\ UNCHANGED <<inum, ref, dtype, ip, put, then, opened>>
    BY <1>1, <1>2, <1>3, <1>5 DEF CreateLink, SetLinks, GoDirPut, Goto, Set
  <1>7. Others(p)
    BY <1>6, Typed DEF Others
  <1>8. at'[p] = "open_locked" /\ new'[p].inum = None
    BY <1>6, Typed
  <1>9. /\ CacheOK' /\ UniqueOK' /\ Kept
        /\ valid' \in [Entries -> BOOLEAN] /\ nlink' \in [Entries -> Nat]
        /\ dnlink' \in [Inums -> Nat]
        /\ dnlink'[i] = 1 /\ \A j \in Inums : j # i => dnlink'[j] = dnlink[j]
        /\ \A q \in Procs : at[q] = "itrunc" =>
             /\ ref'[put[q]] = ref[put[q]] /\ valid'[put[q]] = valid[put[q]]
             /\ nlink'[put[q]] = nlink[put[q]]
    <2>1. /\ Others(p) /\ at[p] \in Calling /\ e \in Entries /\ e = ip[p]
          /\ i \in Inums /\ i = inum[e] /\ 1 \in Nat
          /\ valid' = [valid EXCEPT ![e] = TRUE] /\ nlink' = [nlink EXCEPT ![e] = 1]
          /\ dnlink' = [dnlink EXCEPT ![i] = 1] /\ UNCHANGED <<inum, ref, dtype>>
      BY <1>0, <1>1, <1>2, <1>6, <1>7
    <2> QED BY <2>1, StepSetLinks
  <1>10. Types' /\ CallTypes'
    <2>1. "open_locked" \in Labels
      BY DEF Labels, Calling
    <2>2. /\ lock' \in [Entries -> Procs \cup {None}] /\ dir' \in [Names -> Inums \cup {None}]
          /\ new' \in [Procs -> [inum : Inums \cup {None}, name : Names \cup {None}]]
          /\ at' \in [Procs -> Labels]
      BY <1>6, <2>1, Typed
    <2> QED BY <1>6, <1>9, <2>2, Typed DEF Types, CallTypes
  <1>11. CallsOK'
    <2>1. CallOK(p)'
      BY <1>0, <1>4, <1>6, <1>8 DEF CallOK, Calling, Putting
    <2>2. \A q \in Procs : q # p => at[q] \notin InRoot
      BY <1>0, OneRoot
    <2> QED BY <1>7, <1>9, <1>10, <2>1, <2>2, StepCalls
  <1>12. \A j \in Inums : Live(j)' => Live(j) \/ j = i
    <2>1. PICK S : S = {i}
      OBVIOUS
    <2>2. \A j \in Inums : Reaches(p, j)' => Live(j) \/ j \in S
      BY <1>1, <1>2, <1>4, <1>6, <1>8, <2>1 DEF Reaches
    <2>3. \A j \in Inums : Named(j)' => Live(j) \/ j \in S
      <3>1. \A m \in Names : dir'[m] = dir[m] \/ dir'[m] = i
        BY <1>6, Typed
      <3> QED BY <2>1, <3>1 DEF Named, Live
    <2>4. \A j \in Inums : Live(j)' => Live(j) \/ j \in S
      BY <1>7, <1>9, <2>2, <2>3, StepLive, Zenon
    <2> QED BY <2>1, <2>4
  <1>13. \A j \in Inums : ~Making(j)'
    <2>1. \A q \in Procs : new'[q].inum = None
      BY <1>0, <1>7, <1>8, OneRoot DEF Others
    <2> QED BY <2>1, NoneIsNot DEF Making
  <1>14. AllocOK'
    BY <1>4, <1>6, <1>12, <1>13 DEF IInv, AllocOK
  <1>15. FreshOK'
    BY <1>13 DEF FreshOK
  <1>16. LinksOK'
    <2>1. (Mid(p)' <=> Mid(p)) /\ ~Mid(p)
      BY <1>0, <1>4, <1>6, <1>8 DEF Mid
    <2>2. \A j \in Inums : Counting(j)' = Counting(j)
      BY <1>7, <1>9, <2>1, StepCounting
    <2>3. \A j \in Inums : j # i => NamesOf(j)' = NamesOf(j)
      BY <1>3, <1>6, NoneIsNot, Typed DEF NamesOf
    <2>4. NamesOf(i)' = {n} /\ Cardinality({n}) = 1
      <3>1. \A m \in Names : dir'[m] = i <=> m = n
        BY <1>5, <1>6, Typed DEF Live, Named
      <3> QED BY <3>1, FS_Singleton DEF NamesOf
    <2>5. Cardinality(Counting(i)) = 0
      BY <1>4, <1>5, NoLinks, FS_EmptySet
    <2>6. dnlink'[i] = Cardinality(NamesOf(i)') + Cardinality(Counting(i)')
      BY <1>9, <2>2, <2>4, <2>5
    <2>7. \A j \in Inums : j # i /\ dtype[j] =>
             dnlink'[j] = Cardinality(NamesOf(j)') + Cardinality(Counting(j)')
      BY <1>9, <2>2, <2>3 DEF IInv, LinksOK
    <2> QED BY <1>6, <2>6, <2>7 DEF LinksOK
  <1>17. RootOK'
    <2>1. ~Rooted(p)'
      BY <1>4, <1>6, <1>8 DEF Rooted, InRoot
    <2> QED BY <1>4, <1>6, <1>7, <2>1, StepRoot, NoneIsNot
  <1>18. LockOK'
    <2>1. \A f \in Entries : f # e => lock'[f] = lock[f]
      BY <1>6, Typed
    <2>2. lock'[e] = p /\ lock[e] = None
      BY <1>4, <1>6, Typed
    <2>3. \A f \in Entries : lock'[f] = p <=> Locked(p, f)'
      BY <1>0, <1>1, <1>6, <1>8, <2>1, <2>2 DEF Locked, IInv, LockOK
    <2> QED BY <1>7, <2>1, <2>2, <2>3, StepLock, NoneIsNot
  <1>19. RefsOK'
    BY <1>6, <1>7, RefsSame DEF Own
  <1>20. FreeingOK'
    <2>1. ASSUME NEW q \in Procs, at[q] = "iput_free" PROVE inum[put[q]] # i
      <3>1. put[q] \in Entries /\ ref[put[q]] > 0
        BY <2>1, PutIs DEF Putting
      <3>2. lock[put[q]] = q
        BY <2>1, <3>1 DEF IInv, LockOK, Locked
      <3>3. put[q] # e
        BY <1>4, <3>2, NoneIsNot
      <3> QED BY <1>2, <1>4, <3>1, <3>3 DEF IInv, UniqueOK
    <2>2. \A q \in Procs : \A j \in Inums :
             at[q] = "iput_free" /\ inum[put[q]] = j /\ Live(j)' => Live(j)
      BY <1>12, <2>1
    <2> QED BY <1>7, <1>8, <1>9, <2>2, StepFreeingBut
  <1> QED BY <1>9, <1>10, <1>11, <1>14, <1>15, <1>16, <1>17, <1>18, <1>19, <1>20 DEF IInv

\* A call that is done but for the iput of its inode.
LEMMA StepToPut ==
    ASSUME InodeConstants, IInv, NEW p \in Procs,
           at[p] \in {"unlink_count", "link_bad", "link_dir"}, NEW e \in Entries, e = ip[p],
           at' = [at EXCEPT ![p] = "iput"], put' = [put EXCEPT ![p] = e],
           then' = [then EXCEPT ![p] = "user"], ip' = [ip EXCEPT ![p] = None],
           new' = new \/ new' = [new EXCEPT ![p] = [inum |-> None, name |-> None]],
           lock' = IF at[p] = "unlink_count" THEN [lock EXCEPT ![e] = None] ELSE lock,
           UNCHANGED <<inum, ref, opened>>
    PROVE  /\ Others(p) /\ Kept /\ CallTypes' /\ CallOK(p)' /\ LockOK' /\ RefsOK'
           /\ ip' \in [Procs -> Entries \cup {None}] /\ put' \in [Procs -> Entries \cup {None}]
           /\ ~Mid(p)' /\ ~Rooted(p)' /\ at'[p] = "iput"
           /\ \A j \in Inums : (Reaches(p, j)' => Live(j)) /\ (Making(j)' => Making(j))
  <1>0. at[p] \in Calling /\ CallOK(p)
    BY DEF Calling, IInv, CallsOK
  <1>1. ref[e] > 0 /\ put[p] = None /\ then[p] = "user" /\ Live(inum[e]) /\ new[p].inum = None
    BY <1>0, IpIs DEF CallOK
  <1>2. Others(p) /\ Kept
    BY Typed DEF Others, Kept
  <1>3. /\ at'[p] = "iput" /\ put'[p] = e /\ then'[p] = "user" /\ ip'[p] = None
        /\ new'[p].inum = None /\ opened'[p] = opened[p]
    BY <1>1, Typed
  <1>4. /\ ip' \in [Procs -> Entries \cup {None}] /\ put' \in [Procs -> Entries \cup {None}]
        /\ CallTypes'
    <2>1. "iput" \in Labels
      BY DEF Labels, Putting
    <2>2. ip' \in [Procs -> Entries \cup {None}] /\ put' \in [Procs -> Entries \cup {None}]
      BY Typed
    <2>3. at' \in [Procs -> Labels] /\ then' \in [Procs -> {"user", "link_bad"}]
      BY <2>1, Typed
    <2>4. new' \in [Procs -> [inum : Inums \cup {None}, name : Names \cup {None}]]
      BY Typed
    <2> QED BY <2>2, <2>3, <2>4 DEF CallTypes
  <1>5. CallOK(p)' /\ ~Mid(p)' /\ ~Rooted(p)'
    BY <1>3, NoneIsNot DEF CallOK, Calling, Putting, Mid, Rooted, InRoot
  <1>6. LockOK'
    <2>1. \A f \in Entries : f # e => lock'[f] = lock[f] /\ ~Locked(p, f)
      BY Typed DEF Locked
    <2>2. at[p] = "unlink_count" => lock[e] = p /\ lock'[e] = None
      BY Typed DEF Locked, IInv, LockOK
    <2>3. at[p] # "unlink_count" => lock' = lock /\ ~Locked(p, e)
      BY DEF Locked
    <2>4. \A f \in Entries : ~Locked(p, f)'
      BY <1>3 DEF Locked
    <2>5. \A f \in Entries : lock'[f] # p
      BY <2>1, <2>2, <2>3, NoneIsNot DEF IInv, LockOK
    <2>6. \A f \in Entries : \A q \in Procs : q # p => (lock'[f] = q <=> lock[f] = q)
      BY <2>1, <2>2, <2>3, NoneIsNot
    <2> QED BY <1>2, <2>4, <2>5, <2>6, StepLock
  <1>7. RefsOK'
    <2>1. /\ Own(p, "call", e) /\ ~Own(p, "iput", e) /\ ~Own(p, "call", e)' /\ Own(p, "iput", e)'
          /\ \A j \in Kinds : \A f \in Entries :
                (j # "call" /\ j # "iput") \/ f # e => (Own(p, j, f)' <=> Own(p, j, f))
      BY <1>1, <1>3, NoneIsNot DEF Own
    <2>2. "call" \in Kinds /\ "iput" \in Kinds
      BY DEF Kinds
    <2> QED BY <1>2, <2>1, <2>2, RefsMove
  <1>8. \A j \in Inums : Reaches(p, j)' => Live(j)
    <2>1. inum' = inum
      OBVIOUS
    <2> QED BY <1>1, <1>3, <2>1 DEF Reaches, Live
  <1>9. \A j \in Inums : Making(j)' => Making(j)
    BY <1>2, <1>3, NoneIsNot DEF Making, Others
  <1> QED BY <1>2, <1>3, <1>4, <1>5, <1>6, <1>7, <1>8, <1>9

LEMMA StepUnlinkName ==
    ASSUME InodeConstants, IInv, NEW p \in Procs, UnlinkName(p)
    PROVE  IInv'
  <1>0. at[p] = "unlink" /\ at[p] \in Calling /\ CallOK(p) /\ Rooted(p)
    BY DEF UnlinkName, Calling, IInv, CallsOK, Rooted, InRoot
  <1>1. PICK e \in Entries : e = ip[p]
    BY <1>0, IpIs
  <1>2. PICK i \in Inums : i = inum[e]
    BY <1>0, <1>1, IpIs
  <1>3. PICK n \in Names : n = new[p].name /\ dir[n] = i
    BY <1>0, <1>1, <1>2, Typed DEF CallOK
  <1>4. /\ ref[e] > 0 /\ dtype[i] /\ put[p] = None /\ then[p] = "user" /\ Live(i)
        /\ lock[e] = None /\ rootlock = p
    BY <1>0, <1>1, <1>2, IpIs DEF UnlinkName, IInv, RootOK
  <1>5. PICK k \in Nat : dnlink[i] = k /\ k >= 1
    <2>1. n \in NamesOf(i)
      BY <1>3 DEF NamesOf
    <2>2. Cardinality(NamesOf(i)) >= 1
      BY <2>1, CountsFinite, CardDrop
    <2>3. dnlink[i] = Cardinality(NamesOf(i)) + Cardinality(Counting(i))
      BY <1>4 DEF IInv, LinksOK
    <2> QED BY <2>2, <2>3, CountsFinite
  <1>6. LinksSeen(e) = k /\ ~(NoType(e) \/ LinksSeen(e) < 1)
    BY <1>1, <1>2, <1>4, <1>5, SeenIs
  <1>7. /\ dir' = [dir EXCEPT ![n] = None] /\ rootlock' = None
        /\ valid' = [valid EXCEPT ![e] = TRUE] /\ nlink' = [nlink EXCEPT ![e] = k]
        /\ dnlink' = [dnlink EXCEPT ![i] = k] /\ lock' = [lock EXCEPT ![e] = p]
        /\ new' = [new EXCEPT ![p] = [inum |-> None, name |-> None]]
        /\ at' = [at EXCEPT ![p] = "unlink_count"]
        /\ UNCHANGED <<inum, ref, dtype, ip, put, then, opened>>
    BY <1>1, <1>2, <1>3, <1>6 DEF UnlinkName, SetLinks, GoDirPut, Goto, Set
  <1>8. Others(p) /\ at'[p] = "unlink_count" /\ new'[p].inum = None
    BY <1>7, Typed DEF Others
  <1>9. /\ CacheOK' /\ UniqueOK' /\ Kept
        /\ valid' \in [Entries -> BOOLEAN] /\ nlink' \in [Entries -> Nat]
        /\ dnlink' \in [Inums -> Nat]
        /\ dnlink'[i] = k /\ \A j \in Inums : j # i => dnlink'[j] = dnlink[j]
        /\ \A q \in Procs : at[q] = "itrunc" =>
             /\ ref'[put[q]] = ref[put[q]] /\ valid'[put[q]] = valid[put[q]]
             /\ nlink'[put[q]] = nlink[put[q]]
    <2>1. /\ Others(p) /\ at[p] \in Calling /\ e \in Entries /\ e = ip[p]
          /\ i \in Inums /\ i = inum[e] /\ k \in Nat
          /\ valid' = [valid EXCEPT ![e] = TRUE] /\ nlink' = [nlink EXCEPT ![e] = k]
          /\ dnlink' = [dnlink EXCEPT ![i] = k] /\ UNCHANGED <<inum, ref, dtype>>
      BY <1>0, <1>1, <1>2, <1>5, <1>7, <1>8
    <2> QED BY <2>1, StepSetLinks
  <1>10. Types' /\ CallTypes'
    <2>1. "unlink_count" \in Labels
      BY DEF Labels, Calling
    <2>2. /\ lock' \in [Entries -> Procs \cup {None}] /\ dir' \in [Names -> Inums \cup {None}]
          /\ new' \in [Procs -> [inum : Inums \cup {None}, name : Names \cup {None}]]
          /\ at' \in [Procs -> Labels]
      BY <1>7, <2>1, Typed
    <2> QED BY <1>7, <1>9, <2>2, Typed DEF Types, CallTypes
  <1>11. CallsOK'
    <2>1. CallOK(p)'
      BY <1>0, <1>4, <1>7, <1>8 DEF CallOK, Calling, Putting
    <2>2. \A q \in Procs : q # p => at[q] \notin InRoot
      BY <1>0, OneRoot
    <2> QED BY <1>8, <1>9, <1>10, <2>1, <2>2, StepCalls
  <1>12. \A j \in Inums : Live(j)' => Live(j)
    <2>1. \A j \in Inums : Named(j)' => Live(j)
      <3>1. \A m \in Names : dir'[m] = dir[m] \/ dir'[m] = None
        BY <1>7, Typed
      <3> QED BY <3>1, NoneIsNot DEF Named, Live
    <2>2. \A j \in Inums : Reaches(p, j)' => Live(j)
      BY <1>0, <1>4, <1>7, <1>8 DEF Reaches, Live
    <2> QED BY <1>8, <1>9, <2>1, <2>2, LiveShrinks, Zenon
  <1>13. AllocOK' /\ FreshOK'
    <2>1. ~Making(i)
      BY <1>4 DEF IInv, FreshOK
    <2>2. \A j \in Inums : Making(j)' => Making(j)
      BY <1>8, NoneIsNot DEF Making, Others
    <2> QED BY <1>7, <1>9, <1>12, <2>1, <2>2 DEF IInv, AllocOK, FreshOK
  <1>14. LinksOK'
    <2>1. \A q \in Procs : q # p => (Mid(q)' <=> Mid(q))
      BY <1>8 DEF Mid, Others
    <2>2. ~Mid(p) /\ Mid(p)'
      BY <1>0, <1>4, <1>8 DEF Mid
    <2>3. \A j \in Inums : Counting(j)' = {q \in Procs : Mid(q)' /\ inum[ip[q]] = j}
      BY <1>7 DEF Counting, Mid
    <2>4. \A j \in Inums : Counting(j) = {q \in Procs : Mid(q) /\ inum[ip[q]] = j}
      BY CountingAre
    <2>5. \A j \in Inums : j # i => Counting(j)' = Counting(j)
      BY <1>1, <1>2, <2>1, <2>3, <2>4
    <2>6. Counting(i)' = Counting(i) \cup {p} /\ p \notin Counting(i)
      BY <1>1, <1>2, <2>1, <2>2, <2>3, <2>4
    <2>7. Cardinality(Counting(i)') = Cardinality(Counting(i)) + 1
      BY <2>6, CountsFinite, CardAdd
    <2>8. \A j \in Inums : j # i => NamesOf(j)' = NamesOf(j)
      BY <1>3, <1>7, NoneIsNot, Typed DEF NamesOf
    <2>9. NamesOf(i)' = NamesOf(i) \ {n} /\ n \in NamesOf(i)
      <3>1. \A m \in Names : dir'[m] = i <=> dir[m] = i /\ m # n
        BY <1>3, <1>7, NoneIsNot, Typed
      <3> QED BY <1>3, <3>1 DEF NamesOf
    <2>10. Cardinality(NamesOf(i)') = Cardinality(NamesOf(i)) - 1
      BY <2>9, CountsFinite, CardDrop
    <2>11. k = Cardinality(NamesOf(i)) + Cardinality(Counting(i))
      BY <1>4, <1>5 DEF IInv, LinksOK
    <2>12. k = (Cardinality(NamesOf(i)) - 1) + (Cardinality(Counting(i)) + 1)
      BY <2>11, CountsFinite
    <2>13. dnlink'[i] = Cardinality(NamesOf(i)') + Cardinality(Counting(i)')
      BY <1>9, <2>7, <2>10, <2>12
    <2>14. \A j \in Inums : j # i /\ dtype[j] =>
              dnlink'[j] = Cardinality(NamesOf(j)') + Cardinality(Counting(j)')
      BY <1>9, <2>5, <2>8 DEF IInv, LinksOK
    <2> QED BY <1>7, <2>13, <2>14 DEF LinksOK
  <1>15. RootOK'
    <2>1. ~Rooted(p)'
      BY <1>4, <1>7, <1>8 DEF Rooted, InRoot
    <2> QED BY <1>4, <1>7, <1>8, <2>1, StepRoot, NoneIsNot
  <1>16. LockOK'
    <2>1. \A f \in Entries : f # e => lock'[f] = lock[f]
      BY <1>7, Typed
    <2>2. lock'[e] = p /\ lock[e] = None
      BY <1>4, <1>7, Typed
    <2>3. \A f \in Entries : lock'[f] = p <=> Locked(p, f)'
      BY <1>0, <1>1, <1>7, <1>8, <2>1, <2>2 DEF Locked, IInv, LockOK
    <2> QED BY <1>8, <2>1, <2>2, <2>3, StepLock, NoneIsNot
  <1>17. RefsOK'
    BY <1>7, <1>8, RefsSame DEF Own
  <1>18. FreeingOK'
    BY <1>8, <1>9, <1>12, StepFreeing
  <1> QED BY <1>9, <1>10, <1>11, <1>13, <1>14, <1>15, <1>16, <1>17, <1>18 DEF IInv

LEMMA StepLinkUp ==
    ASSUME InodeConstants, IInv, NEW p \in Procs, LinkCount(p), at[p] = "link"
    PROVE  IInv'
  <1>0. at[p] \in Calling /\ CallOK(p)
    BY DEF Calling, IInv, CallsOK
  <1>1. PICK e \in Entries : e = ip[p]
    BY <1>0, IpIs
  <1>2. PICK i \in Inums : i = inum[e]
    BY <1>0, <1>1, IpIs
  <1>3. /\ ref[e] > 0 /\ dtype[i] /\ put[p] = None /\ then[p] = "user" /\ Live(i)
        /\ lock[e] = None
    BY <1>0, <1>1, <1>2, IpIs DEF LinkCount
  <1>4. PICK k \in Nat : k = dnlink[i] + 1
    BY Typed
  <1>5. LinksSeen(e) + 1 = k /\ ~NoType(e)
    BY <1>1, <1>2, <1>3, <1>4, SeenIs
  <1>6. /\ valid' = [valid EXCEPT ![e] = TRUE] /\ nlink' = [nlink EXCEPT ![e] = k]
        /\ dnlink' = [dnlink EXCEPT ![i] = k] /\ at' = [at EXCEPT ![p] = "link_dir"]
        /\ UNCHANGED <<inum, ref, lock, dtype, ip, put, then, new, dir, rootlock, opened>>
    BY <1>1, <1>2, <1>5 DEF LinkCount, SetLinks, Goto, Set
  <1>7. Others(p) /\ at'[p] = "link_dir"
    BY <1>6, Typed DEF Others
  <1>8. /\ CacheOK' /\ UniqueOK' /\ Kept
        /\ valid' \in [Entries -> BOOLEAN] /\ nlink' \in [Entries -> Nat]
        /\ dnlink' \in [Inums -> Nat]
        /\ dnlink'[i] = k /\ \A j \in Inums : j # i => dnlink'[j] = dnlink[j]
        /\ \A q \in Procs : at[q] = "itrunc" =>
             /\ ref'[put[q]] = ref[put[q]] /\ valid'[put[q]] = valid[put[q]]
             /\ nlink'[put[q]] = nlink[put[q]]
    <2>1. /\ Others(p) /\ at[p] \in Calling /\ e \in Entries /\ e = ip[p]
          /\ i \in Inums /\ i = inum[e] /\ k \in Nat
          /\ valid' = [valid EXCEPT ![e] = TRUE] /\ nlink' = [nlink EXCEPT ![e] = k]
          /\ dnlink' = [dnlink EXCEPT ![i] = k] /\ UNCHANGED <<inum, ref, dtype>>
      BY <1>0, <1>1, <1>2, <1>4, <1>6, <1>7
    <2> QED BY <2>1, StepSetLinks
  <1>9. Types' /\ CallTypes'
    <2>1. "link_dir" \in Labels
      BY DEF Labels, Calling
    <2>2. at' \in [Procs -> Labels]
      BY <1>6, <2>1, Typed
    <2> QED BY <1>6, <1>8, <2>2, Typed DEF Types, CallTypes
  <1>10. CallsOK'
    <2>1. CallOK(p)'
      BY <1>0, <1>6, <1>7 DEF CallOK, Calling, Putting
    <2> QED BY <1>6, <1>7, <1>8, <1>9, <2>1, StepCalls
  <1>11. \A j \in Inums : Live(j)' => Live(j)
    <2>1. \A j \in Inums : Named(j)' => Live(j)
      BY <1>6 DEF Named, Live
    <2>2. \A j \in Inums : Reaches(p, j)' => Live(j)
      BY <1>6, <1>7 DEF Reaches, Live
    <2> QED BY <1>7, <1>8, <2>1, <2>2, LiveShrinks, Zenon
  <1>12. \A j \in Inums : Making(j)' => Making(j)
    BY <1>6 DEF Making
  <1>13. AllocOK'
    BY <1>6, <1>11, <1>12 DEF IInv, AllocOK
  <1>14. FreshOK'
    <2>1. ~Making(i)
      BY <1>3 DEF IInv, FreshOK
    <2> QED BY <1>8, <1>11, <1>12, <2>1 DEF IInv, FreshOK
  <1>15. LinksOK'
    <2>1. \A q \in Procs : q # p => (Mid(q)' <=> Mid(q))
      BY <1>7 DEF Mid, Others
    <2>2. ~Mid(p) /\ Mid(p)'
      BY <1>3, <1>7 DEF Mid
    <2>3. \A j \in Inums : Counting(j)' = {q \in Procs : Mid(q)' /\ inum[ip[q]] = j}
      BY <1>6 DEF Counting, Mid
    <2>4. \A j \in Inums : Counting(j) = {q \in Procs : Mid(q) /\ inum[ip[q]] = j}
      BY CountingAre
    <2>5. \A j \in Inums : j # i => Counting(j)' = Counting(j)
      BY <1>1, <1>2, <2>1, <2>3, <2>4
    <2>6. Counting(i)' = Counting(i) \cup {p} /\ p \notin Counting(i)
      BY <1>1, <1>2, <2>1, <2>2, <2>3, <2>4
    <2>7. Cardinality(Counting(i)') = Cardinality(Counting(i)) + 1
      BY <2>6, CountsFinite, CardAdd
    <2>8. \A j \in Inums : NamesOf(j)' = NamesOf(j)
      BY <1>6 DEF NamesOf
    <2>9. dnlink[i] = Cardinality(NamesOf(i)) + Cardinality(Counting(i))
      BY <1>3 DEF IInv, LinksOK
    <2>10. k = Cardinality(NamesOf(i)) + (Cardinality(Counting(i)) + 1)
      BY <1>4, <2>9, CountsFinite
    <2>11. dnlink'[i] = Cardinality(NamesOf(i)') + Cardinality(Counting(i)')
      BY <1>8, <2>7, <2>8, <2>10
    <2>12. \A j \in Inums : j # i /\ dtype[j] =>
              dnlink'[j] = Cardinality(NamesOf(j)') + Cardinality(Counting(j)')
      BY <1>8, <2>5, <2>8 DEF IInv, LinksOK
    <2> QED BY <1>6, <2>11, <2>12 DEF LinksOK
  <1>16. RootOK'
    BY <1>3, <1>6, <1>7, StepRoot DEF Rooted, InRoot, IInv, RootOK
  <1>17. LockOK'
    <2>1. \A f \in Entries : lock'[f] = p <=> Locked(p, f)'
      BY <1>6, <1>7 DEF Locked, IInv, LockOK
    <2> QED BY <1>6, <1>7, <2>1, StepLock
  <1>18. RefsOK'
    BY <1>6, <1>7, RefsSame DEF Own
  <1>19. FreeingOK'
    BY <1>7, <1>8, <1>11, StepFreeing
  <1> QED BY <1>8, <1>9, <1>10, <1>13, <1>14, <1>15, <1>16, <1>17, <1>18, <1>19 DEF IInv

LEMMA StepLinkDown ==
    ASSUME InodeConstants, IInv, NEW p \in Procs, LinkCount(p), at[p] = "link_bad"
    PROVE  IInv'
  <1>0. at[p] \in Calling /\ CallOK(p)
    BY DEF Calling, IInv, CallsOK
  <1>1. PICK e \in Entries : e = ip[p]
    BY <1>0, IpIs
  <1>2. PICK i \in Inums : i = inum[e]
    BY <1>0, <1>1, IpIs
  <1>3. /\ ref[e] > 0 /\ dtype[i] /\ put[p] = None /\ then[p] = "user" /\ Live(i)
        /\ lock[e] = None /\ Mid(p)
    BY <1>0, <1>1, <1>2, IpIs DEF LinkCount, Mid
  <1>4. p \in Counting(i)
    BY <1>1, <1>2, <1>3, CountingAre
  <1>5. PICK k \in Nat : dnlink[i] = k + 1
    <2>1. Cardinality(Counting(i)) >= 1
      BY <1>4, CountsFinite, CardDrop
    <2>2. dnlink[i] = Cardinality(NamesOf(i)) + Cardinality(Counting(i))
      BY <1>3 DEF IInv, LinksOK
    <2>3. dnlink[i] - 1 \in Nat /\ dnlink[i] = (dnlink[i] - 1) + 1
      BY <2>1, <2>2, CountsFinite
    <2> QED BY <2>3
  <1>6. LinksSeen(e) + -1 = k /\ ~NoType(e)
    <2>1. LinksSeen(e) = k + 1 /\ ~NoType(e)
      BY <1>1, <1>2, <1>3, <1>5, SeenIs
    <2> QED BY <2>1
  <1>7. /\ valid' = [valid EXCEPT ![e] = TRUE] /\ nlink' = [nlink EXCEPT ![e] = k]
        /\ dnlink' = [dnlink EXCEPT ![i] = k]
        /\ ip' = [ip EXCEPT ![p] = None]
        /\ new' = [new EXCEPT ![p] = [inum |-> None, name |-> None]]
        /\ at' = [at EXCEPT ![p] = "iput"] /\ put' = [put EXCEPT ![p] = e]
        /\ then' = [then EXCEPT ![p] = "user"]
        /\ UNCHANGED <<inum, ref, lock, dtype, dir, rootlock, opened>>
    BY <1>1, <1>2, <1>6 DEF LinkCount, SetLinks, GoPut, Goto, Set
  <1>8. /\ Others(p) /\ Kept /\ CallTypes' /\ CallOK(p)' /\ LockOK' /\ RefsOK'
        /\ ip' \in [Procs -> Entries \cup {None}] /\ put' \in [Procs -> Entries \cup {None}]
        /\ ~Mid(p)' /\ ~Rooted(p)' /\ at'[p] = "iput"
        /\ \A j \in Inums : (Reaches(p, j)' => Live(j)) /\ (Making(j)' => Making(j))
    BY <1>1, <1>7, StepToPut
  <1>9. /\ CacheOK' /\ UniqueOK' /\ Kept
        /\ valid' \in [Entries -> BOOLEAN] /\ nlink' \in [Entries -> Nat]
        /\ dnlink' \in [Inums -> Nat]
        /\ dnlink'[i] = k /\ \A j \in Inums : j # i => dnlink'[j] = dnlink[j]
        /\ \A q \in Procs : at[q] = "itrunc" =>
             /\ ref'[put[q]] = ref[put[q]] /\ valid'[put[q]] = valid[put[q]]
             /\ nlink'[put[q]] = nlink[put[q]]
    <2>1. /\ Others(p) /\ at[p] \in Calling /\ e \in Entries /\ e = ip[p]
          /\ i \in Inums /\ i = inum[e] /\ k \in Nat
          /\ valid' = [valid EXCEPT ![e] = TRUE] /\ nlink' = [nlink EXCEPT ![e] = k]
          /\ dnlink' = [dnlink EXCEPT ![i] = k] /\ UNCHANGED <<inum, ref, dtype>>
      BY <1>0, <1>1, <1>2, <1>7, <1>8
    <2> QED BY <2>1, StepSetLinks
  <1>10. Types'
    BY <1>7, <1>8, <1>9, Typed DEF Types
  <1>11. CallsOK'
    BY <1>7, <1>8, StepCalls
  <1>12. \A j \in Inums : Live(j)' => Live(j)
    <2>1. \A j \in Inums : Named(j)' => Live(j)
      BY <1>7 DEF Named, Live
    <2>2. \A j \in Inums : Reaches(p, j)' => Live(j)
      BY <1>8
    <2> QED BY <1>8, <2>1, <2>2, LiveShrinks, Zenon
  <1>13. AllocOK'
    BY <1>7, <1>8, <1>12 DEF IInv, AllocOK
  <1>14. FreshOK'
    <2>1. ~Making(i)
      BY <1>3 DEF IInv, FreshOK
    <2> QED BY <1>8, <1>9, <1>12, <2>1 DEF IInv, FreshOK
  <1>15. LinksOK'
    <2>1. \A j \in Inums : Counting(j)' = Counting(j) \ {p}
      BY <1>8, CountingDrop
    <2>2. \A j \in Inums : j # i => Counting(j)' = Counting(j)
      <3>1. \A j \in Inums : j # i => p \notin Counting(j)
        BY <1>1, <1>2, CountingAre
      <3> QED BY <2>1, <3>1
    <2>3. Cardinality(Counting(i)') = Cardinality(Counting(i)) - 1
      BY <1>4, <2>1, CountsFinite, CardDrop
    <2>4. \A j \in Inums : NamesOf(j)' = NamesOf(j)
      BY <1>7 DEF NamesOf
    <2>5. k + 1 = Cardinality(NamesOf(i)) + Cardinality(Counting(i))
      BY <1>3, <1>5 DEF IInv, LinksOK
    <2>6. k = Cardinality(NamesOf(i)) + (Cardinality(Counting(i)) - 1)
      BY <2>5, CountsFinite
    <2>7. dnlink'[i] = Cardinality(NamesOf(i)') + Cardinality(Counting(i)')
      BY <1>9, <2>3, <2>4, <2>6
    <2>8. \A j \in Inums : j # i /\ dtype[j] =>
             dnlink'[j] = Cardinality(NamesOf(j)') + Cardinality(Counting(j)')
      BY <1>9, <2>2, <2>4 DEF IInv, LinksOK
    <2> QED BY <1>7, <2>7, <2>8 DEF LinksOK
  <1>16. RootOK'
    <2>1. rootlock # p
      BY <1>3 DEF IInv, RootOK, Rooted, InRoot
    <2> QED BY <1>7, <1>8, <2>1, StepRoot
  <1>17. FreeingOK'
    BY <1>8, <1>9, <1>12, StepFreeing
  <1> QED BY <1>8, <1>9, <1>10, <1>11, <1>13, <1>14, <1>15, <1>16, <1>17 DEF IInv

LEMMA StepUnlinkCount ==
    ASSUME InodeConstants, IInv, NEW p \in Procs, ReadOK, UnlinkCount(p)
    PROVE  IInv'
  <1>0. at[p] = "unlink_count" /\ at[p] \in Calling /\ CallOK(p)
    BY DEF UnlinkCount, Calling, IInv, CallsOK
  <1>1. PICK e \in Entries : e = ip[p]
    BY <1>0, IpIs
  <1>2. PICK i \in Inums : i = inum[e]
    BY <1>0, <1>1, IpIs
  <1>3. /\ ref[e] > 0 /\ dtype[i] /\ put[p] = None /\ then[p] = "user" /\ Live(i)
        /\ lock[e] = p /\ valid[e] /\ Mid(p)
    BY <1>0, <1>1, <1>2, IpIs DEF ReadOK, Mid, IInv, LockOK, Locked
  <1>4. p \in Counting(i)
    BY <1>1, <1>2, <1>3, CountingAre
  <1>5. PICK k \in Nat : dnlink[i] = k + 1
    <2>1. Cardinality(Counting(i)) >= 1
      BY <1>4, CountsFinite, CardDrop
    <2>2. dnlink[i] = Cardinality(NamesOf(i)) + Cardinality(Counting(i))
      BY <1>3 DEF IInv, LinksOK
    <2>3. dnlink[i] - 1 \in Nat /\ dnlink[i] = (dnlink[i] - 1) + 1
      BY <2>1, <2>2, CountsFinite
    <2> QED BY <2>3
  <1>6. nlink[e] - 1 = k
    <2>1. ~Freeing(e)
      BY <1>0, <1>3 DEF Freeing, IInv, LockOK, Locked
    <2>2. nlink[e] = k + 1
      BY <1>2, <1>3, <1>5, <2>1 DEF IInv, CacheOK
    <2> QED BY <2>2
  <1>7. /\ valid' = [valid EXCEPT ![e] = TRUE] /\ nlink' = [nlink EXCEPT ![e] = k]
        /\ dnlink' = [dnlink EXCEPT ![i] = k] /\ lock' = [lock EXCEPT ![e] = None]
        /\ ip' = [ip EXCEPT ![p] = None]
        /\ at' = [at EXCEPT ![p] = "iput"] /\ put' = [put EXCEPT ![p] = e]
        /\ then' = [then EXCEPT ![p] = "user"]
        /\ UNCHANGED <<inum, ref, new, dtype, dir, rootlock, opened>>
    BY <1>1, <1>2, <1>6 DEF UnlinkCount, SetLinks, Unlocked, GoPut, Goto, Set
  <1>8. /\ Others(p) /\ Kept /\ CallTypes' /\ CallOK(p)' /\ LockOK' /\ RefsOK'
        /\ ip' \in [Procs -> Entries \cup {None}] /\ put' \in [Procs -> Entries \cup {None}]
        /\ ~Mid(p)' /\ ~Rooted(p)' /\ at'[p] = "iput"
        /\ \A j \in Inums : (Reaches(p, j)' => Live(j)) /\ (Making(j)' => Making(j))
    BY <1>0, <1>1, <1>7, StepToPut
  <1>9. /\ CacheOK' /\ UniqueOK' /\ Kept
        /\ valid' \in [Entries -> BOOLEAN] /\ nlink' \in [Entries -> Nat]
        /\ dnlink' \in [Inums -> Nat]
        /\ dnlink'[i] = k /\ \A j \in Inums : j # i => dnlink'[j] = dnlink[j]
        /\ \A q \in Procs : at[q] = "itrunc" =>
             /\ ref'[put[q]] = ref[put[q]] /\ valid'[put[q]] = valid[put[q]]
             /\ nlink'[put[q]] = nlink[put[q]]
    <2>1. /\ Others(p) /\ at[p] \in Calling /\ e \in Entries /\ e = ip[p]
          /\ i \in Inums /\ i = inum[e] /\ k \in Nat
          /\ valid' = [valid EXCEPT ![e] = TRUE] /\ nlink' = [nlink EXCEPT ![e] = k]
          /\ dnlink' = [dnlink EXCEPT ![i] = k] /\ UNCHANGED <<inum, ref, dtype>>
      BY <1>0, <1>1, <1>2, <1>7, <1>8
    <2> QED BY <2>1, StepSetLinks
  <1>10. Types'
    <2>1. lock' \in [Entries -> Procs \cup {None}]
      BY <1>7, Typed
    <2> QED BY <1>7, <1>8, <1>9, <2>1, Typed DEF Types
  <1>11. CallsOK'
    BY <1>7, <1>8, StepCalls
  <1>12. \A j \in Inums : Live(j)' => Live(j)
    <2>1. \A j \in Inums : Named(j)' => Live(j)
      BY <1>7 DEF Named, Live
    <2>2. \A j \in Inums : Reaches(p, j)' => Live(j)
      BY <1>8
    <2> QED BY <1>8, <2>1, <2>2, LiveShrinks, Zenon
  <1>13. AllocOK'
    BY <1>7, <1>8, <1>12 DEF IInv, AllocOK
  <1>14. FreshOK'
    <2>1. ~Making(i)
      BY <1>3 DEF IInv, FreshOK
    <2> QED BY <1>8, <1>9, <1>12, <2>1 DEF IInv, FreshOK
  <1>15. LinksOK'
    <2>1. \A j \in Inums : Counting(j)' = Counting(j) \ {p}
      BY <1>8, CountingDrop
    <2>2. \A j \in Inums : j # i => Counting(j)' = Counting(j)
      <3>1. \A j \in Inums : j # i => p \notin Counting(j)
        BY <1>1, <1>2, CountingAre
      <3> QED BY <2>1, <3>1
    <2>3. Cardinality(Counting(i)') = Cardinality(Counting(i)) - 1
      BY <1>4, <2>1, CountsFinite, CardDrop
    <2>4. \A j \in Inums : NamesOf(j)' = NamesOf(j)
      BY <1>7 DEF NamesOf
    <2>5. k + 1 = Cardinality(NamesOf(i)) + Cardinality(Counting(i))
      BY <1>3, <1>5 DEF IInv, LinksOK
    <2>6. k = Cardinality(NamesOf(i)) + (Cardinality(Counting(i)) - 1)
      BY <2>5, CountsFinite
    <2>7. dnlink'[i] = Cardinality(NamesOf(i)') + Cardinality(Counting(i)')
      BY <1>9, <2>3, <2>4, <2>6
    <2>8. \A j \in Inums : j # i /\ dtype[j] =>
             dnlink'[j] = Cardinality(NamesOf(j)') + Cardinality(Counting(j)')
      BY <1>9, <2>2, <2>4 DEF IInv, LinksOK
    <2> QED BY <1>7, <2>7, <2>8 DEF LinksOK
  <1>16. RootOK'
    <2>1. rootlock # p
      BY <1>0, <1>3 DEF IInv, RootOK, Rooted, InRoot
    <2> QED BY <1>7, <1>8, <2>1, StepRoot
  <1>17. FreeingOK'
    BY <1>8, <1>9, <1>12, StepFreeing
  <1> QED BY <1>8, <1>9, <1>10, <1>11, <1>13, <1>14, <1>15, <1>16, <1>17 DEF IInv

\* dirlink writes the new name.
LEMMA StepLinkNew ==
    ASSUME InodeConstants, IInv, NEW p \in Procs, LinkDir(p), dir[new[p].name] = None
    PROVE  IInv'
  <1>0. at[p] = "link_dir" /\ at[p] \in Calling /\ CallOK(p) /\ rootlock = None
    BY DEF LinkDir, Calling, IInv, CallsOK
  <1>1. PICK e \in Entries : e = ip[p]
    BY <1>0, IpIs
  <1>2. PICK i \in Inums : i = inum[e]
    BY <1>0, <1>1, IpIs
  <1>3. PICK n \in Names : n = new[p].name /\ dir[n] = None
    BY <1>0, Typed DEF CallOK
  <1>4. ref[e] > 0 /\ dtype[i] /\ put[p] = None /\ then[p] = "user" /\ Live(i) /\ Mid(p)
    BY <1>0, <1>1, <1>2, IpIs DEF Mid
  <1>5. /\ dir' = [dir EXCEPT ![n] = i]
        /\ ip' = [ip EXCEPT ![p] = None]
        /\ new' = [new EXCEPT ![p] = [inum |-> None, name |-> None]]
        /\ at' = [at EXCEPT ![p] = "iput"] /\ put' = [put EXCEPT ![p] = e]
        /\ then' = [then EXCEPT ![p] = "user"]
        /\ UNCHANGED <<inum, ref, valid, nlink, lock, dtype, dnlink, rootlock, opened>>
    BY <1>1, <1>2, <1>3 DEF LinkDir, GoPut, Goto, Set, cache, disk
  <1>6. /\ Others(p) /\ Kept /\ CallTypes' /\ CallOK(p)' /\ LockOK' /\ RefsOK'
        /\ ip' \in [Procs -> Entries \cup {None}] /\ put' \in [Procs -> Entries \cup {None}]
        /\ ~Mid(p)' /\ ~Rooted(p)' /\ at'[p] = "iput"
        /\ \A j \in Inums : (Reaches(p, j)' => Live(j)) /\ (Making(j)' => Making(j))
    BY <1>0, <1>1, <1>5, StepToPut
  <1>7. Types'
    <2>1. dir' \in [Names -> Inums \cup {None}]
      BY <1>5, Typed
    <2> QED BY <1>5, <1>6, <2>1, Typed DEF Types
  <1>8. CallsOK'
    <2>1. \A q \in Procs : at[q] \notin InRoot
      BY <1>0, NoneIsNot DEF IInv, RootOK, Rooted
    <2> QED BY <1>6, <2>1, StepCalls
  <1>9. \A j \in Inums : Live(j)' => Live(j)
    <2>1. \A j \in Inums : Named(j)' => Live(j)
      <3>1. \A m \in Names : dir'[m] = dir[m] \/ dir'[m] = i
        BY <1>5, Typed
      <3> QED BY <1>4, <3>1 DEF Named, Live
    <2>2. \A j \in Inums : Reaches(p, j)' => Live(j)
      BY <1>6
    <2> QED BY <1>6, <2>1, <2>2, LiveShrinks, Zenon
  <1>10. AllocOK' /\ FreshOK'
    BY <1>5, <1>6, <1>9 DEF IInv, AllocOK, FreshOK
  <1>11. LinksOK'
    <2>1. \A j \in Inums : Counting(j)' = Counting(j) \ {p}
      BY <1>6, CountingDrop
    <2>2. \A j \in Inums : p \in Counting(j) <=> j = i
      BY <1>1, <1>2, <1>4, CountingAre
    <2>3. Cardinality(Counting(i)') = Cardinality(Counting(i)) - 1
      BY <2>1, <2>2, CountsFinite, CardDrop
    <2>4. \A j \in Inums : j # i => NamesOf(j)' = NamesOf(j)
      BY <1>3, <1>5, NoneIsNot, Typed DEF NamesOf
    <2>5. NamesOf(i)' = NamesOf(i) \cup {n} /\ n \notin NamesOf(i)
      <3>1. \A m \in Names : dir'[m] = i <=> dir[m] = i \/ m = n
        BY <1>3, <1>5, Typed
      <3> QED BY <1>3, <3>1, NoneIsNot DEF NamesOf
    <2>6. Cardinality(NamesOf(i)') = Cardinality(NamesOf(i)) + 1
      BY <2>5, CountsFinite, CardAdd
    <2>7. dnlink[i] = Cardinality(NamesOf(i)) + Cardinality(Counting(i))
      BY <1>4 DEF IInv, LinksOK
    <2>8. dnlink[i] = (Cardinality(NamesOf(i)) + 1) + (Cardinality(Counting(i)) - 1)
      BY <2>7, CountsFinite
    <2>9. dnlink'[i] = Cardinality(NamesOf(i)') + Cardinality(Counting(i)')
      BY <1>5, <2>3, <2>6, <2>8
    <2>10. \A j \in Inums : j # i => Counting(j)' = Counting(j)
      BY <2>1, <2>2
    <2>11. \A j \in Inums : j # i /\ dtype[j] =>
              dnlink'[j] = Cardinality(NamesOf(j)') + Cardinality(Counting(j)')
      BY <1>5, <2>4, <2>10 DEF IInv, LinksOK
    <2> QED BY <1>5, <2>9, <2>11 DEF LinksOK
  <1>12. RootOK'
    BY <1>0, <1>5, <1>6, StepRoot, NoneIsNot
  <1>13. UniqueOK'
    BY <1>5 DEF IInv, UniqueOK
  <1>14. FreeingOK'
    BY <1>5, <1>6, <1>9, StepFreeing
  <1>15. CacheOK'
    BY <1>0, <1>5, <1>6, StepCache DEF disk
  <1> QED BY <1>6, <1>7, <1>8, <1>10, <1>11, <1>12, <1>13, <1>14, <1>15 DEF IInv

\* dirlink finds the new name in use, and puts the inode it found.
LEMMA StepLinkBad ==
    ASSUME InodeConstants, IInv, NEW p \in Procs, LinkDir(p), dir[new[p].name] # None
    PROVE  IInv'
  <1>0. at[p] = "link_dir" /\ at[p] \in Calling /\ CallOK(p) /\ rootlock = None
    BY DEF LinkDir, Calling, IInv, CallsOK
  <1>1. PICK n \in Names : n = new[p].name /\ dir[n] # None
    BY <1>0, Typed DEF CallOK
  <1>2. PICK i \in Inums : i = dir[n] /\ Named(i)
    BY <1>1, NamedIs
  <1>3. /\ put[p] = None /\ then[p] = "user" /\ new[p].inum = None /\ Mid(p)
        /\ ip[p] # None
    BY <1>0, IpIs, NoneIsNot DEF Mid, CallOK
  <1>4. Iget(i)
    BY <1>1, <1>2 DEF LinkDir
  <1>5. PICK f \in Entries : f = Found(i)
    BY <1>4, IgetIs
  <1>6. /\ rootlock' = p /\ put' = [put EXCEPT ![p] = f] /\ then' = [then EXCEPT ![p] = "link_bad"]
        /\ at' = [at EXCEPT ![p] = "iput"]
        /\ UNCHANGED <<dtype, dnlink, dir, ip, new, opened>>
    BY <1>1, <1>2, <1>5 DEF LinkDir, GoPut, Goto, Set, disk
  <1>7. /\ inum'[f] = i /\ Kept /\ UniqueOK'
        /\ inum' \in [Entries -> Inums \cup {None}]
        /\ ref' \in [Entries -> Nat] /\ valid' \in [Entries -> BOOLEAN]
        /\ ref' = [ref EXCEPT ![f] = @ + 1]
        /\ nlink' = nlink /\ lock' = lock
    BY <1>4, <1>5, IgetIs
  <1>8. /\ at'[p] = "iput" /\ put'[p] = f /\ then'[p] = "link_bad" /\ ip'[p] = ip[p]
        /\ new'[p] = new[p] /\ opened'[p] = opened[p]
    BY <1>6, Typed
  <1>9. Others(p)
    BY <1>6, Typed DEF Others
  <1>10. Types' /\ CallTypes'
    <2>1. "iput" \in Labels
      BY DEF Labels, Putting
    <2>2. put' \in [Procs -> Entries \cup {None}] /\ at' \in [Procs -> Labels]
      BY <1>6, <2>1, Typed
    <2>3. then' \in [Procs -> {"user", "link_bad"}]
      BY <1>6, Typed
    <2> QED BY <1>6, <1>7, <2>2, <2>3, Typed DEF Types, CallTypes
  <1>11. CallOK(p)'
    BY <1>3, <1>8, NoneIsNot DEF CallOK, Calling, Putting
  <1>12. /\ CallsOK' /\ AllocOK' /\ FreshOK' /\ LinksOK'
         /\ \A j \in Inums : Live(j)' => Live(j)
    <2>1. (Mid(p)' <=> Mid(p)) /\ (Mid(p) => ip'[p] = ip[p]) /\ new'[p].inum = new[p].inum
      BY <1>3, <1>8 DEF Mid
    <2>2. ASSUME NEW j \in Inums, Reaches(p, j)' PROVE Live(j)
      <3>1. /\ opened[p] # None => inum'[opened[p]] = inum[opened[p]]
            /\ inum'[ip[p]] = inum[ip[p]]
        BY <1>3, <1>7, InUseIs DEF Kept
      <3>2. Reaches(p, j) \/ j = i
        BY <1>0, <1>3, <1>7, <1>8, <2>2, <3>1 DEF Reaches
      <3> QED BY <1>2, <3>2 DEF Live
    <2> QED BY <1>6, <1>7, <1>9, <1>10, <1>11, <2>1, <2>2, StepDiskKept DEF disk
  <1>13. FreeingOK' /\ CacheOK'
    BY <1>0, <1>2, <1>4, <1>6, <1>8, <1>9, <1>12, GetKeeps DEF disk
  <1>14. RootOK'
    <2>1. Rooted(p)'
      BY <1>8 DEF Rooted
    <2> QED BY <1>0, <1>6, <1>9, <2>1, StepRoot, NoneIsNot
  <1>15. LockOK'
    <2>1. \A e \in Entries : lock'[e] = p <=> Locked(p, e)'
      BY <1>0, <1>7, <1>8 DEF IInv, LockOK, Locked
    <2> QED BY <1>7, <1>9, <2>1, StepLock
  <1>16. RefsOK'
    <2>1. /\ ~Own(p, "iput", f) /\ Own(p, "iput", f)'
          /\ \A j \in Kinds : \A e \in Entries :
                j # "iput" \/ e # f => (Own(p, j, e)' <=> Own(p, j, e))
      BY <1>3, <1>8, NoneIsNot DEF Own
    <2>2. "iput" \in Kinds
      BY DEF Kinds
    <2> QED BY <1>7, <1>9, <2>1, <2>2, RefsGain
  <1> QED BY <1>7, <1>10, <1>12, <1>13, <1>14, <1>15, <1>16 DEF IInv

-----------------------------------------------------------------------------
(***************************************************************************)
(* The invariant holds.                                                    *)
(***************************************************************************)

LEMMA InitIInv ==
    ASSUME InodeConstants, Init
    PROVE  IInv
  <1>1. Types
    BY DEF Init, Types
  <1>2. CallsOK
    <2>1. CallTypes
      BY DEF Init, CallTypes, Labels
    <2>2. \A p \in Procs : CallOK(p)
      BY DEF Init, CallOK, Calling, Putting
    <2> QED BY <2>1, <2>2 DEF CallsOK
  <1>3. RootOK /\ LockOK
    BY NoneIsNot DEF Init, RootOK, Rooted, InRoot, LockOK, Locked
  <1>4. RefsOK
    <2>1. \A e \in Entries : Pointers(e) = {}
      BY NoneIsNot DEF Init, Pointers
    <2> QED BY <2>1, FS_EmptySet DEF Init, RefsOK
  <1>5. UniqueOK /\ CacheOK
    BY DEF Init, UniqueOK, CacheOK
  <1>6. \A i \in Inums : ~Live(i) /\ ~Making(i)
    BY NoneIsNot DEF Init, Live, Named, Reaches, Making
  <1>7. AllocOK /\ FreshOK /\ LinksOK
    BY <1>6 DEF Init, AllocOK, FreshOK, LinksOK
  <1>8. FreeingOK
    BY DEF Init, FreeingOK
  <1> QED BY <1>1, <1>2, <1>3, <1>4, <1>5, <1>7, <1>8 DEF IInv

\* A step that changes nothing the invariant speaks of.
LEMMA Stutters ==
    ASSUME IInv, UNCHANGED <<dtype, dnlink, dir, rootlock, inum, ref, valid, nlink, lock>>,
           UNCHANGED <<at, ip, put, then, new, opened>>
    PROVE  IInv'
  <1>1. Types' /\ CallsOK' /\ RootOK' /\ LockOK' /\ UniqueOK'
    BY DEF IInv, Types, CallsOK, CallTypes, CallOK, RootOK, Rooted, LockOK, Locked, UniqueOK
  <1>2. \A i \in Inums : Live(i)' = Live(i) /\ Making(i)' = Making(i)
    BY DEF Live, Named, Reaches, Making
  <1>3. AllocOK' /\ FreshOK'
    BY <1>2 DEF IInv, AllocOK, FreshOK
  <1>4. FreeingOK'
    BY DEF IInv, FreeingOK, MayFree, Live, Named, Reaches
  <1>5. RefsOK'
    BY DEF IInv, RefsOK, Pointers
  <1>6. LinksOK'
    BY DEF IInv, LinksOK, NamesOf, Counting
  <1>7. CacheOK'
    BY DEF IInv, CacheOK, Freeing
  <1> QED BY <1>1, <1>3, <1>4, <1>5, <1>6, <1>7 DEF IInv

LEMMA StepDirPut ==
    ASSUME IInv, NEW p \in Procs, DirPut(p)
    PROVE  IInv'
  BY Stutters DEF DirPut, disk, cache

LEMMA StepIInv ==
    ASSUME InodeConstants, IInv, ReadOK, [Next]_vars
    PROVE  IInv'
  <1>1. CASE UNCHANGED vars
    BY <1>1, Stutters DEF vars, disk, cache
  <1>2. CASE Next
    <2>1. PICK p \in Procs : Step(p)
      BY <1>2 DEF Next
    <2>2. CASE \E n \in Names : Open(p, n)
      BY <2>2, StepOpen
    <2>3. CASE \E n \in Names : Create(p, n)
      BY <2>3, StepCreate
    <2>4. CASE \E n \in Names : Unlink(p, n)
      BY <2>4, StepUnlink
    <2>5. CASE \E n, m \in Names : Link(p, n, m)
      BY <2>5, StepLink
    <2>6. CASE OpenIlock(p)
      BY <2>6, StepOpenIlock
    <2>7. CASE OpenDone(p)
      BY <2>7, StepOpenDone
    <2>8. CASE IallocIget(p)
      BY <2>8, StepIallocIget
    <2>9. CASE CreateLink(p)
      BY <2>9, StepCreateLink
    <2>10. CASE Close(p)
      BY <2>10, StepClose
    <2>11. CASE UnlinkName(p)
      BY <2>11, StepUnlinkName
    <2>12. CASE LinkCount(p)
      <3>1. at[p] = "link" \/ at[p] = "link_bad"
        BY <2>12 DEF LinkCount
      <3> QED BY <2>12, <3>1, StepLinkUp, StepLinkDown
    <2>13. CASE LinkDir(p)
      BY <2>13, StepLinkNew, StepLinkBad
    <2>14. CASE Iput(p)
      BY <2>14, StepIput
    <2>15. CASE Itrunc(p)
      BY <2>15, StepItrunc
    <2>16. CASE IputUnlock(p)
      BY <2>16, StepIputUnlock
    <2>17. CASE IputRef(p)
      BY <2>17, StepIputRef
    <2>18. CASE UnlinkCount(p)
      BY <2>18, StepUnlinkCount
    <2>19. CASE DirPut(p)
      BY <2>19, StepDirPut
    <2> QED
      BY <2>1, <2>2, <2>3, <2>4, <2>5, <2>6, <2>7, <2>8, <2>9, <2>10, <2>11, <2>12, <2>13,
         <2>14, <2>15, <2>16, <2>17, <2>18, <2>19, Zenon DEF Step
  <1> QED BY <1>1, <1>2

\* What an unlink has read stays in the cache: its entry is in use and locked.
LEMMA StepReadOK ==
    ASSUME InodeConstants, IInv, ReadOK, [Next]_vars
    PROVE  ReadOK'
  <1> SUFFICES ASSUME NEW q \in Procs, at'[q] = "unlink_count" PROVE valid'[ip'[q]]
    BY DEF ReadOK
  <1>0. at[q] = "unlink_count" =>
           /\ ip[q] \in Entries /\ ref[ip[q]] > 0 /\ lock[ip[q]] = q /\ valid[ip[q]]
    BY IpIs DEF Calling, ReadOK, IInv, LockOK, Locked
  <1>1. ASSUME at[q] = "unlink_count", ip'[q] = ip[q], NEW i \in Inums, Iget(i)
        PROVE  valid'[ip'[q]]
    BY <1>0, <1>1, IgetIs
  <1>2. CASE UNCHANGED vars
    BY <1>0, <1>2 DEF vars, cache
  <1>3. CASE Next
    <2>1. PICK p \in Procs : Step(p)
      BY <1>3 DEF Next
    <2>2. ASSUME NEW n \in Names, Open(p, n) PROVE valid'[ip'[q]]
      <3>1. dir[n] \in Inums /\ Iget(dir[n])
        BY <2>2, NamedIs DEF Open
      <3>2. at[q] = "unlink_count" /\ ip'[q] = ip[q]
        BY <2>2, Typed DEF Open, GoDirPut, Goto, Set
      <3> QED BY <1>1, <3>1, <3>2
    <2>3. ASSUME NEW n \in Names, Create(p, n) PROVE valid'[ip'[q]]
      BY <1>0, <2>3, Typed DEF Create, Goto, Set, cache
    <2>4. ASSUME NEW n \in Names, Unlink(p, n) PROVE valid'[ip'[q]]
      <3>1. dir[n] \in Inums /\ Iget(dir[n])
        BY <2>4, NamedIs DEF Unlink
      <3>2. at[q] = "unlink_count" /\ ip'[q] = ip[q]
        BY <2>4, Typed DEF Unlink, Goto, Set
      <3> QED BY <1>1, <3>1, <3>2
    <2>5. ASSUME NEW n \in Names, NEW m \in Names, Link(p, n, m) PROVE valid'[ip'[q]]
      <3>1. dir[n] \in Inums /\ Iget(dir[n])
        BY <2>5, NamedIs DEF Link
      <3>2. at[q] = "unlink_count" /\ ip'[q] = ip[q]
        BY <2>5, Typed DEF Link, GoDirPut, Goto, Set
      <3> QED BY <1>1, <3>1, <3>2
    <2>6. CASE IallocIget(p)
      <3>1. at[p] = "ialloc" /\ Iget(new[p].inum)
        BY <2>6 DEF IallocIget
      <3>2. new[p].inum \in Inums
        BY <3>1, Typed DEF IInv, CallsOK, CallOK
      <3>3. at[q] = "unlink_count" /\ ip'[q] = ip[q]
        BY <2>6, Typed DEF IallocIget, Goto, Set
      <3> QED BY <1>1, <3>1, <3>2, <3>3
    <2>7. CASE LinkDir(p)
      <3>1. at[p] = "link_dir"
        BY <2>7 DEF LinkDir
      <3>2. q # p /\ at[q] = "unlink_count" /\ ip'[q] = ip[q]
        BY <2>7, <3>1, Typed DEF LinkDir, GoPut, Goto, Set
      <3>3. CASE dir[new[p].name] = None
        BY <1>0, <2>7, <3>2, <3>3 DEF LinkDir, cache
      <3>4. CASE dir[new[p].name] # None
        <4>1. new[p].name \in Names
          BY <3>1, Typed DEF IInv, CallsOK, CallOK
        <4>2. dir[new[p].name] \in Inums /\ Iget(dir[new[p].name])
          BY <2>7, <3>4, <4>1, NamedIs DEF LinkDir
        <4> QED BY <1>1, <3>2, <4>2
      <3> QED BY <3>3, <3>4
    <2>8. CASE OpenIlock(p)
      <3>1. at[q] = "unlink_count" /\ ip'[q] = ip[q]
        BY <2>8, Typed DEF OpenIlock, Goto, Set
      <3> QED BY <1>0, <2>8, <3>1, Typed DEF OpenIlock, Set
    <2>9. CASE CreateLink(p)
      <3>1. at[q] = "unlink_count" /\ ip'[q] = ip[q]
        BY <2>9, Typed DEF CreateLink, GoDirPut, Goto, Set
      <3>2. valid' = valid \/ valid' = [valid EXCEPT ![ip[p]] = TRUE]
        BY <2>9 DEF CreateLink, SetLinks, Set, cache
      <3> QED BY <1>0, <3>1, <3>2, Typed
    <2>10. CASE UnlinkName(p)
      <3>1. at[p] = "unlink" /\ ip' = ip
        BY <2>10 DEF UnlinkName
      <3>2. ip[p] \in Entries
        BY <3>1, IpIs DEF Calling
      <3>3. CASE q = p
        <4>1. valid' = [valid EXCEPT ![ip[p]] = TRUE]
          BY <2>10, <3>3, Typed DEF UnlinkName, SetLinks, Goto, Set
        <4> QED BY <3>1, <3>2, <3>3, <4>1, Typed
      <3>4. CASE q # p
        <4>1. at[q] = "unlink_count"
          BY <2>10, <3>4, Typed DEF UnlinkName, GoDirPut, Goto, Set
        <4>2. valid' = valid \/ valid' = [valid EXCEPT ![ip[p]] = TRUE]
          BY <2>10 DEF UnlinkName, SetLinks, Set, cache
        <4> QED BY <1>0, <3>1, <4>1, <4>2, Typed
      <3> QED BY <3>3, <3>4
    <2>11. CASE UnlinkCount(p)
      <3>1. at[p] = "unlink_count" /\ q # p /\ at[q] = "unlink_count" /\ ip'[q] = ip[q]
        BY <2>11, Typed DEF UnlinkCount, GoPut, Goto, Set
      <3>2. valid' = [valid EXCEPT ![ip[p]] = TRUE]
        BY <2>11 DEF UnlinkCount, SetLinks, Set
      <3> QED BY <1>0, <3>1, <3>2, Typed
    <2>12. CASE LinkCount(p)
      <3>1. q # p /\ at[q] = "unlink_count" /\ ip'[q] = ip[q]
        BY <2>12, Typed DEF LinkCount, GoPut, Goto, Set
      <3>2. valid' = valid \/ valid' = [valid EXCEPT ![ip[p]] = TRUE]
        BY <2>12 DEF LinkCount, SetLinks, Set, cache
      <3> QED BY <1>0, <3>1, <3>2, Typed
    <2>13. CASE IputUnlock(p)
      <3>1. q # p /\ at[p] = "iput_free" /\ at[q] = "unlink_count" /\ ip'[q] = ip[q]
        BY <2>13, Typed DEF IputUnlock, Goto, Set
      <3>2. put[p] \in Entries /\ lock[put[p]] = p
        BY <3>1, PutIs DEF Putting, IInv, LockOK, Locked
      <3>3. valid' = [valid EXCEPT ![put[p]] = FALSE]
        BY <2>13 DEF IputUnlock, Freed, Set
      <3> QED BY <1>0, <3>1, <3>2, <3>3, Typed
    <2>14. CASE OpenDone(p) \/ Close(p) \/ Iput(p) \/ Itrunc(p) \/ DirPut(p)
      <3>1. at[q] = "unlink_count" /\ ip'[q] = ip[q]
        BY <2>14, Typed DEF OpenDone, Close, Iput, Itrunc, DirPut, GoPut, Goto, Set
      <3>2. valid' = valid
        BY <2>14 DEF OpenDone, Close, Iput, Itrunc, DirPut, cache
      <3> QED BY <1>0, <3>1, <3>2
    <2>15. CASE IputRef(p)
      <3>1. at'[p] # "unlink_count"
        BY <2>15, Typed DEF IputRef, GoDirPut, Goto, Set
      <3>2. at[q] = "unlink_count" /\ ip'[q] = ip[q]
        BY <2>15, <3>1, Typed DEF IputRef, GoDirPut, Goto, Set
      <3>3. valid' = valid
        BY <2>15 DEF IputRef
      <3> QED BY <1>0, <3>2, <3>3
    <2> QED
      BY <2>1, <2>2, <2>3, <2>4, <2>5, <2>6, <2>7, <2>8, <2>9, <2>10, <2>11, <2>12, <2>13,
         <2>14, <2>15, Zenon DEF Step
  <1> QED BY <1>2, <1>3

\* Before the iput of the directory its lock has been given up.
LEMMA StepDputOK ==
    ASSUME InodeConstants, IInv, DputOK, [Next]_vars
    PROVE  DputOK'
  <1>1. CASE UNCHANGED vars
    BY <1>1 DEF vars, DputOK
  <1>2. CASE Next
    <2>1. PICK p \in Procs : Step(p)
      BY <1>2 DEF Next
    <2>2. ASSUME p \notin dput, \A q \in Procs : q # p => at'[q] = at[q] /\ then'[q] = then[q],
                 dput' = dput \/ (dput' = dput \cup {p} /\ at'[p] \in Halted /\ then'[p] = "user")
          PROVE  DputOK'
      BY <2>2 DEF DputOK
    <2>3. ASSUME NEW n \in Names, Open(p, n) PROVE DputOK'
      <3>1. at'[p] = "open" /\ then'[p] = "user" /\ dput' = dput \cup {p} /\ p \notin dput
        BY <2>3, AtUser, Typed DEF Open, GoDirPut, Goto, Set
      <3>2. \A q \in Procs : q # p => at'[q] = at[q] /\ then'[q] = then[q]
        BY <2>3, Typed DEF Open, GoDirPut, Goto, Set
      <3> QED BY <2>2, <3>1, <3>2 DEF Halted
    <2>4. ASSUME NEW n \in Names, NEW m \in Names, Link(p, n, m) PROVE DputOK'
      <3>1. at'[p] = "link" /\ then'[p] = "user" /\ dput' = dput \cup {p} /\ p \notin dput
        BY <2>4, AtUser, Typed DEF Link, GoDirPut, Goto, Set
      <3>2. \A q \in Procs : q # p => at'[q] = at[q] /\ then'[q] = then[q]
        BY <2>4, Typed DEF Link, GoDirPut, Goto, Set
      <3> QED BY <2>2, <3>1, <3>2 DEF Halted
    <2>5. CASE (\E n \in Names : Create(p, n) \/ Unlink(p, n)) \/ OpenIlock(p) \/ OpenDone(p)
               \/ IallocIget(p) \/ Close(p)
      <3>1. p \notin dput /\ dput' = dput
        BY <2>5 DEF Create, Unlink, OpenIlock, OpenDone, IallocIget, Close
      <3>2. \A q \in Procs : q # p => at'[q] = at[q] /\ then'[q] = then[q]
        BY <2>5, Typed DEF Create, Unlink, OpenIlock, OpenDone, IallocIget, Close, GoPut, Goto, Set
      <3> QED BY <2>2, <3>1, <3>2
    <2>6. CASE UnlinkCount(p) \/ LinkCount(p) \/ Iput(p) \/ Itrunc(p) \/ IputUnlock(p)
      <3>1. p \notin dput /\ dput' = dput
        BY <2>6 DEF UnlinkCount, LinkCount, Iput, Itrunc, IputUnlock
      <3>2. \A q \in Procs : q # p => at'[q] = at[q] /\ then'[q] = then[q]
        BY <2>6, Typed DEF UnlinkCount, LinkCount, Iput, Itrunc, IputUnlock, GoPut, Goto, Set
      <3> QED BY <2>2, <3>1, <3>2
    <2>7. CASE CreateLink(p) \/ UnlinkName(p)
      <3>1. at[p] \in Calling /\ p \notin dput /\ then' = then
        BY <2>7 DEF CreateLink, UnlinkName, Calling
      <3>2. then[p] = "user"
        BY <3>1, IpIs
      <3>3. dput' = dput \/ (dput' = dput \cup {p} /\ at'[p] \in Halted)
        BY <2>7, Typed DEF CreateLink, UnlinkName, GoDirPut, Goto, Set, Halted
      <3>4. \A q \in Procs : q # p => at'[q] = at[q]
        BY <2>7, Typed DEF CreateLink, UnlinkName, GoDirPut, Goto, Set
      <3> QED BY <2>2, <3>1, <3>2, <3>3, <3>4
    <2>8. CASE LinkDir(p)
      <3>1. p \notin dput /\ \A q \in Procs : q # p => at'[q] = at[q] /\ then'[q] = then[q]
        BY <2>8, Typed DEF LinkDir, GoPut, Goto, Set
      <3>2. dput' = dput \/ (dput' = dput \cup {p} /\ at'[p] \in Halted /\ then'[p] = "user")
        BY <2>8, Typed DEF LinkDir, GoPut, Goto, Set, Halted
      <3> QED BY <2>2, <3>1, <3>2
    <2>9. CASE IputRef(p)
      <3>1. p \notin dput /\ \A q \in Procs : q # p => at'[q] = at[q] /\ then'[q] = then[q]
        BY <2>9, Typed DEF IputRef, GoDirPut, Goto, Set
      <3>2. at[p] = "iput_ref" /\ at'[p] = then[p] /\ then'[p] = "user"
        BY <2>9, Typed DEF IputRef, GoDirPut, Goto, Set
      <3>3. rootlock = p => then[p] = "link_bad"
        BY <3>2 DEF IInv, RootOK, Rooted, InRoot
      <3>4. dput' = dput \/ (dput' = dput \cup {p} /\ rootlock = p)
        BY <2>9 DEF IputRef, GoDirPut
      <3>5. "link_bad" \in Halted
        BY DEF Halted
      <3> QED BY <2>2, <3>1, <3>2, <3>3, <3>4, <3>5
    <2>10. CASE DirPut(p)
      BY <2>10 DEF DirPut, DputOK
    <2> QED
      BY <2>1, <2>3, <2>4, <2>5, <2>6, <2>7, <2>8, <2>9, <2>10, Zenon DEF Step
  <1> QED BY <1>1, <1>2

\* The three parts together.
Inv == IInv /\ ReadOK /\ DputOK

LEMMA InitInv ==
    ASSUME InodeConstants, Init
    PROVE  Inv
  <1>1. ReadOK /\ DputOK
    BY DEF Init, ReadOK, DputOK
  <1> QED BY <1>1, InitIInv DEF Inv

LEMMA StepInv ==
    ASSUME InodeConstants, Inv, [Next]_vars
    PROVE  Inv'
  BY StepIInv, StepReadOK, StepDputOK DEF Inv

-----------------------------------------------------------------------------
(***************************************************************************)
(* The theorems.                                                           *)
(***************************************************************************)

LEMMA ReferencedHolds ==
    ASSUME InodeConstants, IInv
    PROVE  ReferencedIsAllocated
  <1>1. \A e \in Entries : ref[e] = Cardinality(Pointers(e))
    BY DEF IInv, RefsOK
  <1>2. ASSUME NEW i \in Inums PROVE Cardinality(InUse(i)) <= 1
    <2>1. CASE InUse(i) = {}
      BY <2>1, FS_EmptySet
    <2>2. CASE InUse(i) # {}
      <3>1. PICK e \in InUse(i) : TRUE
        BY <2>2
      <3>2. \A f \in InUse(i) : f = e
        BY <3>1 DEF InUse, IInv, UniqueOK
      <3>3. InUse(i) = {e}
        BY <3>1, <3>2
      <3>4. Cardinality({e}) = 1
        BY FS_Singleton
      <3> QED BY <3>3, <3>4
    <2> QED BY <2>1, <2>2
  <1>3. \A n \in Names : dir[n] # None => dtype[dir[n]]
    BY NamedIs DEF IInv, AllocOK, Live
  <1>4. ASSUME NEW p \in Procs, opened[p] # None PROVE dtype[inum[opened[p]]]
    <2>1. Live(inum[opened[p]])
      BY <1>4 DEF Live, Reaches
    <2> QED BY <1>4, <2>1, InUseIs DEF IInv, AllocOK
  <1>5. \A p \in Procs : at[p] # "panic"
    BY Typed DEF Labels, Calling, Putting
  <1> QED BY <1>1, <1>2, <1>3, <1>4, <1>5 DEF ReferencedIsAllocated

LEMMA LinksHold ==
    ASSUME InodeConstants, IInv
    PROVE  LinksExact
  <1>1. ASSUME NEW e \in Entries, ref[e] > 0, valid[e], lock[e] = None
        PROVE  dtype[inum[e]] /\ nlink[e] = dnlink[inum[e]]
    <2>1. ~Freeing(e)
      BY <1>1, NoneIsNot DEF IInv, LockOK, Locked, Freeing
    <2> QED BY <1>1, <2>1 DEF IInv, CacheOK
  <1>2. \A i \in Inums : dtype[i] =>
           dnlink[i] = Cardinality({n \in Names : dir[n] = i}) + Cardinality(Counting(i))
    BY DEF IInv, LinksOK, NamesOf
  <1> QED BY <1>1, <1>2 DEF LinksExact

\* The holder of an inode's lock needs none, unless it still has to put the
\* directory; the holder of the directory's lock needs at most an inode's.
LEMMA LocksHold ==
    ASSUME InodeConstants, Inv
    PROVE  LocksEnd
  <1> SUFFICES ASSUME ~Circle, NEW p \in Procs, Needs(p) # None
               PROVE  LET h1 == Needs(p)  h2 == Needs(h1)  h3 == Needs(h2)
                      IN  \/ Releases(h1)
                          \/ h2 # None /\ (Releases(h2) \/ (h3 # None /\ Releases(h3)))
    BY DEF LocksEnd
  <1>0. IInv /\ DputOK
    BY DEF Inv
  <1>1. ASSUME NEW e \in Entries, lock[e] # None
        PROVE  /\ lock[e] \in Procs /\ at[lock[e]] # "user"
               /\ lock[e] \notin dput => Releases(lock[e])
    <2>1. PICK h \in Procs : h = lock[e]
      BY <1>0, <1>1, Typed
    <2>2. at[h] \in {"open_locked", "unlink_count", "itrunc", "iput_free"}
      BY <1>0, <2>1 DEF IInv, LockOK, Locked
    <2>3. h \notin dput => Releases(h)
      BY <2>2 DEF Releases, Needs
    <2> QED BY <2>1, <2>2, <2>3
  <1>2. ASSUME NEW q \in Procs, q \notin dput, at[q] # "link_dir", Needs(q) # None
        PROVE  \E e \in Entries : Needs(q) = lock[e]
    <2>1. CASE at[q] \in {"open", "create", "unlink", "link", "link_bad"}
      <3>1. Needs(q) = lock[ip[q]]
        BY <1>2, <2>1 DEF Needs
      <3>2. ip[q] \in Entries
        BY <1>0, <2>1, IpIs DEF Calling
      <3> QED BY <3>1, <3>2
    <2>2. CASE at[q] = "iput"
      <3>1. Needs(q) = lock[put[q]]
        BY <1>2, <2>2 DEF Needs
      <3>2. put[q] \in Entries
        BY <1>0, <2>2, PutIs DEF Putting
      <3> QED BY <3>1, <3>2
    <2>3. CASE at[q] \notin {"open", "create", "unlink", "link", "link_bad", "iput"}
      <3>1. Needs(q) = None
        BY <1>2, <2>3 DEF Needs
      <3> QED BY <1>2, <3>1
    <2> QED BY <2>1, <2>2, <2>3
  <1>3. ASSUME rootlock # None
        PROVE  Releases(rootlock) \/ (Needs(rootlock) # None /\ Releases(Needs(rootlock)))
    <2>1. PICK h \in Procs : h = rootlock /\ Rooted(h)
      BY <1>0, <1>3, Typed DEF IInv, RootOK
    <2>2. at[h] # "user" /\ at[h] # "link_dir"
      BY <1>0, <2>1 DEF Rooted, InRoot, IInv, CallsOK, CallOK, Putting
    <2>3. h \notin dput
      BY <1>0, <2>1 DEF DputOK, Halted, Rooted, InRoot
    <2>4. CASE Needs(h) = None
      BY <2>1, <2>2, <2>4 DEF Releases
    <2>5. CASE Needs(h) # None
      <3>1. PICK e \in Entries : Needs(h) = lock[e]
        BY <1>2, <2>2, <2>3, <2>5
      <3>2. lock[e] \in Procs /\ (lock[e] \notin dput => Releases(lock[e]))
        BY <1>1, <2>5, <3>1
      <3>3. lock[e] \notin dput
        BY <2>1, <3>1, <3>2 DEF Circle
      <3> QED BY <2>1, <2>5, <3>1, <3>2, <3>3
    <2> QED BY <2>4, <2>5
  <1>4. CASE p \in dput \/ at[p] = "link_dir"
    <2>1. Needs(p) = rootlock
      BY <1>4 DEF Needs
    <2> QED BY <1>3, <2>1
  <1>5. CASE p \notin dput /\ at[p] # "link_dir"
    <2>1. PICK e \in Entries : Needs(p) = lock[e]
      BY <1>2, <1>5
    <2>2. PICK h \in Procs : h = lock[e] /\ at[h] # "user" /\ (h \notin dput => Releases(h))
      BY <1>1, <2>1
    <2>3. CASE h \notin dput
      BY <2>1, <2>2, <2>3
    <2>4. CASE h \in dput
      <3>1. Needs(h) = rootlock
        BY <2>4 DEF Needs
      <3>2. CASE rootlock = None
        BY <2>1, <2>2, <3>1, <3>2 DEF Releases
      <3>3. CASE rootlock # None
        BY <1>3, <2>1, <2>2, <3>1, <3>3
      <3> QED BY <3>2, <3>3
    <2> QED BY <2>3, <2>4
  <1> QED BY <1>4, <1>5

\* The disk, the cache and the calls keep their types.
THEOREM InodesTypes == InodeConstants => (Spec => []TypeOK)
  <1> SUFFICES ASSUME InodeConstants PROVE Spec => []TypeOK
    OBVIOUS
  <1>1. Init => Inv
    BY InitInv
  <1>2. Inv /\ [Next]_vars => Inv'
    BY StepInv
  <1>3. Inv => TypeOK
    BY DEF Inv, IInv, DputOK, Types, TypeOK
  <1> QED BY <1>1, <1>2, <1>3, PTL DEF Spec

\* What is referred to is allocated: reference counts are exact, an inode has
\* one entry, and no name, open file or call meets an inode that iput has
\* freed, although iput decides, frees and drops its reference in three steps
\* and ialloc may hand the number out again between them.
THEOREM InodesReferencedIsAllocated == InodeConstants => (Spec => []ReferencedIsAllocated)
  <1> SUFFICES ASSUME InodeConstants PROVE Spec => []ReferencedIsAllocated
    OBVIOUS
  <1>1. Init => Inv
    BY InitInv
  <1>2. Inv /\ [Next]_vars => Inv'
    BY StepInv
  <1>3. Inv => ReferencedIsAllocated
    BY ReferencedHolds DEF Inv
  <1> QED BY <1>1, <1>2, <1>3, PTL DEF Spec

\* The link count on disk is the number of names, plus the links and unlinks
\* between the count and the name, and what ilock and iput read in the cache of
\* an inode that nobody has locked is it.
THEOREM InodesLinksExact == InodeConstants => (Spec => []LinksExact)
  <1> SUFFICES ASSUME InodeConstants PROVE Spec => []LinksExact
    OBVIOUS
  <1>1. Init => Inv
    BY InitInv
  <1>2. Inv /\ [Next]_vars => Inv'
    BY StepInv
  <1>3. Inv => LinksExact
    BY LinksHold DEF Inv
  <1> QED BY <1>1, <1>2, <1>3, PTL DEF Spec

\* There is one circle of sleep locks: unless a process that holds a file and has
\* to put the directory meets one that holds the directory and needs the file,
\* a chain of processes that wait has at most three links and ends at one that
\* can go on.
THEOREM InodesLocksEnd == InodeConstants => (Spec => []LocksEnd)
  <1> SUFFICES ASSUME InodeConstants PROVE Spec => []LocksEnd
    OBVIOUS
  <1>1. Init => Inv
    BY InitInv
  <1>2. Inv /\ [Next]_vars => Inv'
    BY StepInv
  <1>3. Inv => LocksEnd
    BY LocksHold
  <1> QED BY <1>1, <1>2, <1>3, PTL DEF Spec
=============================================================================
