----------------------------- MODULE FilesProofs ----------------------------
(***************************************************************************)
(* Proofs about Files for any number of processes, files, descriptors and  *)
(* pages and any size of the ring: exact reference counts, the life of a   *)
(* pipe, complete wakeups, and the refinement of ByteStream.               *)
(***************************************************************************)
EXTENDS Files, FiniteSetTheorems, SequenceTheorems, WellFoundedInduction, TLAPS

-----------------------------------------------------------------------------
(***************************************************************************)
(* The inductive invariant.                                                *)
(***************************************************************************)

Kinds    == {"NONE", "PIPE", "INODE"}
FileRecs == [type : Kinds, writable : BOOLEAN, page : Pages \cup {None}]

Reading == {"piperead", "rsleep"}
Writing == {"pipewrite", "wsleep"}

\* Labels at which a process has no file in a variable, and labels at which
\* the files in its variables are new from filealloc.
Quiet == {"user", "dead", "embryo", "fork", "open"} \cup Reading \cup Writing
Fresh == {"pipealloc", "open_bad"}

\* What a call in progress has in its variables.
CallsOK ==
    /\ ff \in [Procs -> FileRecs]
    /\ \A p \in Procs :
        /\ ff[p].type = "NONE" => ff[p] = NoFile
        /\ Len(held[p]) <= 2
        /\ pc[p] \in Quiet \cup {"exiting"} => held[p] = <<>>
        /\ pc[p] \in Quiet \cup Fresh => ff[p] = NoFile
        /\ pc[p] = "open_bad" => Len(held[p]) = 1
        /\ on[p] # None <=> pc[p] \in Reading \cup Writing

\* A fork has a child of its own, which does not run yet.
ForksOK ==
    \A p \in Procs : pc[p] = "fork" =>
        /\ child[p] \in Procs /\ pc[child[p]] = "embryo"
        /\ \A q \in Procs : pc[q] = "fork" /\ child[q] = child[p] => q = p

\* Nobody else can reach the i-th file in the variables of p.
Sole(p, i) ==
    /\ \A q \in Procs, fd \in Fds : ofile[q][fd] # held[p][i]
    /\ \A q \in Procs : \A j \in 1 .. Len(held[q]) : held[q][j] = held[p][i] => q = p /\ j = i

\* A new file has no type yet and one holder.
FreshOK ==
    \A p \in Procs : pc[p] \in Fresh =>
        \A i \in 1 .. Len(held[p]) : type[held[p][i]] = "NONE" /\ Sole(p, i)

\* A free file has no type, a file with a descriptor has one.
KindsOK ==
    /\ \A f \in FileIds : ref[f] = 0 => type[f] = "NONE"
    /\ \A p \in Procs, fd \in Fds : ofile[p][fd] # None => type[ofile[p][fd]] # "NONE"

\* The files and the calls of fileclose that stand for an end of g.
ReadEnd(f, g)    == type[f] = "PIPE" /\ page[f] = g /\ ~writable[f]
WriteEnd(f, g)   == type[f] = "PIPE" /\ page[f] = g /\ writable[f]
ReadClose(p, g)  == ff[p].type = "PIPE" /\ ff[p].page = g /\ ~ff[p].writable
WriteClose(p, g) == ff[p].type = "PIPE" /\ ff[p].page = g /\ ff[p].writable

\* An end that is open has one of them, an end that is closed none.
ReadersOK ==
    \A g \in Pages :
        /\ readopen[g] <=> (\E f \in FileIds : ReadEnd(f, g)) \/ (\E p \in Procs : ReadClose(p, g))
        /\ \A a, b \in FileIds : ReadEnd(a, g) /\ ReadEnd(b, g) => a = b
        /\ \A p, q \in Procs : ReadClose(p, g) /\ ReadClose(q, g) => p = q
        /\ \A f \in FileIds, p \in Procs : ~(ReadEnd(f, g) /\ ReadClose(p, g))

WritersOK ==
    \A g \in Pages :
        /\ writeopen[g] <=> (\E f \in FileIds : WriteEnd(f, g)) \/ (\E p \in Procs : WriteClose(p, g))
        /\ \A a, b \in FileIds : WriteEnd(a, g) /\ WriteEnd(b, g) => a = b
        /\ \A p, q \in Procs : WriteClose(p, g) /\ WriteClose(q, g) => p = q
        /\ \A f \in FileIds, p \in Procs : ~(WriteEnd(f, g) /\ WriteClose(p, g))

PagesOK ==
    /\ \A f \in FileIds : type[f] = "PIPE" => page[f] \in Pages
    /\ \A p \in Procs : ff[p].type = "PIPE" => ff[p].page \in Pages
    /\ \A g \in Pages : g \in pages <=> readopen[g] \/ writeopen[g]

\* Whoever reads or writes has the end open in a descriptor of its own.
OnOK ==
    \A p \in Procs :
        /\ pc[p] \in Reading => \E fd \in Fds : ofile[p][fd] # None /\ ReadEnd(ofile[p][fd], on[p])
        /\ pc[p] \in Writing => \E fd \in Fds : ofile[p][fd] # None /\ WriteEnd(ofile[p][fd], on[p])

RingOK ==
    \A g \in Pages : Count(g) <= PIPESIZE /\ (g \notin pages => nread[g] = 0 /\ nwrite[g] = 0)

\* The two halves of RefsExact.
RefsOK == \A f \in FileIds : ref[f] = Cardinality(Descriptors(f)) + Cardinality(Locals(f))

Inodes  == {f \in FileIds : type[f] = "INODE"}
Openers == {p \in Procs : pc[p] \in {"open", "open_bad"}}

InodesOK == iref = Cardinality(Inodes) + Cardinality(HalfClosed("INODE")) + Cardinality(Openers)

IInv ==
    /\ TypeOK /\ CallsOK /\ ForksOK
    /\ RefsOK /\ InodesOK /\ FreshOK /\ KindsOK
    /\ ReadersOK /\ WritersOK /\ PagesOK
    /\ OnOK /\ RingOK

-----------------------------------------------------------------------------
(***************************************************************************)
(* Lemmas about numbers and finite sets.                                   *)
(***************************************************************************)

\* The first free slot of a table.
LEMMA FirstIn ==
    ASSUME NEW S \in SUBSET Nat, S # {}
    PROVE  First(S) \in S
  <1>1. IsWellFoundedOn(OpToRel(<, Nat), Nat)
    BY NatLessThanWellFounded
  <1>2. PICK x \in S : \A y \in S : ~(<<y, x>> \in OpToRel(<, Nat))
    BY <1>1, WFMin
  <1>3. \A y \in S : ~(y < x)
    BY <1>2 DEF OpToRel
  <1>4. \A y \in S : x <= y
    BY <1>3
  <1> QED BY <1>4 DEF First

LEMMA ModRange == ASSUME NEW a \in Int, NEW b \in Nat \ {0} PROVE a % b \in 0 .. b - 1
  OBVIOUS

LEMMA ModUnique ==
    ASSUME NEW a \in Int, NEW b \in Nat \ {0}, NEW q \in Int, NEW r \in 0 .. b - 1, a = b * q + r
    PROVE  a % b = r
  OBVIOUS

LEMMA DivMod ==
    ASSUME NEW a \in Int, NEW b \in Nat \ {0}
    PROVE  a \div b \in Int /\ a = b * (a \div b) + (a % b)
  <1>1. a \div b \in Int /\ a % b \in Int
    OBVIOUS
  <1> QED BY <1>1, Z3

LEMMA CardAdd ==
    ASSUME NEW S, IsFiniteSet(S), NEW x, x \notin S
    PROVE  IsFiniteSet(S \cup {x}) /\ Cardinality(S \cup {x}) = Cardinality(S) + 1
  BY FS_AddElement

LEMMA CardDrop ==
    ASSUME NEW S, IsFiniteSet(S), NEW x \in S
    PROVE  /\ IsFiniteSet(S \ {x}) /\ Cardinality(S) \in Nat /\ Cardinality(S) >= 1
           /\ Cardinality(S \ {x}) = Cardinality(S) - 1
  <1>1. Cardinality(S) \in Nat /\ Cardinality(S \ {x}) \in Nat
    BY FS_CardinalityType, FS_RemoveElement
  <1>2. Cardinality(S \ {x}) = Cardinality(S) - 1
    BY FS_RemoveElement
  <1> QED BY <1>1, <1>2, FS_RemoveElement

LEMMA CardMove ==
    ASSUME NEW S, IsFiniteSet(S), NEW x \in S, NEW y, y \notin S
    PROVE  Cardinality((S \ {x}) \cup {y}) = Cardinality(S)
  <1>1. IsFiniteSet(S \ {x}) /\ Cardinality(S \ {x}) = Cardinality(S) - 1 /\ Cardinality(S) \in Nat
    BY CardDrop
  <1>2. y \notin S \ {x}
    OBVIOUS
  <1>3. Cardinality((S \ {x}) \cup {y}) = Cardinality(S \ {x}) + 1
    BY <1>1, <1>2, CardAdd
  <1> QED BY <1>1, <1>3

LEMMA CardTwo ==
    ASSUME NEW S, IsFiniteSet(S), NEW x \in S, NEW y \in S, x # y
    PROVE  Cardinality(S) \in Nat /\ Cardinality(S) >= 2
  <1>1. IsFiniteSet(S \ {x}) /\ Cardinality(S \ {x}) = Cardinality(S) - 1 /\ Cardinality(S) \in Nat
    BY CardDrop
  <1>2. Cardinality(S \ {x}) >= 1
    BY <1>1, CardDrop
  <1> QED BY <1>1, <1>2

-----------------------------------------------------------------------------
(***************************************************************************)
(* Lemmas about the holders of files.                                      *)
(***************************************************************************)

LEMMA HoldersFinite ==
    ASSUME NEW f
    PROVE  /\ IsFiniteSet(Descriptors(f)) /\ Cardinality(Descriptors(f)) \in Nat
           /\ IsFiniteSet(Locals(f)) /\ Cardinality(Locals(f)) \in Nat
  <1>1. IsFiniteSet(Fds) /\ IsFiniteSet(1 .. 2)
    <2>1. 0 \in Int /\ 1 \in Int /\ 2 \in Int /\ NOFILE \in Int
      BY FilesAssumption
    <2> QED BY <2>1, FS_Interval DEF Fds
  <1>2. IsFiniteSet(Procs \X Fds) /\ IsFiniteSet(Procs \X (1 .. 2))
    BY <1>1, FS_Product, FilesAssumption
  <1> QED BY <1>2, FS_Subset, FS_CardinalityType DEF Descriptors, Locals

LEMMA InodesFinite ==
    /\ IsFiniteSet(Inodes) /\ Cardinality(Inodes) \in Nat
    /\ IsFiniteSet(Openers) /\ Cardinality(Openers) \in Nat
    /\ IsFiniteSet(HalfClosed("INODE")) /\ Cardinality(HalfClosed("INODE")) \in Nat
  <1>1. IsFiniteSet(FileIds)
    BY FS_Interval, FilesAssumption DEF FileIds
  <1> QED BY <1>1, FS_Subset, FS_CardinalityType, FilesAssumption DEF Inodes, Openers, HalfClosed

\* A file that somebody holds has a reference, and one reference means one
\* holder.
LEMMA Held ==
    ASSUME TypeOK, CallsOK, RefsOK, NEW f \in FileIds
    PROVE  /\ \A p \in Procs, fd \in Fds : ofile[p][fd] = f => ref[f] >= 1
           /\ \A p \in Procs : \A i \in 1 .. Len(held[p]) : held[p][i] = f => ref[f] >= 1
           /\ ref[f] = 1 =>
                /\ \A p, q \in Procs, a, b \in Fds :
                      ofile[p][a] = f /\ ofile[q][b] = f => p = q /\ a = b
                /\ \A p, q \in Procs : \A i \in 1 .. Len(held[p]), j \in 1 .. Len(held[q]) :
                      held[p][i] = f /\ held[q][j] = f => p = q /\ i = j
                /\ \A p, q \in Procs : \A a \in Fds, j \in 1 .. Len(held[q]) :
                      ~(ofile[p][a] = f /\ held[q][j] = f)
  <1>1. \A p \in Procs, fd \in Fds : ofile[p][fd] = f => <<p, fd>> \in Descriptors(f)
    BY DEF Descriptors
  <1>2. \A p \in Procs : \A i \in 1 .. Len(held[p]) : held[p][i] = f => <<p, i>> \in Locals(f)
    <2> SUFFICES ASSUME NEW p \in Procs, NEW i \in 1 .. Len(held[p]), held[p][i] = f
                 PROVE  <<p, i>> \in Locals(f)
      OBVIOUS
    <2>1. Len(held[p]) <= 2 /\ Len(held[p]) \in Nat
      BY DEF CallsOK, TypeOK
    <2>2. i \in 1 .. 2 /\ i <= Len(held[p])
      BY <2>1
    <2> QED BY <2>2 DEF Locals
  <1>3. ref[f] = Cardinality(Descriptors(f)) + Cardinality(Locals(f))
    BY DEF RefsOK
  <1> DEFINE d == Cardinality(Descriptors(f))
             l == Cardinality(Locals(f))
  <1>0. d \in Nat /\ l \in Nat /\ ref[f] = d + l
    BY <1>3, HoldersFinite
  <1>4. \A x \in Descriptors(f) : d >= 1
    BY CardDrop, HoldersFinite
  <1>5. \A x \in Locals(f) : l >= 1
    BY CardDrop, HoldersFinite
  <1>6. \A x, y \in Descriptors(f) : x # y => d >= 2
    BY CardTwo, HoldersFinite
  <1>7. \A x, y \in Locals(f) : x # y => l >= 2
    BY CardTwo, HoldersFinite
  <1> HIDE DEF d, l
  <1>8. ASSUME NEW p \in Procs, NEW a \in Fds, ofile[p][a] = f PROVE d >= 1
    <2>1. <<p, a>> \in Descriptors(f)
      BY <1>1, <1>8
    <2> QED BY <2>1, <1>4
  <1>9. ASSUME NEW p \in Procs, NEW i \in 1 .. Len(held[p]), held[p][i] = f PROVE l >= 1
    <2>1. <<p, i>> \in Locals(f)
      BY <1>2, <1>9
    <2> QED BY <2>1, <1>5
  <1>10. ASSUME ref[f] = 1, NEW p \in Procs, NEW q \in Procs, NEW a \in Fds, NEW b \in Fds,
                ofile[p][a] = f, ofile[q][b] = f
         PROVE  p = q /\ a = b
    <2>1. <<p, a>> \in Descriptors(f) /\ <<q, b>> \in Descriptors(f)
      BY <1>1, <1>10
    <2>2. d < 2
      BY <1>0, <1>10
    <2>3. <<p, a>> = <<q, b>>
      BY <2>1, <2>2, <1>0, <1>6
    <2> QED BY <2>3
  <1>11. ASSUME ref[f] = 1, NEW p \in Procs, NEW q \in Procs,
                NEW i \in 1 .. Len(held[p]), NEW j \in 1 .. Len(held[q]),
                held[p][i] = f, held[q][j] = f
         PROVE  p = q /\ i = j
    <2>1. <<p, i>> \in Locals(f) /\ <<q, j>> \in Locals(f)
      BY <1>2, <1>11
    <2>2. l < 2
      BY <1>0, <1>11
    <2>3. <<p, i>> = <<q, j>>
      BY <2>1, <2>2, <1>0, <1>7
    <2> QED BY <2>3
  <1>12. ASSUME ref[f] = 1, NEW p \in Procs, NEW q \in Procs,
                NEW a \in Fds, NEW j \in 1 .. Len(held[q]), ofile[p][a] = f, held[q][j] = f
         PROVE  FALSE
    BY <1>0, <1>8, <1>9, <1>12
  <1>13. (d >= 1 => ref[f] >= 1) /\ (l >= 1 => ref[f] >= 1)
    BY <1>0
  <1> QED BY <1>8, <1>9, <1>10, <1>11, <1>12, <1>13

\* A free file has no holder.
LEMMA FreeUnheld ==
    ASSUME TypeOK, CallsOK, RefsOK, NEW f \in FileIds, ref[f] = 0
    PROVE  /\ \A p \in Procs, fd \in Fds : ofile[p][fd] # f
           /\ \A p \in Procs : \A i \in 1 .. Len(held[p]) : held[p][i] # f
  BY Held

\* A descriptor is set.
LEMMA Gain ==
    ASSUME TypeOK, NEW p \in Procs, NEW fd \in Fds, NEW v \in FileIds, ofile[p][fd] = None,
           ofile' = [ofile EXCEPT ![p][fd] = v], NEW f \in FileIds
    PROVE  Cardinality(Descriptors(f))' = Cardinality(Descriptors(f)) + (IF f = v THEN 1 ELSE 0)
  <1>1. \A q \in Procs, a \in Fds : ofile'[q][a] = IF q = p /\ a = fd THEN v ELSE ofile[q][a]
    BY DEF TypeOK
  <1>2. f # None
    BY DEF FileIds, None
  <1>3. CASE f = v
    <2>1. Descriptors(f)' = Descriptors(f) \cup {<<p, fd>>}
      BY <1>1, <1>3 DEF Descriptors
    <2>2. <<p, fd>> \notin Descriptors(f)
      BY <1>2 DEF Descriptors
    <2> QED BY <1>3, <2>1, <2>2, CardAdd, HoldersFinite
  <1>4. CASE f # v
    <2>1. Descriptors(f)' = Descriptors(f)
      BY <1>1, <1>2, <1>4 DEF Descriptors
    <2> QED BY <1>4, <2>1, HoldersFinite
  <1> QED BY <1>3, <1>4

\* A descriptor is cleared.
LEMMA Lose ==
    ASSUME TypeOK, NEW p \in Procs, NEW fd \in Fds, ofile[p][fd] # None,
           ofile' = [ofile EXCEPT ![p][fd] = None], NEW f \in FileIds
    PROVE  Cardinality(Descriptors(f))' = Cardinality(Descriptors(f)) - (IF f = ofile[p][fd] THEN 1 ELSE 0)
  <1>1. \A q \in Procs, a \in Fds : ofile'[q][a] = IF q = p /\ a = fd THEN None ELSE ofile[q][a]
    BY DEF TypeOK
  <1>2. f # None
    BY DEF FileIds, None
  <1>3. CASE f = ofile[p][fd]
    <2>1. Descriptors(f)' = Descriptors(f) \ {<<p, fd>>}
      BY <1>1, <1>2, <1>3 DEF Descriptors
    <2>2. <<p, fd>> \in Descriptors(f)
      BY <1>3 DEF Descriptors
    <2> QED BY <1>3, <2>1, <2>2, CardDrop, HoldersFinite
  <1>4. CASE f # ofile[p][fd]
    <2>1. Descriptors(f)' = Descriptors(f)
      BY <1>1, <1>2, <1>4 DEF Descriptors
    <2> QED BY <1>4, <2>1, HoldersFinite
  <1> QED BY <1>3, <1>4

LEMMA OneMore ==
    ASSUME NEW p \in Procs, NEW fd \in Fds, NEW f,
           \A q \in Procs, d \in Fds : ofile'[q][d] = f <=> ofile[q][d] = f \/ (q = p /\ d = fd)
    PROVE  Descriptors(f)' = Descriptors(f) \cup {<<p, fd>>}
  BY DEF Descriptors

\* Two descriptors are set, as in sys_pipe.
LEMMA GainTwo ==
    ASSUME TypeOK, NEW p \in Procs, NEW a \in Fds, NEW b \in Fds, a # b,
           ofile[p][a] = None, ofile[p][b] = None,
           NEW v \in FileIds, NEW w \in FileIds, v # w,
           NEW f \in FileIds,
           \A q \in Procs, d \in Fds :
              ofile'[q][d] = IF q = p /\ d = a THEN v ELSE IF q = p /\ d = b THEN w ELSE ofile[q][d]
    PROVE  Cardinality(Descriptors(f))' = Cardinality(Descriptors(f)) + (IF f \in {v, w} THEN 1 ELSE 0)
  <1>1. \A q \in Procs, d \in Fds :
            ofile'[q][d] = IF q = p /\ d = a THEN v ELSE IF q = p /\ d = b THEN w ELSE ofile[q][d]
    OBVIOUS
  <1>2. f # None
    BY DEF FileIds, None
  <1> DEFINE Old(q, d) == ofile[q][d] = f
  <1>6. \A q \in Procs, d \in Fds :
            ofile'[q][d] = f <=> Old(q, d) \/ (q = p /\ d = a /\ f = v) \/ (q = p /\ d = b /\ f = w)
    <2> SUFFICES ASSUME NEW q \in Procs, NEW d \in Fds
                 PROVE  ofile'[q][d] = f <=> \/ Old(q, d)
                                             \/ q = p /\ d = a /\ f = v
                                             \/ q = p /\ d = b /\ f = w
      OBVIOUS
    <2>1. CASE q = p /\ d = a
      BY <1>1, <1>2, <2>1
    <2>2. CASE q = p /\ d = b
      BY <1>1, <1>2, <2>2
    <2>3. CASE ~(q = p /\ d = a) /\ ~(q = p /\ d = b)
      BY <1>1, <2>3
    <2> QED BY <2>1, <2>2, <2>3
  <1>3. CASE f = v
    <2>3. \A q \in Procs, d \in Fds : ofile'[q][d] = f <=> ofile[q][d] = f \/ (q = p /\ d = a)
      BY <1>6, <1>3
    <2>1. Descriptors(f)' = Descriptors(f) \cup {<<p, a>>}
      BY <2>3, OneMore
    <2>2. <<p, a>> \notin Descriptors(f)
      BY <1>2 DEF Descriptors
    <2> QED BY <1>3, <2>1, <2>2, CardAdd, HoldersFinite
  <1>4. CASE f = w
    <2>3. \A q \in Procs, d \in Fds : ofile'[q][d] = f <=> ofile[q][d] = f \/ (q = p /\ d = b)
      BY <1>6, <1>4
    <2>1. Descriptors(f)' = Descriptors(f) \cup {<<p, b>>}
      BY <2>3, OneMore
    <2>2. <<p, b>> \notin Descriptors(f)
      BY <1>2 DEF Descriptors
    <2> QED BY <1>4, <2>1, <2>2, CardAdd, HoldersFinite
  <1>5. CASE f \notin {v, w}
    <2>1. Descriptors(f)' = Descriptors(f)
      BY <1>6, <1>5 DEF Descriptors
    <2> QED BY <1>5, <2>1, HoldersFinite
  <1> QED BY <1>3, <1>4, <1>5

\* A call takes a file into its variables.
LEMMA Take ==
    ASSUME TypeOK, NEW p \in Procs, Len(held[p]) < 2, NEW v \in FileIds,
           held' = [held EXCEPT ![p] = Append(@, v)], NEW f \in FileIds
    PROVE  Cardinality(Locals(f))' = Cardinality(Locals(f)) + (IF f = v THEN 1 ELSE 0)
  <1> DEFINE n == Len(held[p]) + 1
  <1>0. held[p] \in Seq(FileIds) /\ n \in 1 .. 2 /\ n \in Nat /\ held \in [Procs -> Seq(FileIds)]
    BY DEF TypeOK
  <1>1. /\ Len(Append(held[p], v)) = n /\ Append(held[p], v)[n] = v
        /\ \A i \in 1 .. n - 1 : Append(held[p], v)[i] = held[p][i]
    BY <1>0, AppendProperties
  <1>2. \A q \in Procs \ {p} : held'[q] = held[q]
    BY <1>0
  <1>3. held'[p] = Append(held[p], v)
    BY <1>0
  <1>4. \A q \in Procs, i \in 1 .. 2 :
            i <= Len(held'[q]) /\ held'[q][i] = f
            <=> \/ i <= Len(held[q]) /\ held[q][i] = f
                \/ q = p /\ i = n /\ f = v
    <2> SUFFICES ASSUME NEW q \in Procs, NEW i \in 1 .. 2
                 PROVE  i <= Len(held'[q]) /\ held'[q][i] = f
                        <=> \/ i <= Len(held[q]) /\ held[q][i] = f
                            \/ q = p /\ i = n /\ f = v
      OBVIOUS
    <2>1. CASE q # p
      BY <1>2, <2>1
    <2>2. CASE q = p
      <3>1. Len(held[p]) = n - 1 /\ Len(held'[p]) = n
        BY <1>0, <1>1, <1>3
      <3> HIDE DEF n
      <3>2. CASE i = n
        BY <1>0, <1>1, <1>3, <2>2, <3>1, <3>2
      <3>3. CASE i # n
        BY <1>0, <1>1, <1>3, <2>2, <3>1, <3>3
      <3> QED BY <3>2, <3>3
    <2> QED BY <2>1, <2>2
  <1> HIDE DEF n
  <1>5. CASE f = v
    <2>1. Locals(f)' = Locals(f) \cup {<<p, n>>}
      BY <1>0, <1>4, <1>5 DEF Locals
    <2>2. ~(n <= Len(held[p]))
      BY <1>0 DEF n
    <2>3. <<p, n>> \notin Locals(f)
      BY <2>2 DEF Locals
    <2> QED BY <1>5, <2>1, <2>3, CardAdd, HoldersFinite
  <1>6. CASE f # v
    <2>1. Locals(f)' = Locals(f)
      BY <1>4, <1>6 DEF Locals
    <2> QED BY <1>6, <2>1, HoldersFinite
  <1> QED BY <1>5, <1>6

LEMMA ShortTail ==
    ASSUME NEW S, NEW h \in Seq(S), h # <<>>, Len(h) <= 2
    PROVE  /\ Len(h) \in 1 .. 2 /\ Len(Tail(h)) = Len(h) - 1
           /\ Len(h) = 2 => Tail(h)[1] = h[2]
           /\ Head(h) = h[1] /\ Tail(h) \in Seq(S)
  <1>1. Len(h) \in Nat \ {0}
    BY EmptySeq
  <1>2. Len(h) \in 1 .. 2
    <2>1. \A n \in Nat \ {0} : n <= 2 => n \in 1 .. 2
      OBVIOUS
    <2> QED BY <1>1, <2>1
  <1>3. /\ Tail(h) \in Seq(S) /\ Len(Tail(h)) = Len(h) - 1
        /\ \A i \in 1 .. Len(Tail(h)) : Tail(h)[i] = h[i + 1]
    BY HeadTailProperties
  <1>4. Len(h) = 2 => Tail(h)[1] = h[2]
    BY <1>3
  <1> QED BY <1>2, <1>3, <1>4

\* A call gives up the first file in its variables.
LEMMA Give ==
    ASSUME TypeOK, CallsOK, NEW p \in Procs, held[p] # <<>>,
           held' = [held EXCEPT ![p] = Tail(held[p])], NEW f \in FileIds
    PROVE  Cardinality(Locals(f))' = Cardinality(Locals(f)) - (IF f = Head(held[p]) THEN 1 ELSE 0)
  <1>0. held[p] \in Seq(FileIds) /\ held \in [Procs -> Seq(FileIds)] /\ Len(held[p]) <= 2
    BY DEF TypeOK, CallsOK
  <1> DEFINE T == Tail(held[p])
  <1>1. /\ Len(held[p]) \in 1 .. 2 /\ Len(T) = Len(held[p]) - 1
        /\ Len(held[p]) = 2 => T[1] = held[p][2]
        /\ Head(held[p]) = held[p][1]
    BY <1>0, ShortTail
  <1>2. \A q \in Procs \ {p} : held'[q] = held[q]
    BY <1>0
  <1>3. held'[p] = T
    BY <1>0
  <1> HIDE DEF T
  <1>4. CASE Len(held[p]) = 1
    <2>1. \A i \in 1 .. 2 : ~(i <= Len(held'[p])) /\ (i <= Len(held[p]) <=> i = 1)
      BY <1>0, <1>1, <1>3, <1>4
    <2>2. CASE f = Head(held[p])
      <3>1. Locals(f)' = Locals(f) \ {<<p, 1>>}
        BY <1>1, <1>2, <2>1, <2>2 DEF Locals
      <3>2. <<p, 1>> \in Locals(f)
        BY <1>1, <1>4, <2>2 DEF Locals
      <3> QED BY <2>2, <3>1, <3>2, CardDrop, HoldersFinite
    <2>3. CASE f # Head(held[p])
      <3>1. Locals(f)' = Locals(f)
        BY <1>1, <1>2, <2>1, <2>3 DEF Locals
      <3> QED BY <2>3, <3>1, HoldersFinite
    <2> QED BY <2>2, <2>3
  <1>5. CASE Len(held[p]) = 2
    <2>1. \A i \in 1 .. 2 : i <= Len(held[p]) /\ (i <= Len(held'[p]) <=> i = 1)
      BY <1>0, <1>1, <1>3, <1>5
    <2>2. held'[p][1] = held[p][2]
      BY <1>0, <1>1, <1>3, <1>5
    <2>3. CASE f = held[p][1] /\ f = held[p][2]
      <3>1. Locals(f)' = Locals(f) \ {<<p, 2>>}
        <4>1. \A q \in Procs, i \in 1 .. 2 :
                  i <= Len(held'[q]) /\ held'[q][i] = f
                  <=> i <= Len(held[q]) /\ held[q][i] = f /\ ~(q = p /\ i = 2)
          <5>1. \A i \in 1 .. 2 : i = 1 \/ i = 2
            OBVIOUS
          <5>2. /\ 1 <= Len(held[p]) /\ 1 <= Len(held'[p]) /\ 2 <= Len(held[p]) /\ ~(2 <= Len(held'[p]))
                /\ held'[p][1] = f
            BY <2>1, <2>2, <2>3
          <5> QED BY <1>2, <5>1, <5>2, <2>3
        <4> QED BY <4>1 DEF Locals
      <3>2. <<p, 2>> \in Locals(f)
        BY <2>1, <2>3 DEF Locals
      <3> QED BY <1>1, <2>3, <3>1, <3>2, CardDrop, HoldersFinite
    <2>4. CASE f = held[p][1] /\ f # held[p][2]
      <3>1. Locals(f)' = Locals(f) \ {<<p, 1>>}
        BY <1>2, <2>1, <2>2, <2>4 DEF Locals
      <3>2. <<p, 1>> \in Locals(f)
        BY <2>1, <2>4 DEF Locals
      <3> QED BY <1>1, <2>4, <3>1, <3>2, CardDrop, HoldersFinite
    <2>5. CASE f # held[p][1] /\ f = held[p][2]
      <3>1. Locals(f)' = (Locals(f) \ {<<p, 2>>}) \cup {<<p, 1>>}
        BY <1>2, <2>1, <2>2, <2>5 DEF Locals
      <3>2. <<p, 2>> \in Locals(f) /\ <<p, 1>> \notin Locals(f)
        BY <2>1, <2>5 DEF Locals
      <3>3. Cardinality(Locals(f)') = Cardinality(Locals(f))
        BY <3>1, <3>2, CardMove, HoldersFinite
      <3> QED BY <1>1, <2>5, <3>3, HoldersFinite
    <2>6. CASE f # held[p][1] /\ f # held[p][2]
      <3>1. Locals(f)' = Locals(f)
        BY <1>2, <2>1, <2>2, <2>6 DEF Locals
      <3> QED BY <1>1, <2>6, <3>1, HoldersFinite
    <2> QED BY <2>3, <2>4, <2>5, <2>6
  <1> QED BY <1>1, <1>4, <1>5

\* A call gives up both files in its variables.
LEMMA GiveTwo ==
    ASSUME TypeOK, NEW p \in Procs, Len(held[p]) = 2, held[p][1] # held[p][2],
           held' = [held EXCEPT ![p] = <<>>], NEW f \in FileIds
    PROVE  Cardinality(Locals(f))' =
               Cardinality(Locals(f)) - (IF f \in {held[p][1], held[p][2]} THEN 1 ELSE 0)
  <1>0. held \in [Procs -> Seq(FileIds)] /\ Len(<<>>) = 0
    BY DEF TypeOK
  <1>1. \A q \in Procs \ {p} : held'[q] = held[q]
    BY <1>0
  <1>2. \A i \in 1 .. 2 : ~(i <= Len(held'[p])) /\ i <= Len(held[p])
    BY <1>0
  <1>3. CASE f = held[p][1]
    <2>1. Locals(f)' = Locals(f) \ {<<p, 1>>}
      BY <1>1, <1>2, <1>3 DEF Locals
    <2>2. <<p, 1>> \in Locals(f)
      BY <1>2, <1>3 DEF Locals
    <2> QED BY <1>3, <2>1, <2>2, CardDrop, HoldersFinite
  <1>4. CASE f = held[p][2]
    <2>1. Locals(f)' = Locals(f) \ {<<p, 2>>}
      BY <1>1, <1>2, <1>4 DEF Locals
    <2>2. <<p, 2>> \in Locals(f)
      BY <1>2, <1>4 DEF Locals
    <2> QED BY <1>4, <2>1, <2>2, CardDrop, HoldersFinite
  <1>5. CASE f \notin {held[p][1], held[p][2]}
    <2>1. Locals(f)' = Locals(f)
      BY <1>1, <1>2, <1>5 DEF Locals
    <2> QED BY <1>5, <2>1, HoldersFinite
  <1> QED BY <1>3, <1>4, <1>5

-----------------------------------------------------------------------------
(***************************************************************************)
(* What a step leaves alone.                                               *)
(***************************************************************************)

LEMMA TableFrame ==
    ASSUME RefsOK, KindsOK, UNCHANGED <<ref, type, ofile, held>>
    PROVE  RefsOK' /\ KindsOK'
  BY DEF RefsOK, KindsOK, Descriptors, Locals

LEMMA EndsFrame ==
    ASSUME ReadersOK, WritersOK, PagesOK,
           UNCHANGED <<type, writable, page, ff, pages, readopen, writeopen>>
    PROVE  ReadersOK' /\ WritersOK' /\ PagesOK'
  BY DEF ReadersOK, WritersOK, PagesOK, ReadEnd, WriteEnd, ReadClose, WriteClose

LEMMA InodesFrame ==
    ASSUME InodesOK, UNCHANGED <<iref, type, ff>>,
           \A q \in Procs : pc'[q] \in {"open", "open_bad"} <=> pc[q] \in {"open", "open_bad"}
    PROVE  InodesOK'
  <1>1. Openers' = Openers
    BY DEF Openers
  <1>2. Inodes' = Inodes /\ HalfClosed("INODE")' = HalfClosed("INODE")
    BY DEF Inodes, HalfClosed
  <1> QED BY <1>1, <1>2 DEF InodesOK

LEMMA FreshFrame ==
    ASSUME FreshOK, UNCHANGED <<type, ofile, held>>,
           \A q \in Procs : pc'[q] \in Fresh => pc[q] \in Fresh \/ held[q] = <<>>
    PROVE  FreshOK'
  <1> SUFFICES ASSUME NEW q \in Procs, pc'[q] \in Fresh, NEW i \in 1 .. Len(held'[q])
               PROVE  type'[held'[q][i]] = "NONE" /\ Sole(q, i)'
    BY DEF FreshOK
  <1>1. Sole(q, i)' <=> Sole(q, i)
    BY DEF Sole
  <1>2. CASE pc[q] \in Fresh
    BY <1>1, <1>2 DEF FreshOK
  <1>3. CASE held[q] = <<>>
    BY <1>3
  <1> QED BY <1>2, <1>3

LEMMA OnFrame ==
    ASSUME OnOK, UNCHANGED <<type, writable, page, ofile>>,
           \A q \in Procs : /\ pc'[q] \in Reading => pc[q] \in Reading /\ on'[q] = on[q]
                            /\ pc'[q] \in Writing => pc[q] \in Writing /\ on'[q] = on[q]
    PROVE  OnOK'
  BY DEF OnOK, ReadEnd, WriteEnd

LEMMA OnStep ==
    ASSUME OnOK,
           \A q \in Procs :
               /\ pc'[q] \in Reading => pc[q] \in Reading /\ on'[q] = on[q]
               /\ pc'[q] \in Writing => pc[q] \in Writing /\ on'[q] = on[q]
               /\ pc'[q] \in Reading \cup Writing =>
                     \A fd \in Fds : ofile[q][fd] # None =>
                         /\ ofile'[q][fd] = ofile[q][fd]
                         /\ type'[ofile[q][fd]] = type[ofile[q][fd]]
                         /\ page'[ofile[q][fd]] = page[ofile[q][fd]]
                         /\ writable'[ofile[q][fd]] = writable[ofile[q][fd]]
    PROVE  OnOK'
  BY DEF OnOK, ReadEnd, WriteEnd

LEMMA RingFrame ==
    ASSUME RingOK, UNCHANGED <<nread, nwrite, pages>>
    PROVE  RingOK'
  BY DEF RingOK, Count

-----------------------------------------------------------------------------
(***************************************************************************)
(* Steps that change neither the table nor a pipe.                         *)
(***************************************************************************)

LEMMA StepSysPipe == ASSUME IInv, NEW p \in Procs, SysPipe(p) PROVE IInv'
  <1> USE DEF IInv, SysPipe, Calling, Goto, ftable, pipe, io, closes
  <1>1. TypeOK'
    BY DEF TypeOK
  <1>2. CallsOK' /\ ForksOK'
    BY DEF TypeOK, CallsOK, ForksOK, Quiet, Fresh, Reading, Writing
  <1>3. RefsOK' /\ KindsOK' /\ ReadersOK' /\ WritersOK' /\ PagesOK' /\ RingOK'
    BY TableFrame, EndsFrame, RingFrame
  <1>4. InodesOK'
    BY InodesFrame DEF TypeOK
  <1>5. FreshOK'
    BY FreshFrame DEF TypeOK, CallsOK, Quiet, Fresh
  <1>6. OnOK'
    BY OnFrame DEF TypeOK, Reading, Writing
  <1> QED BY <1>1, <1>2, <1>3, <1>4, <1>5, <1>6

LEMMA StepPipeNoMemory == ASSUME IInv, NEW p \in Procs, PipeNoMemory(p) PROVE IInv'
  <1> USE DEF IInv, PipeNoMemory, Goto, ftable, pipe, io, closes
  <1>1. TypeOK'
    BY DEF TypeOK
  <1>2. CallsOK' /\ ForksOK'
    BY DEF TypeOK, CallsOK, ForksOK, Quiet, Fresh, Reading, Writing
  <1>3. RefsOK' /\ KindsOK' /\ ReadersOK' /\ WritersOK' /\ PagesOK' /\ RingOK'
    BY TableFrame, EndsFrame, RingFrame
  <1>4. InodesOK'
    BY InodesFrame DEF TypeOK
  <1>5. FreshOK'
    BY FreshFrame DEF TypeOK, Fresh
  <1>6. OnOK'
    BY OnFrame DEF TypeOK, Reading, Writing
  <1> QED BY <1>1, <1>2, <1>3, <1>4, <1>5, <1>6

LEMMA StepFork == ASSUME IInv, NEW p \in Procs, NEW c \in Procs, Fork(p, c) PROVE IInv'
  <1> USE DEF IInv, Fork, Calling, ftable, pipe, io, closes
  <1>1. TypeOK'
    BY DEF TypeOK
  <1>2. CallsOK' /\ ForksOK'
    BY DEF TypeOK, CallsOK, ForksOK, Quiet, Fresh, Reading, Writing
  <1>3. RefsOK' /\ KindsOK' /\ ReadersOK' /\ WritersOK' /\ PagesOK' /\ RingOK'
    BY TableFrame, EndsFrame, RingFrame
  <1>4. InodesOK'
    BY InodesFrame DEF TypeOK
  <1>5. FreshOK'
    BY FreshFrame DEF TypeOK, Fresh
  <1>6. OnOK'
    BY OnFrame DEF TypeOK, Reading, Writing
  <1> QED BY <1>1, <1>2, <1>3, <1>4, <1>5, <1>6

LEMMA StepForkRun == ASSUME IInv, NEW p \in Procs, ForkRun(p) PROVE IInv'
  <1> USE DEF IInv, ForkRun, ftable, pipe, io, closes
  <1>1. TypeOK'
    BY DEF TypeOK, ForksOK
  <1>2. CallsOK' /\ ForksOK'
    BY DEF TypeOK, CallsOK, ForksOK, Quiet, Fresh, Reading, Writing
  <1>3. RefsOK' /\ KindsOK' /\ ReadersOK' /\ WritersOK' /\ PagesOK' /\ RingOK'
    BY TableFrame, EndsFrame, RingFrame
  <1>4. InodesOK'
    BY InodesFrame DEF TypeOK, ForksOK
  <1>5. FreshOK'
    BY FreshFrame DEF TypeOK, Fresh, ForksOK
  <1>6. OnOK'
    BY OnFrame DEF TypeOK, Reading, Writing, ForksOK
  <1> QED BY <1>1, <1>2, <1>3, <1>4, <1>5, <1>6

LEMMA StepExit == ASSUME IInv, NEW p \in Procs, Exit(p) \/ ExitEnd(p) PROVE IInv'
  <1> USE DEF IInv, Exit, ExitEnd, Goto, ftable, pipe, io, closes
  <1>1. TypeOK'
    BY DEF TypeOK
  <1>2. CallsOK' /\ ForksOK'
    BY DEF TypeOK, CallsOK, ForksOK, Quiet, Fresh, Reading, Writing
  <1>3. RefsOK' /\ KindsOK' /\ ReadersOK' /\ WritersOK' /\ PagesOK' /\ RingOK'
    BY TableFrame, EndsFrame, RingFrame
  <1>4. InodesOK'
    BY InodesFrame DEF TypeOK
  <1>5. FreshOK'
    BY FreshFrame DEF TypeOK, Fresh
  <1>6. OnOK'
    BY OnFrame DEF TypeOK, Reading, Writing
  <1> QED BY <1>1, <1>2, <1>3, <1>4, <1>5, <1>6

LEMMA StepKill == ASSUME IInv, NEW p \in Procs, Kill(p) PROVE IInv'
  <1> USE DEF IInv, Kill, Goto, ftable, pipe, io, closes
  <1>1. TypeOK'
    BY DEF TypeOK
  <1>2. CallsOK' /\ ForksOK'
    BY DEF TypeOK, CallsOK, ForksOK, Quiet, Fresh, Reading, Writing
  <1>3. RefsOK' /\ KindsOK' /\ ReadersOK' /\ WritersOK' /\ PagesOK' /\ RingOK'
    BY TableFrame, EndsFrame, RingFrame
  <1>4. InodesOK'
    BY InodesFrame DEF TypeOK
  <1>5. FreshOK'
    BY FreshFrame DEF TypeOK, Fresh
  <1>6. OnOK'
    BY OnFrame DEF TypeOK, Reading, Writing
  <1> QED BY <1>1, <1>2, <1>3, <1>4, <1>5, <1>6

LEMMA StepSysOpen == ASSUME IInv, NEW p \in Procs, SysOpen(p) PROVE IInv'
  <1> USE DEF IInv, SysOpen, Calling, Goto, ftable, pipe, io, closes
  <1>1. TypeOK'
    BY DEF TypeOK
  <1>2. CallsOK' /\ ForksOK'
    BY DEF TypeOK, CallsOK, ForksOK, Quiet, Fresh, Reading, Writing
  <1>3. RefsOK' /\ KindsOK' /\ ReadersOK' /\ WritersOK' /\ PagesOK' /\ RingOK'
    BY TableFrame, EndsFrame, RingFrame
  <1>4. InodesOK'
    <2>1. Openers' = Openers \cup {p} /\ p \notin Openers
      BY DEF Openers, TypeOK
    <2>2. Cardinality(Openers') = Cardinality(Openers) + 1
      BY <2>1, CardAdd, InodesFinite
    <2>3. Inodes' = Inodes /\ HalfClosed("INODE")' = HalfClosed("INODE")
      BY DEF Inodes, HalfClosed
    <2> QED BY <2>2, <2>3, InodesFinite DEF InodesOK
  <1>5. FreshOK'
    BY FreshFrame DEF TypeOK, Fresh
  <1>6. OnOK'
    BY OnFrame DEF TypeOK, Reading, Writing
  <1> QED BY <1>1, <1>2, <1>3, <1>4, <1>5, <1>6

-----------------------------------------------------------------------------
(***************************************************************************)
(* Reading and writing.                                                    *)
(***************************************************************************)

\* The counters wrap, the number of bytes does not.
LEMMA ReadCount ==
    ASSUME NEW W \in Nat \ {0}, NEW a \in 0 .. W - 1, NEW b \in 0 .. W - 1,
           NEW m \in 0 .. (b - a) % W
    PROVE  (b - ((a + m) % W)) % W = ((b - a) % W) - m
  <1> DEFINE c == (b - a) % W
             q == (b - a) \div W
             d == (a + m) % W
             r == (a + m) \div W
  <1>1. c \in 0 .. W - 1
    BY ModRange
  <1>2. q \in Int /\ b - a = W * q + c
    BY DivMod
  <1>3. m \in Int /\ a + m \in Int
    BY <1>1
  <1>4. r \in Int /\ a + m = W * r + d /\ d \in Int
    BY <1>3, DivMod, ModRange
  <1> HIDE DEF c, q, d, r
  <1>5. c - m \in 0 .. W - 1
    BY <1>1 DEF c
  <1>6. b - d = W * (q + r) + (c - m)
    <2>1. b - d = b - (a + m) + W * r
      BY <1>3, <1>4
    <2>2. b - d = (W * q + c) - m + W * r
      BY <2>1, <1>1, <1>2, <1>3, <1>4
    <2> QED BY <2>2, <1>1, <1>2, <1>3, <1>4
  <1>7. (b - d) % W = c - m
    <2>1. b - d \in Int /\ q + r \in Int
      BY <1>2, <1>4
    <2> QED BY <2>1, <1>5, <1>6, ModUnique
  <1> QED BY <1>7 DEF c, d

LEMMA WriteCount ==
    ASSUME NEW W \in Nat \ {0}, NEW a \in 0 .. W - 1, NEW b \in 0 .. W - 1,
           NEW k \in Nat, ((b - a) % W) + k < W
    PROVE  (((b + k) % W) - a) % W = ((b - a) % W) + k
  <1> DEFINE c == (b - a) % W
             q == (b - a) \div W
             d == (b + k) % W
             r == (b + k) \div W
  <1>1. c \in 0 .. W - 1
    BY ModRange
  <1>2. q \in Int /\ b - a = W * q + c
    BY DivMod
  <1>4. r \in Int /\ b + k = W * r + d /\ d \in Int
    BY DivMod, ModRange
  <1>5. c + k \in 0 .. W - 1
    BY <1>1
  <1> HIDE DEF c, q, d, r
  <1>6. d - a = W * (q - r) + (c + k)
    <2>1. d - a = (b - a) + k - W * r
      BY <1>4
    <2>2. d - a = (W * q + c) + k - W * r
      BY <2>1, <1>1, <1>2, <1>4
    <2> QED BY <2>2, <1>1, <1>2, <1>4
  <1>7. (d - a) % W = c + k
    <2>1. d - a \in Int /\ q - r \in Int
      BY <1>2, <1>4
    <2> QED BY <2>1, <1>5, <1>6, ModUnique
  <1> QED BY <1>7 DEF c, d

\* Whoever reads or writes works on a page in use.
LEMMA OnPage ==
    ASSUME IInv, NEW p \in Procs
    PROVE  /\ pc[p] \in Reading \cup Writing => on[p] \in Pages /\ on[p] \in pages
           /\ pc[p] \in Reading => readopen[on[p]]
           /\ pc[p] \in Writing => writeopen[on[p]]
  <1>1. pc[p] \in Reading \cup Writing => on[p] \in Pages
    BY DEF IInv, CallsOK, TypeOK
  <1>2. ASSUME pc[p] \in Reading PROVE readopen[on[p]]
    <2>1. PICK fd \in Fds : ofile[p][fd] # None /\ ReadEnd(ofile[p][fd], on[p])
      BY <1>2 DEF IInv, OnOK
    <2>2. ofile[p][fd] \in FileIds
      BY <2>1 DEF IInv, TypeOK
    <2> QED BY <1>1, <1>2, <2>1, <2>2 DEF IInv, ReadersOK
  <1>3. ASSUME pc[p] \in Writing PROVE writeopen[on[p]]
    <2>1. PICK fd \in Fds : ofile[p][fd] # None /\ WriteEnd(ofile[p][fd], on[p])
      BY <1>3 DEF IInv, OnOK
    <2>2. ofile[p][fd] \in FileIds
      BY <2>1 DEF IInv, TypeOK
    <2> QED BY <1>1, <1>3, <2>1, <2>2 DEF IInv, WritersOK
  <1> QED BY <1>1, <1>2, <1>3 DEF IInv, PagesOK

LEMMA CountNat ==
    ASSUME TypeOK, NEW g \in Pages
    PROVE  Count(g) \in 0 .. Wrap - 1 /\ nread[g] \in 0 .. Wrap - 1 /\ nwrite[g] \in 0 .. Wrap - 1
  <1>1. nread[g] \in 0 .. Wrap - 1 /\ nwrite[g] \in 0 .. Wrap - 1 /\ Wrap \in Nat \ {0}
    BY FilesAssumption DEF TypeOK
  <1>2. nwrite[g] - nread[g] \in Int
    BY <1>1
  <1> QED BY <1>1, <1>2, ModRange DEF Count

LEMMA PageIsNotNone == \A g \in Pages : g # None
  BY FilesAssumption DEF None

LEMMA StepSysRead == ASSUME IInv, NEW p \in Procs, NEW fd \in Fds, SysRead(p, fd) PROVE IInv'
  <1> USE DEF IInv, SysRead, Calling, Goto, ftable, pipe, io, closes
  <1>0. ofile[p][fd] \in FileIds /\ ReadEnd(ofile[p][fd], page[ofile[p][fd]]) /\ page[ofile[p][fd]] \in Pages
    BY DEF TypeOK, ReadEnd, PagesOK
  <1>1. TypeOK'
    BY <1>0 DEF TypeOK
  <1>2. CallsOK' /\ ForksOK'
    BY <1>0, PageIsNotNone DEF TypeOK, CallsOK, ForksOK, Quiet, Fresh, Reading, Writing
  <1>3. RefsOK' /\ KindsOK' /\ ReadersOK' /\ WritersOK' /\ PagesOK' /\ RingOK'
    BY TableFrame, EndsFrame, RingFrame
  <1>4. InodesOK'
    BY InodesFrame DEF TypeOK
  <1>5. FreshOK'
    BY FreshFrame DEF TypeOK, Fresh
  <1>6. OnOK'
    BY <1>0 DEF OnOK, ReadEnd, WriteEnd, TypeOK, Reading, Writing
  <1> QED BY <1>1, <1>2, <1>3, <1>4, <1>5, <1>6

LEMMA StepSysWrite ==
    ASSUME IInv, NEW p \in Procs, NEW fd \in Fds, NEW s \in Writes, SysWrite(p, fd, s) PROVE IInv'
  <1> USE DEF IInv, SysWrite, Calling, Goto, ftable, pipe, io, closes
  <1>0. ofile[p][fd] \in FileIds /\ WriteEnd(ofile[p][fd], page[ofile[p][fd]]) /\ page[ofile[p][fd]] \in Pages
    BY DEF TypeOK, WriteEnd, PagesOK
  <1>1. TypeOK'
    <2>1. s \in Seq(Bytes)
      BY FilesAssumption
    <2> QED BY <1>0, <2>1 DEF TypeOK
  <1>2. CallsOK' /\ ForksOK'
    BY <1>0, PageIsNotNone DEF TypeOK, CallsOK, ForksOK, Quiet, Fresh, Reading, Writing
  <1>3. RefsOK' /\ KindsOK' /\ ReadersOK' /\ WritersOK' /\ PagesOK' /\ RingOK'
    BY TableFrame, EndsFrame, RingFrame
  <1>4. InodesOK'
    BY InodesFrame DEF TypeOK
  <1>5. FreshOK'
    BY FreshFrame DEF TypeOK, Fresh
  <1>6. OnOK'
    BY <1>0 DEF OnOK, ReadEnd, WriteEnd, TypeOK, Reading, Writing
  <1> QED BY <1>1, <1>2, <1>3, <1>4, <1>5, <1>6

LEMMA StepPipeReadWait == ASSUME IInv, NEW p \in Procs, PipeReadWait(p) PROVE IInv'
  <1> USE DEF IInv, PipeReadWait, Goto, ftable, pipe, io, closes
  <1>1. TypeOK'
    BY DEF TypeOK
  <1>2. CallsOK' /\ ForksOK'
    BY DEF TypeOK, CallsOK, ForksOK, Quiet, Fresh, Reading, Writing
  <1>3. RefsOK' /\ KindsOK' /\ ReadersOK' /\ WritersOK' /\ PagesOK' /\ RingOK'
    BY TableFrame, EndsFrame, RingFrame
  <1>4. InodesOK'
    BY InodesFrame DEF TypeOK
  <1>5. FreshOK'
    BY FreshFrame DEF TypeOK, Fresh
  <1>6. OnOK'
    BY OnFrame DEF TypeOK, Reading, Writing
  <1> QED BY <1>1, <1>2, <1>3, <1>4, <1>5, <1>6

\* What a read of n bytes does to the counters.
LEMMA ReadMoves ==
    ASSUME IInv, NEW p \in Procs, NEW n \in Reads, PipeRead(p, n), NEW g, g = on[p]
    PROVE  LET m == Smaller(n, Count(g))
           IN  /\ g \in Pages /\ g \in pages /\ readopen[g]
               /\ m \in 0 .. Count(g) /\ Count(g) \in Nat
               /\ nread'[g] = (nread[g] + m) % Wrap /\ nread' \in [Pages -> 0 .. Wrap - 1]
               /\ \A h \in Pages \ {g} : nread'[h] = nread[h]
               /\ Count(g)' = Count(g) - m
               /\ \A h \in Pages \ {g} : Count(h)' = Count(h)
  <1> DEFINE m == Smaller(n, Count(g))
  <1>1. g \in Pages /\ g \in pages /\ readopen[g]
    BY OnPage DEF PipeRead, Reading
  <1>2. Count(g) \in 0 .. Wrap - 1 /\ nread[g] \in 0 .. Wrap - 1 /\ nwrite[g] \in 0 .. Wrap - 1
    BY <1>1, CountNat DEF IInv
  <1>3. n \in Nat /\ Wrap \in Nat \ {0}
    BY FilesAssumption
  <1>4. m \in 0 .. Count(g)
    BY <1>2, <1>3 DEF Smaller
  <1>5. nread' = [nread EXCEPT ![g] = (@ + m) % Wrap] /\ nwrite' = nwrite
    BY DEF PipeRead
  <1>6. nread'[g] = (nread[g] + m) % Wrap /\ \A h \in Pages \ {g} : nread'[h] = nread[h]
    BY <1>1, <1>5 DEF IInv, TypeOK
  <1>7. (nread[g] + m) % Wrap \in 0 .. Wrap - 1
    <2>1. nread[g] + m \in Int
      BY <1>2, <1>4
    <2> HIDE DEF m
    <2> QED BY <1>3, <2>1, ModRange
  <1>8. nread' \in [Pages -> 0 .. Wrap - 1]
    <2> HIDE DEF m
    <2> QED BY <1>1, <1>5, <1>7 DEF IInv, TypeOK
  <1>9. Count(g)' = Count(g) - m
    <2>1. (nwrite[g] - ((nread[g] + m) % Wrap)) % Wrap = Count(g) - m
      <3>1. m \in 0 .. (nwrite[g] - nread[g]) % Wrap
        BY <1>4 DEF Count
      <3> HIDE DEF m
      <3> QED BY <1>2, <1>3, <3>1, ReadCount DEF Count
    <2> HIDE DEF m
    <2>2. Count(g)' = (nwrite[g] - ((nread[g] + m) % Wrap)) % Wrap
      <3>1. nwrite'[g] = nwrite[g] /\ nread'[g] = (nread[g] + m) % Wrap
        BY <1>5, <1>6
      <3> QED BY <3>1 DEF Count
    <2> QED BY <2>1, <2>2
  <1>10. \A h \in Pages \ {g} : Count(h)' = Count(h)
    BY <1>5, <1>6 DEF Count
  <1> QED BY <1>1, <1>2, <1>4, <1>6, <1>8, <1>9, <1>10

LEMMA StepPipeRead == ASSUME IInv, NEW p \in Procs, NEW n \in Reads, PipeRead(p, n) PROVE IInv'
  <1> DEFINE g == on[p]
  <1>0. /\ g \in Pages /\ g \in pages
        /\ nread' \in [Pages -> 0 .. Wrap - 1]
    BY ReadMoves
  <1>1. /\ pc' = [q \in Procs |-> IF q = p THEN "user"
                                  ELSE IF pc[q] = "wsleep" /\ on[q] = g THEN "pipewrite" ELSE pc[q]]
        /\ on' = [on EXCEPT ![p] = None] /\ pc[p] = "piperead"
    BY DEF PipeRead, ReadWakes, WakeWriters, IInv, TypeOK
  <1>2. UNCHANGED <<ftable, ofile, pages, data, nwrite, readopen, writeopen, iref, todo, closes, child, killed>>
    BY DEF PipeRead
  <1> USE DEF IInv, ftable, closes
  <1>3. TypeOK'
    BY <1>0, <1>1, <1>2 DEF TypeOK
  <1>4. CallsOK' /\ ForksOK'
    BY <1>1, <1>2 DEF TypeOK, CallsOK, ForksOK, Quiet, Fresh, Reading, Writing
  <1>5. RefsOK' /\ KindsOK' /\ ReadersOK' /\ WritersOK' /\ PagesOK'
    BY <1>2, TableFrame, EndsFrame
  <1>6. InodesOK'
    BY <1>1, <1>2, InodesFrame DEF TypeOK
  <1>7. FreshOK'
    BY <1>1, <1>2, FreshFrame DEF TypeOK, Fresh
  <1>8. OnOK'
    BY <1>1, <1>2, OnFrame DEF TypeOK, Reading, Writing
  <1>9. RingOK'
    <2> SUFFICES ASSUME NEW h \in Pages
                 PROVE  Count(h)' <= PIPESIZE /\ (h \notin pages' => nread'[h] = 0 /\ nwrite'[h] = 0)
      BY DEF RingOK
    <2>1. CASE h = g
      <3>1. Count(h)' = Count(h) - Smaller(n, Count(h)) /\ Smaller(n, Count(h)) \in 0 .. Count(h)
            /\ Count(h) \in Nat
        BY <2>1, ReadMoves
      <3>2. Count(h) <= PIPESIZE /\ PIPESIZE \in Nat
        BY FilesAssumption DEF RingOK
      <3>3. Count(h)' <= PIPESIZE
        BY <3>1, <3>2
      <3> QED BY <1>0, <1>2, <2>1, <3>3
    <2>2. CASE h # g
      <3>1. Count(h)' = Count(h) /\ nread'[h] = nread[h]
        BY <2>2, ReadMoves
      <3> QED BY <1>2, <3>1 DEF RingOK
    <2> QED BY <2>1, <2>2
  <1> QED BY <1>3, <1>4, <1>5, <1>6, <1>7, <1>8, <1>9

\* What a write of k bytes does to the ring.
LEMMA WriteMoves ==
    ASSUME IInv, NEW p \in Procs, PipeWrite(p), NEW g, g = on[p]
    PROVE  LET k == Smaller(Len(todo[p]), Room(g))
           IN  /\ g \in Pages /\ g \in pages /\ writeopen[g]
               /\ k \in Nat /\ k <= Len(todo[p]) /\ Count(g) \in Nat /\ Count(g) + k <= PIPESIZE
               /\ nwrite'[g] = (nwrite[g] + k) % Wrap /\ nwrite' \in [Pages -> 0 .. Wrap - 1]
               /\ \A h \in Pages \ {g} : nwrite'[h] = nwrite[h]
               /\ Count(g)' = Count(g) + k
               /\ \A h \in Pages \ {g} : Count(h)' = Count(h)
  <1> DEFINE k == Smaller(Len(todo[p]), Room(g))
  <1>1. g \in Pages /\ g \in pages /\ writeopen[g]
    BY OnPage DEF PipeWrite, Writing
  <1>2. Count(g) \in 0 .. Wrap - 1 /\ nread[g] \in 0 .. Wrap - 1 /\ nwrite[g] \in 0 .. Wrap - 1
    BY <1>1, CountNat DEF IInv
  <1>3. Len(todo[p]) \in Nat /\ Wrap \in Nat \ {0} /\ PIPESIZE \in Nat /\ PIPESIZE < Wrap
    BY FilesAssumption DEF IInv, TypeOK
  <1>4. k \in Nat /\ k <= Len(todo[p]) /\ Count(g) + k <= PIPESIZE
    <2>1. Count(g) <= PIPESIZE
      BY <1>1 DEF IInv, RingOK
    <2> QED BY <1>2, <1>3, <2>1 DEF Smaller, Room
  <1>5. nwrite' = [nwrite EXCEPT ![g] = (@ + k) % Wrap] /\ nread' = nread
    BY DEF PipeWrite
  <1>6. nwrite'[g] = (nwrite[g] + k) % Wrap /\ \A h \in Pages \ {g} : nwrite'[h] = nwrite[h]
    BY <1>1, <1>5 DEF IInv, TypeOK
  <1> HIDE DEF k
  <1>7. (nwrite[g] + k) % Wrap \in 0 .. Wrap - 1
    <2>1. nwrite[g] + k \in Int
      BY <1>2, <1>4
    <2> QED BY <1>3, <2>1, ModRange
  <1>8. nwrite' \in [Pages -> 0 .. Wrap - 1]
    BY <1>1, <1>5, <1>7 DEF IInv, TypeOK
  <1>9. Count(g)' = Count(g) + k
    <2>1. (((nwrite[g] + k) % Wrap) - nread[g]) % Wrap = Count(g) + k
      <3>1. ((nwrite[g] - nread[g]) % Wrap) + k < Wrap
        BY <1>2, <1>3, <1>4 DEF Count
      <3> QED BY <1>2, <1>3, <1>4, <3>1, WriteCount DEF Count
    <2>2. Count(g)' = (((nwrite[g] + k) % Wrap) - nread[g]) % Wrap
      BY <1>5, <1>6, Zenon DEF Count
    <2> QED BY <2>1, <2>2
  <1>10. \A h \in Pages \ {g} : Count(h)' = Count(h)
    BY <1>5, <1>6 DEF Count
  <1> QED BY <1>1, <1>2, <1>4, <1>6, <1>8, <1>9, <1>10 DEF k

\* The bytes in the ring are bytes.
LEMMA StoredBytes ==
    ASSUME TypeOK, NEW g \in Pages, NEW s \in Seq(Bytes)
    PROVE  Stored(g, s) \in [0 .. PIPESIZE - 1 -> Bytes]
  <1> SUFFICES ASSUME NEW i \in 0 .. PIPESIZE - 1
               PROVE  (LET k == (i - nwrite[g]) % PIPESIZE
                       IN  IF k < Len(s) THEN s[k + 1] ELSE data[g][i]) \in Bytes
    BY DEF Stored
  <1>1. i - nwrite[g] \in Int /\ PIPESIZE \in Nat \ {0}
    BY FilesAssumption, CountNat
  <1> DEFINE k == (i - nwrite[g]) % PIPESIZE
  <1>2. k \in 0 .. PIPESIZE - 1
    BY <1>1, ModRange
  <1>3. data[g][i] \in Bytes
    <2>1. data[g] \in [0 .. PIPESIZE - 1 -> Bytes]
      BY DEF TypeOK
    <2> QED BY <2>1
  <1> HIDE DEF k
  <1>4. k < Len(s) => s[k + 1] \in Bytes
    <2>1. k < Len(s) => k + 1 \in 1 .. Len(s)
      BY <1>1, <1>2
    <2> QED BY <2>1
  <1>5. (IF k < Len(s) THEN s[k + 1] ELSE data[g][i]) \in Bytes
    BY <1>3, <1>4
  <1> QED BY <1>5 DEF k

LEMMA StepPipeWrite == ASSUME IInv, NEW p \in Procs, PipeWrite(p) PROVE IInv'
  <1> DEFINE g == on[p]
             k == Smaller(Len(todo[p]), Room(g))
  <1>0. /\ g \in Pages /\ g \in pages /\ k \in Nat /\ k <= Len(todo[p])
        /\ nwrite' \in [Pages -> 0 .. Wrap - 1]
    BY WriteMoves
  <1>1. /\ pc[p] = "pipewrite" /\ pc'[p] \in {"user", "wsleep"}
        /\ on' = [on EXCEPT ![p] = IF pc'[p] = "user" THEN None ELSE g]
        /\ pc' = [q \in Procs |-> pc'[q]]
        /\ \A q \in Procs \ {p} : \/ pc'[q] = pc[q]
                                  \/ pc[q] = "rsleep" /\ pc'[q] = "piperead"
    <2> DEFINE done == k = Len(todo[p])
               fails == ~done /\ (~readopen[g] \/ killed[p])
    <2>1. /\ pc[p] = "pipewrite"
          /\ pc' = IF fails THEN [pc EXCEPT ![p] = "user"]
                   ELSE WakeReaders(g, [pc EXCEPT ![p] = IF done THEN "user" ELSE "wsleep"])
          /\ on' = [on EXCEPT ![p] = IF done \/ fails THEN None ELSE g]
      BY DEF PipeWrite
    <2>2. pc = [q \in Procs |-> pc[q]]
      BY DEF IInv, TypeOK
    <2> HIDE DEF done, fails, k
    <2>3. CASE fails
      BY <2>1, <2>2, <2>3
    <2>4. CASE ~fails /\ done
      BY <2>1, <2>2, <2>4 DEF WakeReaders
    <2>5. CASE ~fails /\ ~done
      BY <2>1, <2>2, <2>5 DEF WakeReaders
    <2> QED BY <2>3, <2>4, <2>5
  <1>2. UNCHANGED <<ftable, ofile, pages, nread, readopen, writeopen, iref, closes, child, killed>>
    BY DEF PipeWrite
  <1> USE DEF IInv, ftable, closes
  <1>3. TypeOK'
    <2>1. /\ todo[p] \in Seq(Bytes) /\ Len(todo[p]) \in Nat
      BY DEF TypeOK
    <2>2. SubSeq(todo[p], 1, k) \in Seq(Bytes) /\ SubSeq(todo[p], k + 1, Len(todo[p])) \in Seq(Bytes)
      <3> HIDE DEF k
      <3> QED BY <1>0, <2>1, SubSeqProperties
    <2>3. data' \in [Pages -> [0 .. PIPESIZE - 1 -> Bytes]]
      <3>1. Stored(g, SubSeq(todo[p], 1, k)) \in [0 .. PIPESIZE - 1 -> Bytes]
        BY <1>0, <2>2, StoredBytes
      <3>2. data' = [data EXCEPT ![g] = Stored(g, SubSeq(todo[p], 1, k))]
        BY DEF PipeWrite
      <3> HIDE DEF k, g
      <3> QED BY <1>0, <3>1, <3>2 DEF TypeOK
    <2>4. todo' \in [Procs -> Seq(Bytes)]
      <3>1. \/ todo' = [todo EXCEPT ![p] = <<>>]
            \/ todo' = [todo EXCEPT ![p] = SubSeq(todo[p], k + 1, Len(todo[p]))]
        BY DEF PipeWrite
      <3>2. <<>> \in Seq(Bytes)
        BY EmptySeq
      <3> HIDE DEF k
      <3> QED BY <2>2, <3>1, <3>2 DEF TypeOK
    <2>5. /\ on' \in [Procs -> Pages \cup {None}]
          /\ pc' \in [Procs -> {"user", "dead", "embryo", "fork", "pipealloc", "open", "open_bad",
                          "closing", "exiting", "piperead", "rsleep", "pipewrite", "wsleep"}]
      BY <1>0, <1>1 DEF TypeOK
    <2> HIDE DEF k, g
    <2> QED BY <1>0, <1>2, <2>3, <2>4, <2>5 DEF TypeOK
  <1>4. CallsOK' /\ ForksOK'
    <2>1. \A q \in Procs : /\ pc'[q] \in Quiet \cup {"exiting"} => pc[q] \in Quiet \cup {"exiting"}
                           /\ pc'[q] \in Quiet \cup Fresh => pc[q] \in Quiet \cup Fresh
                           /\ pc'[q] = "open_bad" => pc[q] = "open_bad"
      BY <1>1 DEF Quiet, Fresh, Reading, Writing
    <2>2. g # None
      BY <1>0, PageIsNotNone
    <2>3. \A q \in Procs \ {p} : on'[q] = on[q]
                               /\ (pc'[q] \in Reading \cup Writing <=> pc[q] \in Reading \cup Writing)
      BY <1>1 DEF Reading, Writing, TypeOK
    <2>4. on'[p] # None <=> pc'[p] \in Reading \cup Writing
      BY <1>1, <2>2 DEF Reading, Writing, TypeOK
    <2>5. \A q \in Procs : on'[q] # None <=> pc'[q] \in Reading \cup Writing
      BY <2>3, <2>4 DEF CallsOK
    <2>6. CallsOK'
      BY <1>2, <2>1, <2>5 DEF CallsOK
    <2>7. ForksOK'
      BY <1>1, <1>2 DEF ForksOK
    <2> QED BY <2>6, <2>7
  <1>5. RefsOK' /\ KindsOK' /\ ReadersOK' /\ WritersOK' /\ PagesOK'
    BY <1>2, TableFrame, EndsFrame
  <1>6. InodesOK'
    BY <1>1, <1>2, InodesFrame DEF TypeOK
  <1>7. FreshOK'
    BY <1>1, <1>2, FreshFrame DEF TypeOK, Fresh
  <1>8. OnOK'
    BY <1>1, <1>2, OnFrame DEF TypeOK, Reading, Writing
  <1>9. RingOK'
    <2> SUFFICES ASSUME NEW h \in Pages
                 PROVE  Count(h)' <= PIPESIZE /\ (h \notin pages' => nread'[h] = 0 /\ nwrite'[h] = 0)
      BY DEF RingOK
    <2>1. CASE h = g
      <3>1. Count(h)' <= PIPESIZE
        BY <2>1, WriteMoves
      <3> QED BY <1>0, <1>2, <2>1, <3>1
    <2>2. CASE h # g
      <3>1. Count(h)' = Count(h) /\ nwrite'[h] = nwrite[h]
        BY <2>2, WriteMoves
      <3> QED BY <1>2, <3>1 DEF RingOK
    <2> QED BY <2>1, <2>2
  <1> QED BY <1>3, <1>4, <1>5, <1>6, <1>7, <1>8, <1>9

-----------------------------------------------------------------------------
(***************************************************************************)
(* Steps on the file table.                                                *)
(***************************************************************************)

\* v is None, a free file, or a file that p or a descriptor holds.
Known(p, v) ==
    \/ v \notin FileIds \/ ref[v] = 0
    \/ \E q \in Procs, fd \in Fds : ofile[q][fd] = v
    \/ \E j \in 1 .. Len(held[p]) : held[p][j] = v

\* A step of p that hands such files around leaves the new files of the other
\* processes alone.
LEMMA FreshStep ==
    ASSUME TypeOK, CallsOK, RefsOK, FreshOK, NEW p \in Procs,
           \A q \in Procs \ {p} : held'[q] = held[q] /\ (pc'[q] \in Fresh => pc[q] \in Fresh),
           \A q \in Procs, fd \in Fds : Known(p, ofile'[q][fd]),
           \A j \in 1 .. Len(held'[p]) : Known(p, held'[p][j]),
           \A q \in Procs \ {p} : pc[q] \in Fresh =>
               \A i \in 1 .. Len(held[q]) : type'[held[q][i]] = "NONE",
           pc'[p] \in Fresh =>
               \A i \in 1 .. Len(held'[p]) : type'[held'[p][i]] = "NONE" /\ Sole(p, i)'
    PROVE  FreshOK'
  <1> SUFFICES ASSUME NEW q \in Procs \ {p}, pc'[q] \in Fresh, NEW i \in 1 .. Len(held'[q])
               PROVE  type'[held'[q][i]] = "NONE" /\ Sole(q, i)'
    BY DEF FreshOK
  <1> DEFINE v == held[q][i]
  <1>1. held'[q] = held[q] /\ pc[q] \in Fresh
    OBVIOUS
  <1>2. Sole(q, i) /\ v \in FileIds /\ i \in 1 .. Len(held[q])
    BY <1>1 DEF FreshOK, TypeOK
  <1>3. ~Known(p, v)
    BY <1>2, Held, FreeUnheld DEF Known, Sole
  <1>4. \A r \in Procs, fd \in Fds : ofile'[r][fd] # v
    BY <1>3
  <1>5. \A r \in Procs : \A j \in 1 .. Len(held'[r]) : held'[r][j] = v => r = q /\ j = i
    <2> SUFFICES ASSUME NEW r \in Procs, NEW j \in 1 .. Len(held'[r]), held'[r][j] = v
                 PROVE  r = q /\ j = i
      OBVIOUS
    <2>1. CASE r = p
      BY <1>3, <2>1
    <2>2. CASE r # p
      BY <1>2, <2>2 DEF Sole
    <2> QED BY <2>1, <2>2
  <1> QED BY <1>1, <1>4, <1>5 DEF Sole

\* The free slot filealloc finds.
LEMMA FreeFile ==
    ASSUME IInv, Free # {}
    PROVE  /\ First(Free) \in FileIds /\ ref[First(Free)] = 0 /\ type[First(Free)] = "NONE"
           /\ \A p \in Procs, fd \in Fds : ofile[p][fd] # First(Free)
           /\ \A p \in Procs : \A i \in 1 .. Len(held[p]) : held[p][i] # First(Free)
  <1>1. Free \in SUBSET Nat
    BY DEF Free, FileIds
  <1>2. First(Free) \in Free
    BY <1>1, FirstIn
  <1>3. First(Free) \in FileIds /\ ref[First(Free)] = 0
    BY <1>2 DEF Free
  <1> QED BY <1>3, FreeUnheld DEF IInv, KindsOK

\* The free descriptor fdalloc finds.
LEMMA FreeFd ==
    ASSUME NEW p \in Procs, FreeFds(p) # {}
    PROVE  First(FreeFds(p)) \in Fds /\ ofile[p][First(FreeFds(p))] = None
  <1>1. FreeFds(p) \in SUBSET Nat
    BY DEF FreeFds, Fds
  <1>2. First(FreeFds(p)) \in FreeFds(p)
    BY <1>1, FirstIn
  <1> QED BY <1>2 DEF FreeFds

LEMMA StepFileAlloc == ASSUME IInv, NEW p \in Procs, FileAlloc(p) PROVE IInv'
  <1>1. CASE Free = {}
    <2>1. /\ pc[p] = "pipealloc" /\ pc' = [pc EXCEPT ![p] = IF held[p] = <<>> THEN "user" ELSE "closing"]
          /\ UNCHANGED <<ref, held, type, writable, page, ofile, pipe, iref, io, ff, child, killed>>
      BY <1>1 DEF FileAlloc, Goto
    <2> USE DEF IInv, pipe, io
    <2>2. TypeOK'
      BY <2>1 DEF TypeOK
    <2>3. CallsOK' /\ ForksOK'
      BY <2>1 DEF TypeOK, CallsOK, ForksOK, Quiet, Fresh, Reading, Writing
    <2>4. RefsOK' /\ KindsOK' /\ ReadersOK' /\ WritersOK' /\ PagesOK' /\ RingOK'
      BY <2>1, TableFrame, EndsFrame, RingFrame
    <2>5. InodesOK'
      BY <2>1, InodesFrame DEF TypeOK
    <2>6. FreshOK'
      BY <2>1, FreshFrame DEF TypeOK, Fresh
    <2>7. OnOK'
      BY <2>1, OnFrame DEF TypeOK, Reading, Writing
    <2> QED BY <2>2, <2>3, <2>4, <2>5, <2>6, <2>7
  <1>2. CASE Free # {}
    <2> DEFINE f == First(Free)
               n == Len(held[p]) + 1
    <2>1. /\ pc[p] = "pipealloc" /\ Len(held[p]) < 2
          /\ ref' = [ref EXCEPT ![f] = 1] /\ held' = [held EXCEPT ![p] = Append(@, f)]
          /\ UNCHANGED <<pc, type, writable, page, ofile, pipe, iref, io, ff, child, killed>>
      BY <1>2 DEF FileAlloc
    <2>2. /\ f \in FileIds /\ ref[f] = 0 /\ type[f] = "NONE"
          /\ \A q \in Procs, fd \in Fds : ofile[q][fd] # f
          /\ \A q \in Procs : \A i \in 1 .. Len(held[q]) : held[q][i] # f
      BY <1>2, FreeFile
    <2> HIDE DEF f
    <2>3. /\ held[p] \in Seq(FileIds) /\ Len(held[p]) \in Nat /\ held \in [Procs -> Seq(FileIds)]
      BY DEF IInv, TypeOK
    <2>4. /\ held'[p] = Append(held[p], f) /\ Append(held[p], f) \in Seq(FileIds)
          /\ Len(Append(held[p], f)) = n /\ Append(held[p], f)[n] = f
          /\ \A i \in 1 .. Len(held[p]) : Append(held[p], f)[i] = held[p][i]
          /\ \A q \in Procs \ {p} : held'[q] = held[q]
      BY <2>1, <2>2, <2>3, AppendProperties
    <2> USE DEF IInv, pipe, io
    <2>5. TypeOK'
      BY <2>1, <2>2, <2>4 DEF TypeOK
    <2>6. CallsOK' /\ ForksOK'
      <3>1. Len(held'[p]) <= 2
        BY <2>1, <2>3, <2>4
      <3> QED BY <2>1, <2>4, <3>1 DEF CallsOK, ForksOK, Quiet, Fresh, Reading, Writing
    <2>7. RefsOK'
      <3> SUFFICES ASSUME NEW a \in FileIds
                   PROVE  ref'[a] = Cardinality(Descriptors(a))' + Cardinality(Locals(a))'
        BY DEF RefsOK
      <3>1. Cardinality(Locals(a))' = Cardinality(Locals(a)) + (IF a = f THEN 1 ELSE 0)
        BY <2>1, <2>2, Take
      <3>2. Cardinality(Descriptors(a))' = Cardinality(Descriptors(a))
        BY <2>1 DEF Descriptors
      <3>3. ref'[a] = IF a = f THEN 1 ELSE ref[a]
        BY <2>1, <2>2 DEF TypeOK
      <3>4. ref[a] = Cardinality(Descriptors(a)) + Cardinality(Locals(a))
        BY DEF RefsOK
      <3> QED BY <2>2, <3>1, <3>2, <3>3, <3>4, HoldersFinite
    <2>8. KindsOK'
      BY <2>1, <2>2 DEF KindsOK, TypeOK
    <2>9. ReadersOK' /\ WritersOK' /\ PagesOK' /\ RingOK'
      BY <2>1, EndsFrame, RingFrame
    <2>10. InodesOK'
      BY <2>1, InodesFrame
    <2>11. OnOK'
      BY <2>1, OnFrame
    <2>12. FreshOK'
      <3>1. \A q \in Procs, fd \in Fds : Known(p, ofile'[q][fd])
        BY <2>1 DEF Known
      <3>2. \A j \in 1 .. n : j = n \/ j \in 1 .. Len(held[p])
        BY <2>3
      <3>3. \A j \in 1 .. Len(held'[p]) : Known(p, held'[p][j])
        BY <2>2, <2>4, <3>2 DEF Known
      <3>4. ASSUME NEW i \in 1 .. Len(held'[p])
            PROVE  type'[held'[p][i]] = "NONE" /\ Sole(p, i)'
        <4>1. CASE i = n
          BY <2>1, <2>2, <2>4, <3>2, <4>1 DEF Sole
        <4>2. CASE i # n
          <5>1. i \in 1 .. Len(held[p]) /\ held'[p][i] = held[p][i] /\ held[p][i] # f
            BY <2>2, <2>4, <3>2, <4>2
          <5>2. type[held[p][i]] = "NONE" /\ Sole(p, i)
            BY <2>1, <5>1 DEF FreshOK, Fresh
          <5> QED BY <2>1, <2>4, <3>2, <5>1, <5>2 DEF Sole
        <4> QED BY <4>1, <4>2
      <3> QED BY <2>1, <2>4, <3>1, <3>3, <3>4, FreshStep DEF FreshOK
    <2> QED BY <2>5, <2>6, <2>7, <2>8, <2>9, <2>10, <2>11, <2>12
  <1> QED BY <1>1, <1>2

\* sys_open finds no file.
LEMMA StepOpenNoFile == ASSUME IInv, NEW p \in Procs, OpenFile(p), Free = {} PROVE IInv'
  <1>1. /\ pc[p] = "open" /\ pc' = [pc EXCEPT ![p] = "closing"] /\ ff' = [ff EXCEPT ![p] = InodeFile]
        /\ UNCHANGED <<ref, type, ofile, held, writable, page, pipe, iref, io, child, killed>>
    BY DEF OpenFile, Goto
  <1> USE DEF IInv, pipe, io
  <1>2. ff[p] = NoFile /\ InodeFile.type = "INODE" /\ NoFile.type = "NONE" /\ InodeFile \in FileRecs
    BY <1>1 DEF CallsOK, Quiet, InodeFile, NoFile, FileRecs, Kinds, None
  <1>3. \A q \in Procs : ff'[q] = IF q = p THEN InodeFile ELSE ff[q]
    BY <1>1 DEF CallsOK
  <1>4. TypeOK'
    BY <1>1 DEF TypeOK
  <1>5. CallsOK' /\ ForksOK'
    BY <1>1, <1>2, <1>3 DEF TypeOK, CallsOK, ForksOK, Quiet, Fresh, Reading, Writing
  <1>6. RefsOK' /\ KindsOK' /\ RingOK'
    BY <1>1, TableFrame, RingFrame
  <1>7. ReadersOK' /\ WritersOK' /\ PagesOK'
    <2>1. \A q \in Procs : \A g : (ReadClose(q, g)' <=> ReadClose(q, g)) /\ (WriteClose(q, g)' <=> WriteClose(q, g))
      BY <1>2, <1>3 DEF ReadClose, WriteClose
    <2>2. \A f \in FileIds : \A g : (ReadEnd(f, g)' <=> ReadEnd(f, g)) /\ (WriteEnd(f, g)' <=> WriteEnd(f, g))
      BY <1>1 DEF ReadEnd, WriteEnd
    <2>3. ReadersOK'
      BY <1>1, <2>1, <2>2 DEF ReadersOK
    <2>4. WritersOK'
      BY <1>1, <2>1, <2>2 DEF WritersOK
    <2>5. PagesOK'
      BY <1>1, <1>2, <1>3 DEF PagesOK
    <2> QED BY <2>3, <2>4, <2>5
  <1>8. InodesOK'
    <2>1. Openers' = Openers \ {p} /\ p \in Openers
      BY <1>1 DEF Openers, TypeOK
    <2>2. HalfClosed("INODE")' = HalfClosed("INODE") \cup {p} /\ p \notin HalfClosed("INODE")
      BY <1>2, <1>3 DEF HalfClosed
    <2>3. Cardinality(Openers') = Cardinality(Openers) - 1
      BY <2>1, CardDrop, InodesFinite
    <2>4. Cardinality(HalfClosed("INODE")') = Cardinality(HalfClosed("INODE")) + 1
      BY <2>2, CardAdd, InodesFinite
    <2>5. Inodes' = Inodes
      BY <1>1 DEF Inodes
    <2> QED BY <1>1, <2>3, <2>4, <2>5, InodesFinite DEF InodesOK
  <1>9. FreshOK'
    BY <1>1, FreshFrame DEF TypeOK, Fresh
  <1>10. OnOK'
    BY <1>1, OnFrame DEF TypeOK, Reading, Writing
  <1> QED BY <1>4, <1>5, <1>6, <1>7, <1>8, <1>9, <1>10

\* sys_open finds a file and no descriptor.
LEMMA StepOpenNoFd ==
    ASSUME IInv, NEW p \in Procs, OpenFile(p), Free # {}, FreeFds(p) = {} PROVE IInv'
  <1> DEFINE f == First(Free)
  <1>1. /\ pc[p] = "open" /\ pc' = [pc EXCEPT ![p] = "open_bad"]
        /\ ref' = [ref EXCEPT ![f] = 1] /\ held' = [held EXCEPT ![p] = <<f>>]
        /\ UNCHANGED <<ff, type, ofile, writable, page, pipe, iref, io, child, killed>>
    BY DEF OpenFile, Goto
  <1>2. /\ f \in FileIds /\ ref[f] = 0 /\ type[f] = "NONE"
        /\ \A q \in Procs, fd \in Fds : ofile[q][fd] # f
        /\ \A q \in Procs : \A i \in 1 .. Len(held[q]) : held[q][i] # f
    BY FreeFile
  <1> HIDE DEF f
  <1> USE DEF IInv, pipe, io
  <1>3. /\ held[p] = <<>> /\ Append(held[p], f) = <<f>> /\ <<f>> \in Seq(FileIds)
        /\ Len(<<f>>) = 1 /\ <<f>>[1] = f /\ Len(held[p]) < 2
    <2>1. held[p] = <<>>
      BY <1>1 DEF CallsOK, Quiet
    <2>2. Append(<<>>, f) = <<f>> /\ <<f>> \in Seq(FileIds) /\ Len(<<f>>) = 1 /\ <<f>>[1] = f
      BY <1>2
    <2>3. Len(<<>>) = 0
      OBVIOUS
    <2> QED BY <2>1, <2>2, <2>3
  <1>4. held'[p] = <<f>> /\ \A q \in Procs \ {p} : held'[q] = held[q]
    BY <1>1 DEF TypeOK
  <1>5. TypeOK'
    BY <1>1, <1>2, <1>3 DEF TypeOK
  <1>6. CallsOK' /\ ForksOK'
    <2>1. Len(held'[p]) = 1
      BY <1>3, <1>4
    <2> QED BY <1>1, <1>4, <2>1 DEF TypeOK, CallsOK, ForksOK, Quiet, Fresh, Reading, Writing
  <1>7. RefsOK'
    <2> SUFFICES ASSUME NEW a \in FileIds
                 PROVE  ref'[a] = Cardinality(Descriptors(a))' + Cardinality(Locals(a))'
      BY DEF RefsOK
    <2>1. Cardinality(Locals(a))' = Cardinality(Locals(a)) + (IF a = f THEN 1 ELSE 0)
      <3>1. held' = [held EXCEPT ![p] = Append(@, f)]
        BY <1>1, <1>3
      <3> QED BY <1>2, <1>3, <3>1, Take
    <2>2. Cardinality(Descriptors(a))' = Cardinality(Descriptors(a))
      BY <1>1 DEF Descriptors
    <2>3. ref'[a] = IF a = f THEN 1 ELSE ref[a]
      BY <1>1, <1>2 DEF TypeOK
    <2>4. ref[a] = Cardinality(Descriptors(a)) + Cardinality(Locals(a))
      BY DEF RefsOK
    <2> QED BY <1>2, <2>1, <2>2, <2>3, <2>4, HoldersFinite
  <1>8. KindsOK'
    BY <1>1, <1>2 DEF KindsOK, TypeOK
  <1>9. ReadersOK' /\ WritersOK' /\ PagesOK' /\ RingOK'
    BY <1>1, EndsFrame, RingFrame
  <1>10. InodesOK'
    BY <1>1, InodesFrame DEF TypeOK
  <1>11. OnOK'
    BY <1>1, OnFrame DEF TypeOK, Reading, Writing
  <1>12. FreshOK'
    <2>1. \A q \in Procs, fd \in Fds : Known(p, ofile'[q][fd])
      BY <1>1 DEF Known
    <2>2. \A j \in 1 .. Len(held'[p]) : j = 1 /\ held'[p][j] = f
      BY <1>3, <1>4
    <2>3. \A j \in 1 .. Len(held'[p]) : Known(p, held'[p][j])
      BY <1>2, <2>2 DEF Known
    <2>4. ASSUME NEW i \in 1 .. Len(held'[p])
          PROVE  type'[held'[p][i]] = "NONE" /\ Sole(p, i)'
      BY <1>1, <1>2, <1>4, <2>2 DEF Sole
    <2>5. \A q \in Procs \ {p} : pc'[q] \in Fresh => pc[q] \in Fresh
      BY <1>1 DEF TypeOK
    <2> QED BY <1>1, <1>4, <2>1, <2>3, <2>4, <2>5, FreshStep DEF FreshOK
  <1> QED BY <1>5, <1>6, <1>7, <1>8, <1>9, <1>10, <1>11, <1>12

\* sys_open succeeds.
LEMMA StepOpened ==
    ASSUME IInv, NEW p \in Procs, OpenFile(p), Free # {}, FreeFds(p) # {} PROVE IInv'
  <1> DEFINE f == First(Free)
             fd == First(FreeFds(p))
  <1>1. /\ pc[p] = "open" /\ pc' = [pc EXCEPT ![p] = "user"]
        /\ ref' = [ref EXCEPT ![f] = 1] /\ type' = [type EXCEPT ![f] = "INODE"]
        /\ ofile' = [ofile EXCEPT ![p][fd] = f]
        /\ UNCHANGED <<ff, held, writable, page, pipe, iref, io, child, killed>>
    BY DEF OpenFile, Goto
  <1>2. /\ f \in FileIds /\ ref[f] = 0 /\ type[f] = "NONE"
        /\ \A q \in Procs, d \in Fds : ofile[q][d] # f
        /\ \A q \in Procs : \A i \in 1 .. Len(held[q]) : held[q][i] # f
    BY FreeFile
  <1>3. fd \in Fds /\ ofile[p][fd] = None
    BY FreeFd
  <1> HIDE DEF f, fd
  <1> USE DEF IInv, pipe, io
  <1>4. \A q \in Procs, d \in Fds : ofile'[q][d] = IF q = p /\ d = fd THEN f ELSE ofile[q][d]
    BY <1>1, <1>3 DEF TypeOK
  <1>5. \A a \in FileIds : /\ ref'[a] = IF a = f THEN 1 ELSE ref[a]
                           /\ type'[a] = IF a = f THEN "INODE" ELSE type[a]
    BY <1>1, <1>2 DEF TypeOK
  <1>6. TypeOK'
    BY <1>1, <1>2, <1>3 DEF TypeOK
  <1>7. CallsOK' /\ ForksOK'
    BY <1>1 DEF TypeOK, CallsOK, ForksOK, Quiet, Fresh, Reading, Writing
  <1>8. RefsOK'
    <2> SUFFICES ASSUME NEW a \in FileIds
                 PROVE  ref'[a] = Cardinality(Descriptors(a))' + Cardinality(Locals(a))'
      BY DEF RefsOK
    <2>1. Cardinality(Descriptors(a))' = Cardinality(Descriptors(a)) + (IF a = f THEN 1 ELSE 0)
      BY <1>1, <1>2, <1>3, Gain
    <2>2. Cardinality(Locals(a))' = Cardinality(Locals(a))
      BY <1>1 DEF Locals
    <2>3. ref[a] = Cardinality(Descriptors(a)) + Cardinality(Locals(a))
      BY DEF RefsOK
    <2> QED BY <1>2, <1>5, <2>1, <2>2, <2>3, HoldersFinite
  <1>9. KindsOK'
    <2>1. \A q \in Procs, d \in Fds : ofile[q][d] \in FileIds \cup {None}
      BY DEF TypeOK
    <2>2. \A q \in Procs, d \in Fds : ofile'[q][d] # None => type'[ofile'[q][d]] # "NONE"
      BY <1>2, <1>4, <1>5, <2>1 DEF KindsOK
    <2>3. \A a \in FileIds : ref'[a] = 0 => type'[a] = "NONE"
      BY <1>5 DEF KindsOK
    <2> QED BY <2>2, <2>3 DEF KindsOK
  <1>10. ReadersOK' /\ WritersOK' /\ PagesOK' /\ RingOK'
    <2>1. \A a \in FileIds : \A g : (ReadEnd(a, g)' <=> ReadEnd(a, g)) /\ (WriteEnd(a, g)' <=> WriteEnd(a, g))
      BY <1>1, <1>2, <1>5 DEF ReadEnd, WriteEnd
    <2>2. \A q \in Procs : \A g : (ReadClose(q, g)' <=> ReadClose(q, g)) /\ (WriteClose(q, g)' <=> WriteClose(q, g))
      BY <1>1 DEF ReadClose, WriteClose
    <2>3. ReadersOK'
      BY <1>1, <2>1, <2>2 DEF ReadersOK
    <2>4. WritersOK'
      BY <1>1, <2>1, <2>2 DEF WritersOK
    <2>5. PagesOK'
      BY <1>1, <1>5 DEF PagesOK
    <2> QED BY <1>1, <2>3, <2>4, <2>5, RingFrame
  <1>11. InodesOK'
    <2>1. Openers' = Openers \ {p} /\ p \in Openers
      BY <1>1 DEF Openers, TypeOK
    <2>2. Inodes' = Inodes \cup {f} /\ f \notin Inodes
      BY <1>2, <1>5 DEF Inodes
    <2>3. Cardinality(Openers') = Cardinality(Openers) - 1
      BY <2>1, CardDrop, InodesFinite
    <2>4. Cardinality(Inodes') = Cardinality(Inodes) + 1
      BY <2>2, CardAdd, InodesFinite
    <2>5. HalfClosed("INODE")' = HalfClosed("INODE")
      BY <1>1 DEF HalfClosed
    <2> QED BY <1>1, <2>3, <2>4, <2>5, InodesFinite DEF InodesOK
  <1>12. OnOK'
    <2>1. \A q \in Procs \ {p} : pc'[q] = pc[q] /\ on'[q] = on[q]
                                 /\ \A d \in Fds : ofile'[q][d] = ofile[q][d]
      BY <1>1, <1>4 DEF TypeOK
    <2>2. pc'[p] = "user"
      BY <1>1 DEF TypeOK
    <2>3. \A q \in Procs, d \in Fds :
              ofile[q][d] # None => type'[ofile[q][d]] = type[ofile[q][d]]
      BY <1>2, <1>5 DEF TypeOK
    <2> QED BY <1>1, <2>1, <2>2, <2>3, OnStep DEF Reading, Writing
  <1>13. FreshOK'
    <2>1. \A q \in Procs, d \in Fds : Known(p, ofile'[q][d])
      BY <1>2, <1>4 DEF Known
    <2>2. held'[p] = <<>>
      BY <1>1 DEF CallsOK, Quiet
    <2>3. \A q \in Procs : \A i \in 1 .. Len(held[q]) : type'[held[q][i]] = type[held[q][i]]
      BY <1>2, <1>5 DEF TypeOK
    <2>4. pc'[p] \notin Fresh /\ \A q \in Procs \ {p} : pc'[q] \in Fresh => pc[q] \in Fresh
      BY <1>1 DEF TypeOK, Fresh
    <2> QED BY <1>1, <2>1, <2>2, <2>3, <2>4, FreshStep DEF FreshOK
  <1> QED BY <1>6, <1>7, <1>8, <1>9, <1>10, <1>11, <1>12, <1>13

\* filedup, for dup and for a turn of fork's loop.
LEMMA DupStep ==
    ASSUME IInv, NEW p \in Procs, NEW d \in Fds, NEW v \in FileIds, ofile[p][d] = v,
           NEW q \in Procs, NEW fd \in Fds, ofile[q][fd] = None,
           ofile' = [ofile EXCEPT ![q][fd] = v], ref' = [ref EXCEPT ![v] = @ + 1],
           UNCHANGED <<type, writable, page, pipe, iref, pc, io, closes, child, killed>>
    PROVE  IInv'
  <1> USE DEF IInv, pipe, io, closes
  <1>1. \A r \in Procs, a \in Fds : ofile'[r][a] = IF r = q /\ a = fd THEN v ELSE ofile[r][a]
    BY DEF TypeOK
  <1>2. \A a \in FileIds : ref'[a] = IF a = v THEN ref[a] + 1 ELSE ref[a]
    BY DEF TypeOK
  <1>3. TypeOK'
    BY DEF TypeOK
  <1>4. CallsOK' /\ ForksOK'
    BY DEF CallsOK, ForksOK
  <1>5. RefsOK'
    <2> SUFFICES ASSUME NEW a \in FileIds
                 PROVE  ref'[a] = Cardinality(Descriptors(a))' + Cardinality(Locals(a))'
      BY DEF RefsOK
    <2>1. Cardinality(Descriptors(a))' = Cardinality(Descriptors(a)) + (IF a = v THEN 1 ELSE 0)
      BY Gain
    <2>2. Cardinality(Locals(a))' = Cardinality(Locals(a))
      BY DEF Locals
    <2>3. ref[a] = Cardinality(Descriptors(a)) + Cardinality(Locals(a))
      BY DEF RefsOK
    <2> QED BY <1>2, <2>1, <2>2, <2>3, HoldersFinite
  <1>6. KindsOK'
    <2>1. type[v] # "NONE"
      BY DEF KindsOK, FileIds, None
    <2>2. \A r \in Procs, a \in Fds : ofile'[r][a] # None => type'[ofile'[r][a]] # "NONE"
      BY <1>1, <2>1 DEF KindsOK
    <2>3. \A a \in FileIds : ref'[a] = 0 => type'[a] = "NONE"
      BY <1>2, <1>3, <2>1 DEF KindsOK, TypeOK
    <2> QED BY <2>2, <2>3 DEF KindsOK
  <1>7. ReadersOK' /\ WritersOK' /\ PagesOK' /\ RingOK'
    BY EndsFrame, RingFrame
  <1>8. InodesOK'
    BY InodesFrame
  <1>9. OnOK'
    BY <1>1, OnStep
  <1>10. FreshOK'
    <2>1. \A r \in Procs, a \in Fds : Known(p, ofile'[r][a])
      BY <1>1 DEF Known
    <2>2. \A j \in 1 .. Len(held'[p]) : Known(p, held'[p][j])
      BY DEF Known
    <2>3. ASSUME pc[p] \in Fresh, NEW i \in 1 .. Len(held[p])
          PROVE  type[held[p][i]] = "NONE" /\ Sole(p, i)'
      <3>1. type[held[p][i]] = "NONE" /\ Sole(p, i)
        BY <2>3 DEF FreshOK
      <3> QED BY <1>1, <3>1 DEF Sole
    <2> QED BY <2>1, <2>2, <2>3, FreshStep DEF FreshOK
  <1> QED BY <1>3, <1>4, <1>5, <1>6, <1>7, <1>8, <1>9, <1>10

LEMMA StepSysDup == ASSUME IInv, NEW p \in Procs, NEW fd \in Fds, SysDup(p, fd) PROVE IInv'
  <1>1. ofile[p][fd] \in FileIds
    BY DEF SysDup, IInv, TypeOK
  <1>2. First(FreeFds(p)) \in Fds /\ ofile[p][First(FreeFds(p))] = None
    BY FreeFd DEF SysDup
  <1> QED BY <1>1, <1>2, DupStep DEF SysDup

LEMMA StepForkDup == ASSUME IInv, NEW p \in Procs, ForkDup(p) PROVE IInv'
  <1>1. child[p] \in Procs
    BY DEF ForkDup, IInv, ForksOK
  <1>2. ToDup(p) \in SUBSET Nat /\ ToDup(p) # {}
    BY DEF ForkDup, ToDup, Fds
  <1>3. First(ToDup(p)) \in ToDup(p)
    BY <1>2, FirstIn
  <1> DEFINE fd == First(ToDup(p))
  <1>4. fd \in Fds /\ ofile[p][fd] # None /\ ofile[child[p]][fd] = None
    BY <1>3 DEF ToDup
  <1>5. ofile[p][fd] \in FileIds
    BY <1>4 DEF IInv, TypeOK
  <1>6. /\ ofile' = [ofile EXCEPT ![child[p]][fd] = ofile[p][fd]]
        /\ ref' = [ref EXCEPT ![ofile[p][fd]] = @ + 1]
        /\ UNCHANGED <<type, writable, page, pipe, iref, pc, io, closes, child, killed>>
    BY DEF ForkDup, Dup
  <1> HIDE DEF fd
  <1> QED BY <1>1, <1>4, <1>5, <1>6, DupStep

LEMMA StepSysClose == ASSUME IInv, NEW p \in Procs, NEW fd \in Fds, SysClose(p, fd) PROVE IInv'
  <1> DEFINE f == ofile[p][fd]
  <1>1. /\ pc[p] = "user" /\ f # None /\ ofile' = [ofile EXCEPT ![p][fd] = None]
        /\ held' = [held EXCEPT ![p] = <<f>>] /\ pc' = [pc EXCEPT ![p] = "closing"]
        /\ UNCHANGED <<ftable, pipe, iref, io, ff, child, killed>>
    BY DEF SysClose, Calling, Goto
  <1> USE DEF IInv, pipe, io, ftable
  <1>2. f \in FileIds
    BY <1>1 DEF TypeOK
  <1>3. \A q \in Procs, d \in Fds : ofile'[q][d] = IF q = p /\ d = fd THEN None ELSE ofile[q][d]
    BY <1>1 DEF TypeOK
  <1>4. /\ held[p] = <<>> /\ Append(held[p], f) = <<f>> /\ <<f>> \in Seq(FileIds)
        /\ Len(<<f>>) = 1 /\ <<f>>[1] = f /\ Len(held[p]) < 2
    <2>1. held[p] = <<>>
      BY <1>1 DEF CallsOK, Quiet
    <2> HIDE DEF f
    <2>2. Append(<<>>, f) = <<f>> /\ <<f>> \in Seq(FileIds) /\ Len(<<f>>) = 1 /\ <<f>>[1] = f
      BY <1>2
    <2>3. Len(<<>>) = 0
      OBVIOUS
    <2> QED BY <2>1, <2>2, <2>3
  <1>5. held'[p] = <<f>> /\ \A q \in Procs \ {p} : held'[q] = held[q]
    BY <1>1 DEF TypeOK
  <1>6. TypeOK'
    BY <1>1, <1>2, <1>4 DEF TypeOK
  <1>7. CallsOK' /\ ForksOK'
    <2>1. Len(held'[p]) = 1
      BY <1>4, <1>5
    <2> QED BY <1>1, <1>5, <2>1 DEF TypeOK, CallsOK, ForksOK, Quiet, Fresh, Reading, Writing
  <1>8. RefsOK'
    <2> SUFFICES ASSUME NEW a \in FileIds
                 PROVE  ref'[a] = Cardinality(Descriptors(a))' + Cardinality(Locals(a))'
      BY DEF RefsOK
    <2>1. Cardinality(Descriptors(a))' = Cardinality(Descriptors(a)) - (IF a = f THEN 1 ELSE 0)
      BY <1>1, Lose
    <2>2. Cardinality(Locals(a))' = Cardinality(Locals(a)) + (IF a = f THEN 1 ELSE 0)
      <3>1. held' = [held EXCEPT ![p] = Append(@, f)]
        BY <1>1, <1>4
      <3> HIDE DEF f
      <3> QED BY <1>2, <1>4, <3>1, Take
    <2>3. ref[a] = Cardinality(Descriptors(a)) + Cardinality(Locals(a))
      BY DEF RefsOK
    <2> QED BY <1>1, <2>1, <2>2, <2>3, HoldersFinite
  <1>9. KindsOK'
    BY <1>1, <1>3 DEF KindsOK
  <1>10. ReadersOK' /\ WritersOK' /\ PagesOK' /\ RingOK'
    BY <1>1, EndsFrame, RingFrame
  <1>11. InodesOK'
    BY <1>1, InodesFrame DEF TypeOK
  <1>12. OnOK'
    <2>1. pc'[p] = "closing" /\ \A q \in Procs \ {p} : pc'[q] = pc[q]
      BY <1>1 DEF TypeOK
    <2> QED BY <1>1, <1>3, <2>1, OnStep DEF Reading, Writing
  <1>13. FreshOK'
    <2>1. \A q \in Procs, d \in Fds : Known(p, ofile'[q][d])
      BY <1>3 DEF Known, None, FileIds
    <2>2. \A j \in 1 .. Len(held'[p]) : held'[p][j] = f
      BY <1>4, <1>5
    <2>3. \A j \in 1 .. Len(held'[p]) : Known(p, held'[p][j])
      BY <2>2 DEF Known
    <2>4. pc'[p] \notin Fresh /\ \A q \in Procs \ {p} : pc'[q] \in Fresh => pc[q] \in Fresh
      BY <1>1 DEF TypeOK, Fresh
    <2> QED BY <1>1, <1>5, <2>1, <2>3, <2>4, FreshStep DEF FreshOK
  <1> QED BY <1>6, <1>7, <1>8, <1>9, <1>10, <1>11, <1>12, <1>13

-----------------------------------------------------------------------------
(***************************************************************************)
(* Closing a file.                                                         *)
(***************************************************************************)

\* The first half of fileclose on the table.
LEMMA PutTable ==
    ASSUME IInv, NEW f \in FileIds, ref[f] >= 1, PutFile(f)
    PROVE  /\ ref' \in [FileIds -> Nat] /\ type' \in [FileIds -> Kinds]
           /\ writable' \in [FileIds -> BOOLEAN] /\ page' \in [FileIds -> Pages \cup {None}]
           /\ \A a \in FileIds : ref'[a] = IF a = f THEN ref[f] - 1 ELSE ref[a]
           /\ \A a \in FileIds : a # f \/ ref[f] # 1 =>
                 type'[a] = type[a] /\ writable'[a] = writable[a] /\ page'[a] = page[a]
           /\ ref[f] = 1 => type'[f] = "NONE"
  <1>1. /\ ref \in [FileIds -> Nat] /\ type \in [FileIds -> Kinds]
        /\ writable \in [FileIds -> BOOLEAN] /\ page \in [FileIds -> Pages \cup {None}]
    BY DEF IInv, TypeOK, Kinds
  <1>2. ref' = [ref EXCEPT ![f] = @ - 1]
    BY DEF PutFile
  <1>3. CASE ref[f] = 1
    <2>1. /\ type' = [type EXCEPT ![f] = "NONE"] /\ writable' = [writable EXCEPT ![f] = FALSE]
          /\ page' = [page EXCEPT ![f] = None]
      BY <1>3 DEF PutFile, LastRef
    <2> QED BY <1>1, <1>2, <1>3, <2>1 DEF Kinds
  <1>4. CASE ref[f] # 1
    <2>1. type' = type /\ page' = page
      BY <1>1, <1>4 DEF PutFile, LastRef
    <2>2. writable' = writable
      <3>1. writable' = [writable EXCEPT ![f] = writable[f] /\ TRUE]
        BY <1>4 DEF PutFile, LastRef
      <3>2. writable[f] \in BOOLEAN
        BY <1>1
      <3>3. (writable[f] /\ TRUE) = writable[f]
        BY <3>2
      <3> QED BY <1>1, <3>1, <3>3
    <2> QED BY <1>1, <1>2, <1>4, <2>1, <2>2
  <1> QED BY <1>3, <1>4

\* What fileclose copied stands for the end the file stood for.
LEMMA PutEnds ==
    ASSUME IInv, NEW p \in Procs, ff[p] = NoFile, NEW f \in FileIds, ref[f] >= 1, PutFile(f),
           NEW c, c = Copy(f) \/ (type[f] = "NONE" /\ c = InodeFile),
           ff' = [ff EXCEPT ![p] = c], UNCHANGED <<pages, readopen, writeopen>>
    PROVE  /\ ReadersOK' /\ WritersOK' /\ PagesOK'
           /\ ff' \in [Procs -> FileRecs] /\ (c.type = "NONE" => c = NoFile)
  <1> USE DEF IInv
  <1>1. /\ \A a \in FileIds : a # f \/ ref[f] # 1 =>
              type'[a] = type[a] /\ writable'[a] = writable[a] /\ page'[a] = page[a]
        /\ ref[f] = 1 => type'[f] = "NONE"
    BY PutTable
  <1>2. /\ type[f] \in Kinds /\ writable[f] \in BOOLEAN /\ page[f] \in Pages \cup {None}
    BY DEF TypeOK, Kinds
  <1>3. /\ c \in FileRecs /\ (c.type = "NONE" => c = NoFile)
        /\ c.type = "PIPE" => ref[f] = 1 /\ type[f] = "PIPE" /\ c.writable = writable[f] /\ c.page = page[f]
        /\ ref[f] = 1 /\ type[f] = "PIPE" => c.type = "PIPE"
    <2>1. CASE c = Copy(f) /\ ref[f] = 1 /\ type[f] # "NONE"
      <3>1. c = [type |-> type[f], writable |-> writable[f], page |-> page[f]]
        BY <2>1 DEF Copy, LastRef
      <3> QED BY <1>2, <2>1, <3>1 DEF FileRecs
    <2>2. CASE c = Copy(f) /\ ~(ref[f] = 1 /\ type[f] # "NONE")
      <3>1. c = NoFile
        BY <2>2 DEF Copy, LastRef
      <3> QED BY <2>2, <3>1 DEF NoFile, FileRecs, Kinds
    <2>3. CASE type[f] = "NONE" /\ c = InodeFile
      BY <2>3 DEF InodeFile, FileRecs, Kinds
    <2> QED BY <2>1, <2>2, <2>3
  <1>4. ff' \in [Procs -> FileRecs] /\ \A q \in Procs : ff'[q] = IF q = p THEN c ELSE ff[q]
    BY <1>3 DEF CallsOK
  <1>5. NoFile.type = "NONE"
    BY DEF NoFile
  <1> DEFINE moved == ref[f] = 1 /\ type[f] = "PIPE"
  <1>6. /\ \A a \in FileIds : \A g : /\ ReadEnd(a, g)' <=> ReadEnd(a, g) /\ ~(moved /\ a = f)
                                     /\ WriteEnd(a, g)' <=> WriteEnd(a, g) /\ ~(moved /\ a = f)
    BY <1>1 DEF ReadEnd, WriteEnd
  <1>7. \A q \in Procs : \A g :
            /\ ReadClose(q, g)' <=> ReadClose(q, g) \/ (moved /\ q = p /\ ReadEnd(f, g))
            /\ WriteClose(q, g)' <=> WriteClose(q, g) \/ (moved /\ q = p /\ WriteEnd(f, g))
    BY <1>2, <1>3, <1>4, <1>5 DEF ReadClose, WriteClose, ReadEnd, WriteEnd
  <1>8. \A g : ~ReadClose(p, g) /\ ~WriteClose(p, g)
    BY <1>5 DEF ReadClose, WriteClose
  <1>9. PagesOK'
    BY <1>1, <1>3, <1>4 DEF PagesOK
  <1> HIDE DEF moved
  <1>10. ReadersOK'
    <2> SUFFICES ASSUME NEW g \in Pages
                 PROVE  /\ readopen[g] <=> \/ \E a \in FileIds : ReadEnd(a, g)'
                                           \/ \E q \in Procs : ReadClose(q, g)'
                        /\ \A a, b \in FileIds : ReadEnd(a, g)' /\ ReadEnd(b, g)' => a = b
                        /\ \A r, q \in Procs : ReadClose(r, g)' /\ ReadClose(q, g)' => r = q
                        /\ \A a \in FileIds, q \in Procs : ~(ReadEnd(a, g)' /\ ReadClose(q, g)')
      BY DEF ReadersOK
    <2>1. /\ readopen[g] <=> (\E a \in FileIds : ReadEnd(a, g)) \/ (\E q \in Procs : ReadClose(q, g))
          /\ \A a, b \in FileIds : ReadEnd(a, g) /\ ReadEnd(b, g) => a = b
          /\ \A r, q \in Procs : ReadClose(r, g) /\ ReadClose(q, g) => r = q
          /\ \A a \in FileIds, q \in Procs : ~(ReadEnd(a, g) /\ ReadClose(q, g))
      BY DEF ReadersOK
    <2> QED BY <1>6, <1>7, <1>8, <2>1
  <1>11. WritersOK'
    <2> SUFFICES ASSUME NEW g \in Pages
                 PROVE  /\ writeopen[g] <=> \/ \E a \in FileIds : WriteEnd(a, g)'
                                            \/ \E q \in Procs : WriteClose(q, g)'
                        /\ \A a, b \in FileIds : WriteEnd(a, g)' /\ WriteEnd(b, g)' => a = b
                        /\ \A r, q \in Procs : WriteClose(r, g)' /\ WriteClose(q, g)' => r = q
                        /\ \A a \in FileIds, q \in Procs : ~(WriteEnd(a, g)' /\ WriteClose(q, g)')
      BY DEF WritersOK
    <2>1. /\ writeopen[g] <=> (\E a \in FileIds : WriteEnd(a, g)) \/ (\E q \in Procs : WriteClose(q, g))
          /\ \A a, b \in FileIds : WriteEnd(a, g) /\ WriteEnd(b, g) => a = b
          /\ \A r, q \in Procs : WriteClose(r, g) /\ WriteClose(q, g) => r = q
          /\ \A a \in FileIds, q \in Procs : ~(WriteEnd(a, g) /\ WriteClose(q, g))
      BY DEF WritersOK
    <2> QED BY <1>6, <1>7, <1>8, <2>1
  <1> QED BY <1>3, <1>4, <1>9, <1>10, <1>11

\* The reference to an inode moves from the file to what fileclose copied.
LEMMA PutInodes ==
    ASSUME IInv, NEW p \in Procs, ff[p] = NoFile, NEW f \in FileIds, ref[f] >= 1, PutFile(f),
           NEW c, ff' = [ff EXCEPT ![p] = c], iref' = iref,
           \/ c = Copy(f) /\ Openers' = Openers
           \/ type[f] = "NONE" /\ c = InodeFile /\ p \in Openers /\ Openers' = Openers \ {p}
    PROVE  InodesOK'
  <1> USE DEF IInv
  <1>1. /\ \A a \in FileIds : a # f \/ ref[f] # 1 => type'[a] = type[a]
        /\ ref[f] = 1 => type'[f] = "NONE"
    BY PutTable
  <1>2. \A q \in Procs : ff'[q] = IF q = p THEN c ELSE ff[q]
    BY DEF CallsOK
  <1>3. NoFile.type = "NONE" /\ InodeFile.type = "INODE"
    BY DEF NoFile, InodeFile
  <1>4. iref = Cardinality(Inodes) + Cardinality(HalfClosed("INODE")) + Cardinality(Openers)
    BY DEF InodesOK
  <1>5. CASE c = Copy(f) /\ Openers' = Openers /\ ref[f] = 1 /\ type[f] = "INODE"
    <2>1. c.type = "INODE"
      BY <1>5 DEF Copy, LastRef
    <2>2. Inodes' = Inodes \ {f} /\ f \in Inodes
      BY <1>1, <1>5 DEF Inodes
    <2>3. HalfClosed("INODE")' = HalfClosed("INODE") \cup {p} /\ p \notin HalfClosed("INODE")
      BY <1>2, <1>3, <2>1 DEF HalfClosed
    <2>4. Cardinality(Inodes') = Cardinality(Inodes) - 1
      BY <2>2, CardDrop, InodesFinite
    <2>5. Cardinality(HalfClosed("INODE")') = Cardinality(HalfClosed("INODE")) + 1
      BY <2>3, CardAdd, InodesFinite
    <2> QED BY <1>4, <1>5, <2>4, <2>5, InodesFinite DEF InodesOK
  <1>6. CASE c = Copy(f) /\ Openers' = Openers /\ ~(ref[f] = 1 /\ type[f] = "INODE")
    <2>1. c.type # "INODE"
      <3>1. CASE ref[f] = 1 /\ type[f] # "NONE"
        <4>1. c = [type |-> type[f], writable |-> writable[f], page |-> page[f]]
          BY <1>6, <3>1 DEF Copy, LastRef
        <4> QED BY <1>6, <3>1, <4>1
      <3>2. CASE ~(ref[f] = 1 /\ type[f] # "NONE")
        BY <1>3, <1>6, <3>2 DEF Copy, LastRef
      <3> QED BY <3>1, <3>2
    <2>2. Inodes' = Inodes
      BY <1>1, <1>6 DEF Inodes
    <2>3. HalfClosed("INODE")' = HalfClosed("INODE")
      BY <1>2, <1>3, <2>1 DEF HalfClosed
    <2> QED BY <1>4, <1>6, <2>2, <2>3 DEF InodesOK
  <1>7. CASE type[f] = "NONE" /\ c = InodeFile /\ p \in Openers /\ Openers' = Openers \ {p}
    <2>1. Inodes' = Inodes
      BY <1>1, <1>7 DEF Inodes
    <2>2. HalfClosed("INODE")' = HalfClosed("INODE") \cup {p} /\ p \notin HalfClosed("INODE")
      BY <1>2, <1>3, <1>7 DEF HalfClosed
    <2>3. Cardinality(HalfClosed("INODE")') = Cardinality(HalfClosed("INODE")) + 1
      BY <2>2, CardAdd, InodesFinite
    <2>4. Cardinality(Openers') = Cardinality(Openers) - 1
      BY <1>7, CardDrop, InodesFinite
    <2> QED BY <1>4, <2>1, <2>3, <2>4, InodesFinite DEF InodesOK
  <1> QED BY <1>5, <1>6, <1>7

\* A file that loses its type has lost its last descriptor.
LEMMA PutKinds ==
    ASSUME IInv, NEW f \in FileIds, ref[f] >= 1, PutFile(f),
           \A q \in Procs, d \in Fds : ofile'[q][d] # None => ofile'[q][d] = ofile[q][d],
           ref[f] = 1 => \A q \in Procs, d \in Fds : ofile'[q][d] # f
    PROVE  KindsOK'
  <1>1. /\ \A a \in FileIds : ref'[a] = IF a = f THEN ref[f] - 1 ELSE ref[a]
        /\ \A a \in FileIds : a # f \/ ref[f] # 1 => type'[a] = type[a]
        /\ ref[f] = 1 => type'[f] = "NONE"
    BY PutTable
  <1>2. ref[f] \in Nat /\ \A q \in Procs, d \in Fds : ofile[q][d] \in FileIds \cup {None}
    BY DEF IInv, TypeOK
  <1>3. \A a \in FileIds : ref'[a] = 0 => type'[a] = "NONE"
    <2> SUFFICES ASSUME NEW a \in FileIds, ref'[a] = 0 PROVE type'[a] = "NONE"
      OBVIOUS
    <2>1. CASE a = f
      BY <1>1, <1>2, <2>1
    <2>2. CASE a # f
      BY <1>1, <2>2 DEF IInv, KindsOK
    <2> QED BY <2>1, <2>2
  <1>4. \A q \in Procs, d \in Fds : ofile'[q][d] # None => type'[ofile'[q][d]] # "NONE"
    BY <1>1, <1>2 DEF IInv, KindsOK
  <1> QED BY <1>3, <1>4 DEF KindsOK

LEMMA StepFileClose == ASSUME IInv, NEW p \in Procs, FileClose(p) PROVE IInv'
  <1> DEFINE f == Head(held[p])
             T == Tail(held[p])
             c == IF pc[p] = "open_bad" THEN InodeFile ELSE Copy(f)
  <1>1. /\ pc[p] \in {"closing", "open_bad"} /\ ff[p] = NoFile /\ held[p] # <<>> /\ PutFile(f)
        /\ held' = [held EXCEPT ![p] = T] /\ ff' = [ff EXCEPT ![p] = c]
        /\ pc' = [pc EXCEPT ![p] = AfterClose(p, T, c)]
        /\ UNCHANGED <<ofile, pipe, iref, io, child, killed>>
    BY DEF FileClose, Closed, Goto
  <1> USE DEF IInv, pipe, io
  <1>2. /\ Len(held[p]) \in 1 .. 2 /\ Len(T) = Len(held[p]) - 1 /\ f = held[p][1]
        /\ Len(held[p]) = 2 => T[1] = held[p][2]
        /\ T \in Seq(FileIds) /\ f \in FileIds
    <2>1. held[p] \in Seq(FileIds) /\ Len(held[p]) <= 2
      BY DEF TypeOK, CallsOK
    <2>2. /\ Len(held[p]) \in 1 .. 2 /\ Len(T) = Len(held[p]) - 1 /\ f = held[p][1]
          /\ Len(held[p]) = 2 => T[1] = held[p][2]
          /\ T \in Seq(FileIds)
      BY <1>1, <2>1, ShortTail
    <2>3. held[p][1] \in FileIds
      BY <2>1, <2>2
    <2> QED BY <2>2, <2>3
  <1>3. 1 \in 1 .. Len(held[p])
    BY <1>2
  <1>4. ref[f] >= 1 /\ (ref[f] = 1 => \A q \in Procs, d \in Fds : ofile[q][d] # f)
    <2> HIDE DEF f
    <2> QED BY <1>2, <1>3, Held
  <1>5. pc[p] = "open_bad" => type[f] = "NONE"
    BY <1>2, <1>3 DEF FreshOK, Fresh
  <1>6. c = Copy(f) \/ (type[f] = "NONE" /\ c = InodeFile)
    BY <1>5
  <1>7. InodeFile # NoFile
    <2>1. InodeFile.type = "INODE" /\ NoFile.type = "NONE"
      BY DEF InodeFile, NoFile
    <2> QED BY <2>1
  <1>8. pc'[p] = (IF T # <<>> \/ c # NoFile THEN "closing" ELSE "user")
    <2> HIDE DEF T, c
    <2>1. AfterClose(p, T, c) = (IF T # <<>> \/ c # NoFile THEN "closing" ELSE "user")
      BY <1>1 DEF AfterClose
    <2> QED BY <1>1, <2>1 DEF TypeOK
  <1>9. \A q \in Procs \ {p} : pc'[q] = pc[q] /\ held'[q] = held[q] /\ ff'[q] = ff[q]
    BY <1>1 DEF TypeOK, CallsOK
  <1>10. held'[p] = T /\ ff'[p] = c
    BY <1>1 DEF TypeOK, CallsOK
  <1>11. pc[p] = "open_bad" => pc'[p] = "closing"
    BY <1>7, <1>8
  <1> HIDE DEF f, T
  <1>12. /\ ReadersOK' /\ WritersOK' /\ PagesOK'
         /\ ff' \in [Procs -> FileRecs] /\ (c.type = "NONE" => c = NoFile)
    <2> HIDE DEF c
    <2> QED BY <1>1, <1>2, <1>4, <1>6, PutEnds
  <1>13. InodesOK'
    <2>1. CASE pc[p] = "open_bad"
      <3>1. p \in Openers /\ Openers' = Openers \ {p}
        BY <1>9, <1>11, <2>1 DEF Openers
      <3>2. c = InodeFile
        BY <2>1
      <3> HIDE DEF c
      <3> QED BY <1>1, <1>2, <1>4, <1>5, <2>1, <3>1, <3>2, PutInodes
    <2>2. CASE pc[p] # "open_bad"
      <3>1. pc[p] = "closing"
        BY <1>1, <2>2
      <3>2. pc'[p] \notin {"open", "open_bad"} /\ c = Copy(f)
        BY <1>8, <2>2
      <3> HIDE DEF c
      <3>3. Openers' = Openers
        BY <1>9, <3>1, <3>2 DEF Openers
      <3> QED BY <1>1, <1>2, <1>4, <3>2, <3>3, PutInodes
    <2> QED BY <2>1, <2>2
  <1> HIDE DEF c
  <1>14. KindsOK'
    BY <1>1, <1>2, <1>4, PutKinds
  <1>15. TypeOK'
    <2>1. /\ ref' \in [FileIds -> Nat] /\ type' \in [FileIds -> Kinds]
          /\ writable' \in [FileIds -> BOOLEAN] /\ page' \in [FileIds -> Pages \cup {None}]
      BY <1>1, <1>2, <1>4, PutTable
    <2>2. pc'[p] \in {"closing", "user"}
      BY <1>8
    <2>3. pc' = [pc EXCEPT ![p] = pc'[p]]
      BY <1>1 DEF TypeOK
    <2> QED BY <1>1, <1>2, <2>1, <2>2, <2>3 DEF TypeOK, Kinds
  <1>16. CallsOK' /\ ForksOK'
    <2>1. Len(held'[p]) <= 2
      <3>1. Len(held'[p]) = Len(held[p]) - 1 /\ Len(held[p]) \in 1 .. 2
        BY <1>2, <1>10
      <3>2. \A n \in 1 .. 2 : n - 1 <= 2
        OBVIOUS
      <3> QED BY <3>1, <3>2, Zenon
    <2>2. on[p] = None
      BY <1>1 DEF CallsOK, Reading, Writing
    <2>3. pc'[p] \in {"closing", "user"} /\ (pc'[p] = "user" => held'[p] = <<>> /\ ff'[p] = NoFile)
      BY <1>8, <1>10
    <2>4. CallsOK'
      BY <1>1, <1>9, <1>10, <1>12, <2>1, <2>2, <2>3 DEF CallsOK, Quiet, Fresh, Reading, Writing
    <2>5. ForksOK'
      BY <1>1, <1>9, <2>3 DEF ForksOK
    <2> QED BY <2>4, <2>5
  <1>17. RefsOK'
    <2> SUFFICES ASSUME NEW a \in FileIds
                 PROVE  ref'[a] = Cardinality(Descriptors(a))' + Cardinality(Locals(a))'
      BY DEF RefsOK
    <2>1. Cardinality(Locals(a))' = Cardinality(Locals(a)) - (IF a = f THEN 1 ELSE 0)
      BY <1>1, Give DEF f, T
    <2>2. Cardinality(Descriptors(a))' = Cardinality(Descriptors(a))
      BY <1>1 DEF Descriptors
    <2>3. ref[a] = Cardinality(Descriptors(a)) + Cardinality(Locals(a))
      BY DEF RefsOK
    <2>4. ref'[a] = IF a = f THEN ref[f] - 1 ELSE ref[a]
      BY <1>1, <1>2, <1>4, PutTable
    <2> QED BY <2>1, <2>2, <2>3, <2>4, HoldersFinite
  <1>18. RingOK'
    BY <1>1, RingFrame
  <1>19. OnOK'
    <2>1. \A q \in Procs, d \in Fds : ofile[q][d] # None =>
              /\ type'[ofile[q][d]] = type[ofile[q][d]] /\ page'[ofile[q][d]] = page[ofile[q][d]]
              /\ writable'[ofile[q][d]] = writable[ofile[q][d]]
      <3>1. \A q \in Procs, d \in Fds : ofile[q][d] \in FileIds \cup {None}
        BY DEF TypeOK
      <3> QED BY <1>1, <1>2, <1>4, <3>1, PutTable
    <2>2. pc'[p] \notin Reading \cup Writing
      BY <1>8 DEF Reading, Writing
    <2> QED BY <1>1, <1>9, <2>1, <2>2, OnStep
  <1>20. FreshOK'
    <2>1. \A q \in Procs, d \in Fds : Known(p, ofile'[q][d])
      BY <1>1 DEF Known
    <2>2. \A j \in 1 .. Len(held'[p]) : 2 \in 1 .. Len(held[p]) /\ held'[p][j] = held[p][2]
      <3>1. Len(held'[p]) = Len(held[p]) - 1 /\ Len(held[p]) \in 1 .. 2
        BY <1>2, <1>10
      <3>2. \A j \in 1 .. Len(held'[p]) : Len(held[p]) = 2 /\ j = 1
        <4>1. \A n \in 1 .. 2 : \A j \in 1 .. n - 1 : n = 2 /\ j = 1
          OBVIOUS
        <4> QED BY <3>1, <4>1, Zenon
      <3>3. Len(held[p]) = 2 => held'[p][1] = held[p][2]
        BY <1>2, <1>10
      <3> QED BY <3>2, <3>3
    <2>3. \A j \in 1 .. Len(held'[p]) : Known(p, held'[p][j])
      BY <2>2 DEF Known
    <2>4. pc'[p] \notin Fresh
      BY <1>8 DEF Fresh
    <2>5. \A q \in Procs \ {p} : pc[q] \in Fresh => \A i \in 1 .. Len(held[q]) : type'[held[q][i]] = "NONE"
      <3>1. \A q \in Procs : \A i \in 1 .. Len(held[q]) : held[q][i] \in FileIds
        BY DEF TypeOK
      <3>2. /\ \A a \in FileIds : a # f \/ ref[f] # 1 => type'[a] = type[a]
            /\ ref[f] = 1 => type'[f] = "NONE"
        BY <1>1, <1>2, <1>4, PutTable
      <3> QED BY <3>1, <3>2 DEF FreshOK
    <2> QED BY <1>9, <2>1, <2>3, <2>4, <2>5, FreshStep
  <1> QED BY <1>12, <1>13, <1>14, <1>15, <1>16, <1>17, <1>18, <1>19, <1>20

\* A turn of exit's loop.
LEMMA StepExitClose == ASSUME IInv, NEW p \in Procs, ExitClose(p) PROVE IInv'
  <1> DEFINE fd == First(OpenFds(p))
             f == ofile[p][fd]
             c == Copy(f)
  <1>1. /\ pc[p] = "exiting" /\ ff[p] = NoFile /\ PutFile(f)
        /\ ofile' = [ofile EXCEPT ![p][fd] = None] /\ ff' = [ff EXCEPT ![p] = c]
        /\ UNCHANGED <<pipe, iref, pc, io, held, child, killed>>
    BY DEF ExitClose
  <1>2. fd \in Fds /\ f # None
    <2>1. OpenFds(p) \in SUBSET Nat /\ OpenFds(p) # {}
      BY DEF ExitClose, OpenFds, Fds
    <2>2. fd \in OpenFds(p)
      BY <2>1, FirstIn
    <2> QED BY <2>2 DEF OpenFds
  <1> HIDE DEF fd
  <1> USE DEF IInv, pipe, io
  <1>3. f \in FileIds
    BY <1>2 DEF TypeOK
  <1>4. ref[f] >= 1 /\ (ref[f] = 1 => \A q \in Procs, d \in Fds : ofile[q][d] = f => q = p /\ d = fd)
    BY <1>2, <1>3, Held
  <1>5. \A q \in Procs, d \in Fds : ofile'[q][d] = IF q = p /\ d = fd THEN None ELSE ofile[q][d]
    BY <1>1, <1>2 DEF TypeOK
  <1> HIDE DEF c
  <1>6. /\ ReadersOK' /\ WritersOK' /\ PagesOK'
        /\ ff' \in [Procs -> FileRecs] /\ (c.type = "NONE" => c = NoFile)
    BY <1>1, <1>3, <1>4, PutEnds DEF c
  <1>7. InodesOK'
    <2>1. Openers' = Openers
      BY <1>1 DEF Openers
    <2> QED BY <1>1, <1>3, <1>4, <2>1, PutInodes DEF c
  <1>8. /\ ref' \in [FileIds -> Nat] /\ type' \in [FileIds -> Kinds]
        /\ writable' \in [FileIds -> BOOLEAN] /\ page' \in [FileIds -> Pages \cup {None}]
        /\ \A a \in FileIds : ref'[a] = IF a = f THEN ref[f] - 1 ELSE ref[a]
        /\ \A a \in FileIds : a # f \/ ref[f] # 1 =>
              type'[a] = type[a] /\ writable'[a] = writable[a] /\ page'[a] = page[a]
        /\ ref[f] = 1 => type'[f] = "NONE"
    BY <1>1, <1>3, <1>4, PutTable
  <1>9. KindsOK'
    <2>1. \A q \in Procs, d \in Fds : ofile'[q][d] # None => ofile'[q][d] = ofile[q][d]
      BY <1>5
    <2>2. ref[f] = 1 => \A q \in Procs, d \in Fds : ofile'[q][d] # f
      BY <1>2, <1>4, <1>5
    <2> QED BY <1>1, <1>3, <1>4, <2>1, <2>2, PutKinds
  <1>10. TypeOK'
    BY <1>1, <1>2, <1>8 DEF TypeOK, Kinds
  <1>11. CallsOK' /\ ForksOK'
    <2>1. \A q \in Procs : ff'[q] = IF q = p THEN c ELSE ff[q]
      BY <1>1 DEF CallsOK
    <2> QED BY <1>1, <1>6, <2>1 DEF CallsOK, ForksOK, Quiet, Fresh, Reading, Writing
  <1>12. RefsOK'
    <2> SUFFICES ASSUME NEW a \in FileIds
                 PROVE  ref'[a] = Cardinality(Descriptors(a))' + Cardinality(Locals(a))'
      BY DEF RefsOK
    <2>1. Cardinality(Descriptors(a))' = Cardinality(Descriptors(a)) - (IF a = f THEN 1 ELSE 0)
      BY <1>1, <1>2, Lose
    <2>2. Cardinality(Locals(a))' = Cardinality(Locals(a))
      BY <1>1 DEF Locals
    <2>3. ref[a] = Cardinality(Descriptors(a)) + Cardinality(Locals(a))
      BY DEF RefsOK
    <2> QED BY <1>8, <2>1, <2>2, <2>3, HoldersFinite
  <1>13. RingOK'
    BY <1>1, RingFrame
  <1>14. OnOK'
    <2>1. \A q \in Procs \ {p}, d \in Fds : ofile[q][d] # None =>
              /\ ofile'[q][d] = ofile[q][d]
              /\ type'[ofile[q][d]] = type[ofile[q][d]] /\ page'[ofile[q][d]] = page[ofile[q][d]]
              /\ writable'[ofile[q][d]] = writable[ofile[q][d]]
      <3>1. \A q \in Procs, d \in Fds : ofile[q][d] \in FileIds \cup {None}
        BY DEF TypeOK
      <3> QED BY <1>4, <1>5, <1>8, <3>1
    <2>2. pc'[p] \notin Reading \cup Writing
      BY <1>1 DEF Reading, Writing
    <2> QED BY <1>1, <2>1, <2>2, OnStep
  <1>15. FreshOK'
    <2>1. \A q \in Procs, d \in Fds : Known(p, ofile'[q][d])
      BY <1>5 DEF Known, None, FileIds
    <2>2. \A j \in 1 .. Len(held'[p]) : Known(p, held'[p][j])
      BY <1>1 DEF Known
    <2>3. pc'[p] \notin Fresh
      BY <1>1 DEF Fresh
    <2>4. \A q \in Procs \ {p} : pc[q] \in Fresh => \A i \in 1 .. Len(held[q]) : type'[held[q][i]] = "NONE"
      <3>1. \A q \in Procs : \A i \in 1 .. Len(held[q]) : held[q][i] \in FileIds
        BY DEF TypeOK
      <3> QED BY <1>8, <3>1 DEF FreshOK
    <2> QED BY <1>1, <2>1, <2>2, <2>3, <2>4, FreshStep
  <1> QED BY <1>6, <1>7, <1>9, <1>10, <1>11, <1>12, <1>13, <1>14, <1>15

LEMMA StepFileIput == ASSUME IInv, NEW p \in Procs, FileIput(p) PROVE IInv'
  <1>1. /\ ff[p].type = "INODE" /\ iref' = iref - 1 /\ held' = [held EXCEPT ![p] = held[p]]
        /\ ff' = [ff EXCEPT ![p] = NoFile] /\ pc' = [pc EXCEPT ![p] = AfterClose(p, held[p], NoFile)]
        /\ UNCHANGED <<ftable, ofile, pipe, io, child, killed>>
    BY DEF FileIput, Closed, Goto
  <1> USE DEF IInv, ftable, pipe, io
  <1>2. held' = held
    BY <1>1 DEF TypeOK
  <1>3. NoFile.type = "NONE" /\ NoFile \in FileRecs
    BY DEF NoFile, FileRecs, Kinds
  <1>4. \A q \in Procs : ff'[q] = IF q = p THEN NoFile ELSE ff[q]
    BY <1>1 DEF CallsOK
  <1>5. pc[p] \in {"closing", "exiting"}
    <2>1. ff[p] # NoFile
      BY <1>1, <1>3
    <2> QED BY <2>1 DEF CallsOK, TypeOK, Quiet, Fresh, Reading, Writing
  <1>6. /\ pc'[p] \in {"closing", "exiting", "user"} /\ (pc'[p] = "user" => held[p] = <<>>)
        /\ pc'[p] = "exiting" => pc[p] = "exiting"
        /\ \A q \in Procs \ {p} : pc'[q] = pc[q]
    <2>1. AfterClose(p, held[p], NoFile) =
             IF pc[p] = "exiting" THEN "exiting" ELSE IF held[p] # <<>> THEN "closing" ELSE "user"
      BY DEF AfterClose
    <2> QED BY <1>1, <2>1 DEF TypeOK
  <1>7. InodesOK' /\ iref' \in Nat
    <2>1. HalfClosed("INODE")' = HalfClosed("INODE") \ {p} /\ p \in HalfClosed("INODE")
      BY <1>1, <1>3, <1>4 DEF HalfClosed
    <2>2. Inodes' = Inodes
      BY <1>1 DEF Inodes
    <2>3. Openers' = Openers
      BY <1>5, <1>6 DEF Openers
    <2>4. /\ Cardinality(HalfClosed("INODE")') = Cardinality(HalfClosed("INODE")) - 1
          /\ Cardinality(HalfClosed("INODE")) >= 1
      BY <2>1, CardDrop, InodesFinite
    <2>5. iref = Cardinality(Inodes) + Cardinality(HalfClosed("INODE")) + Cardinality(Openers)
      BY DEF InodesOK
    <2> QED BY <1>1, <2>2, <2>3, <2>4, <2>5, InodesFinite DEF InodesOK
  <1>8. TypeOK'
    <2>1. pc' = [pc EXCEPT ![p] = pc'[p]]
      BY <1>1 DEF TypeOK
    <2> QED BY <1>1, <1>2, <1>6, <1>7, <2>1 DEF TypeOK
  <1>9. CallsOK' /\ ForksOK'
    <2>1. ff' \in [Procs -> FileRecs]
      BY <1>1, <1>3 DEF CallsOK
    <2>2. on[p] = None
      BY <1>5 DEF CallsOK, Reading, Writing
    <2>3. CallsOK'
      BY <1>1, <1>2, <1>4, <1>6, <2>1, <2>2 DEF CallsOK, Quiet, Fresh, Reading, Writing
    <2>4. ForksOK'
      BY <1>1, <1>5, <1>6 DEF ForksOK
    <2> QED BY <2>3, <2>4
  <1>10. RefsOK' /\ KindsOK' /\ RingOK'
    BY <1>1, <1>2, TableFrame, RingFrame
  <1>11. ReadersOK' /\ WritersOK' /\ PagesOK'
    <2>1. \A q \in Procs : \A g : (ReadClose(q, g)' <=> ReadClose(q, g)) /\ (WriteClose(q, g)' <=> WriteClose(q, g))
      BY <1>1, <1>3, <1>4 DEF ReadClose, WriteClose
    <2>2. \A f \in FileIds : \A g : (ReadEnd(f, g)' <=> ReadEnd(f, g)) /\ (WriteEnd(f, g)' <=> WriteEnd(f, g))
      BY <1>1 DEF ReadEnd, WriteEnd
    <2>3. ReadersOK'
      BY <1>1, <2>1, <2>2 DEF ReadersOK
    <2>4. WritersOK'
      BY <1>1, <2>1, <2>2 DEF WritersOK
    <2>5. PagesOK'
      BY <1>1, <1>3, <1>4 DEF PagesOK
    <2> QED BY <2>3, <2>4, <2>5
  <1>12. FreshOK'
    BY <1>1, <1>2, <1>6, FreshFrame DEF Fresh
  <1>13. OnOK'
    BY <1>1, <1>6, OnFrame DEF Reading, Writing
  <1> QED BY <1>7, <1>8, <1>9, <1>10, <1>11, <1>12, <1>13

\* What pipeclose does to the ends of a pipe.
LEMMA CloseEnds ==
    ASSUME IInv, NEW p \in Procs, PipeClose(p), NEW g, g = ff[p].page, NEW w, w = ff[p].writable
    PROVE  /\ g \in pages /\ g \in Pages /\ w \in BOOLEAN
           /\ w => writeopen[g] /\ ~(\E f \in FileIds : WriteEnd(f, g))
           /\ ~w => readopen[g] /\ ~(\E f \in FileIds : ReadEnd(f, g))
           /\ readopen' \in [Pages -> BOOLEAN] /\ writeopen' \in [Pages -> BOOLEAN]
           /\ \A h \in Pages : /\ readopen'[h] <=> readopen[h] /\ ~(h = g /\ ~w)
                               /\ writeopen'[h] <=> writeopen[h] /\ ~(h = g /\ w)
           /\ ReadersOK' /\ WritersOK'
  <1> USE DEF IInv
  <1>1. /\ ff[p].type = "PIPE" /\ ff' = [ff EXCEPT ![p] = NoFile]
        /\ writeopen' = [writeopen EXCEPT ![g] = @ /\ ~w] /\ readopen' = [readopen EXCEPT ![g] = @ /\ w]
        /\ UNCHANGED <<type, writable, page>>
    BY DEF PipeClose, ftable
  <1>2. g \in Pages /\ w \in BOOLEAN
    BY <1>1 DEF PagesOK, CallsOK, FileRecs
  <1>3. /\ \A h : ReadClose(p, h) <=> h = g /\ ~w
        /\ \A h : WriteClose(p, h) <=> h = g /\ w
    BY <1>1 DEF ReadClose, WriteClose
  <1>4. /\ \A q \in Procs : \A h : ReadClose(q, h)' <=> ReadClose(q, h) /\ q # p
        /\ \A q \in Procs : \A h : WriteClose(q, h)' <=> WriteClose(q, h) /\ q # p
    <2>1. NoFile.type = "NONE"
      BY DEF NoFile
    <2>2. \A q \in Procs : ff'[q] = IF q = p THEN NoFile ELSE ff[q]
      BY <1>1 DEF CallsOK
    <2> QED BY <2>1, <2>2 DEF ReadClose, WriteClose
  <1>5. \A f \in FileIds : \A h : (ReadEnd(f, h)' <=> ReadEnd(f, h)) /\ (WriteEnd(f, h)' <=> WriteEnd(f, h))
    BY <1>1 DEF ReadEnd, WriteEnd
  <1>6. readopen' \in [Pages -> BOOLEAN] /\ writeopen' \in [Pages -> BOOLEAN]
    BY <1>1, <1>2 DEF TypeOK
  <1>7. \A h \in Pages : /\ readopen'[h] <=> readopen[h] /\ ~(h = g /\ ~w)
                         /\ writeopen'[h] <=> writeopen[h] /\ ~(h = g /\ w)
    <2>1. /\ readopen'[g] = (readopen[g] /\ w) /\ \A h \in Pages \ {g} : readopen'[h] = readopen[h]
          /\ writeopen'[g] = (writeopen[g] /\ ~w) /\ \A h \in Pages \ {g} : writeopen'[h] = writeopen[h]
      BY <1>1, <1>2 DEF TypeOK
    <2> QED BY <1>2, <2>1
  <1>8. ~w => readopen[g] /\ ~(\E f \in FileIds : ReadEnd(f, g))
    BY <1>2, <1>3 DEF ReadersOK
  <1>9. w => writeopen[g] /\ ~(\E f \in FileIds : WriteEnd(f, g))
    BY <1>2, <1>3 DEF WritersOK
  <1>10. g \in pages
    BY <1>2, <1>8, <1>9 DEF PagesOK
  <1>11. ReadersOK'
    <2> SUFFICES ASSUME NEW h \in Pages
                 PROVE  /\ readopen'[h] <=> \/ \E a \in FileIds : ReadEnd(a, h)'
                                            \/ \E q \in Procs : ReadClose(q, h)'
                        /\ \A a, b \in FileIds : ReadEnd(a, h)' /\ ReadEnd(b, h)' => a = b
                        /\ \A r, q \in Procs : ReadClose(r, h)' /\ ReadClose(q, h)' => r = q
                        /\ \A a \in FileIds, q \in Procs : ~(ReadEnd(a, h)' /\ ReadClose(q, h)')
      BY DEF ReadersOK
    <2>1. /\ readopen[h] <=> (\E a \in FileIds : ReadEnd(a, h)) \/ (\E q \in Procs : ReadClose(q, h))
          /\ \A a, b \in FileIds : ReadEnd(a, h) /\ ReadEnd(b, h) => a = b
          /\ \A r, q \in Procs : ReadClose(r, h) /\ ReadClose(q, h) => r = q
          /\ \A a \in FileIds, q \in Procs : ~(ReadEnd(a, h) /\ ReadClose(q, h))
      BY DEF ReadersOK
    <2>2. readopen'[h] <=> readopen[h] /\ ~(h = g /\ ~w)
      BY <1>7
    <2> QED BY <1>3, <1>4, <1>5, <2>1, <2>2
  <1>12. WritersOK'
    <2> SUFFICES ASSUME NEW h \in Pages
                 PROVE  /\ writeopen'[h] <=> \/ \E a \in FileIds : WriteEnd(a, h)'
                                             \/ \E q \in Procs : WriteClose(q, h)'
                        /\ \A a, b \in FileIds : WriteEnd(a, h)' /\ WriteEnd(b, h)' => a = b
                        /\ \A r, q \in Procs : WriteClose(r, h)' /\ WriteClose(q, h)' => r = q
                        /\ \A a \in FileIds, q \in Procs : ~(WriteEnd(a, h)' /\ WriteClose(q, h)')
      BY DEF WritersOK
    <2>1. /\ writeopen[h] <=> (\E a \in FileIds : WriteEnd(a, h)) \/ (\E q \in Procs : WriteClose(q, h))
          /\ \A a, b \in FileIds : WriteEnd(a, h) /\ WriteEnd(b, h) => a = b
          /\ \A r, q \in Procs : WriteClose(r, h) /\ WriteClose(q, h) => r = q
          /\ \A a \in FileIds, q \in Procs : ~(WriteEnd(a, h) /\ WriteClose(q, h))
      BY DEF WritersOK
    <2>2. writeopen'[h] <=> writeopen[h] /\ ~(h = g /\ w)
      BY <1>7
    <2> QED BY <1>3, <1>4, <1>5, <2>1, <2>2
  <1> QED BY <1>2, <1>6, <1>7, <1>8, <1>9, <1>10, <1>11, <1>12

\* Whom pipeclose wakes, and where its caller goes on.
LEMMA CloseGoes ==
    ASSUME IInv, NEW p \in Procs, PipeClose(p)
    PROVE  /\ pc[p] \in {"closing", "exiting"} /\ pc'[p] \in {"closing", "exiting", "user"}
           /\ (pc'[p] = "user" => held[p] = <<>>) /\ (pc'[p] = "exiting" => pc[p] = "exiting")
           /\ pc' = [q \in Procs |-> pc'[q]]
           /\ \A q \in Procs \ {p} : \/ pc'[q] = pc[q]
                                     \/ pc[q] = "rsleep" /\ pc'[q] = "piperead"
                                     \/ pc[q] = "wsleep" /\ pc'[q] = "pipewrite"
           /\ \A q \in Procs : on[q] = ff[p].page =>
                 pc'[q] # (IF ff[p].writable THEN "rsleep" ELSE "wsleep")
  <1> DEFINE g == ff[p].page
             w == ff[p].writable
             after == AfterClose(p, held[p], NoFile)
             at == [pc EXCEPT ![p] = after]
  <1> USE DEF IInv
  <1>1. pc' = IF w THEN WakeReaders(g, at) ELSE WakeWriters(g, at)
    BY DEF PipeClose, CloseWakes
  <1>2. pc[p] \in {"closing", "exiting"}
    <2>1. ff[p] # NoFile
      BY DEF PipeClose, NoFile
    <2> QED BY <2>1 DEF CallsOK, TypeOK, Quiet, Fresh, Reading, Writing
  <1>3. after = IF pc[p] = "exiting" THEN "exiting" ELSE IF held[p] # <<>> THEN "closing" ELSE "user"
    BY DEF AfterClose
  <1> HIDE DEF after
  <1>4. \A q \in Procs : at[q] = IF q = p THEN after ELSE pc[q]
    BY DEF TypeOK
  <1> HIDE DEF at, g, w
  <1>5. CASE w
    <2>1. pc' = [q \in Procs |-> IF at[q] = "rsleep" /\ on[q] = g THEN "piperead" ELSE at[q]]
      BY <1>1, <1>5 DEF WakeReaders
    <2> QED BY <1>2, <1>3, <1>4, <1>5, <2>1 DEF g, w
  <1>6. CASE ~w
    <2>1. pc' = [q \in Procs |-> IF at[q] = "wsleep" /\ on[q] = g THEN "pipewrite" ELSE at[q]]
      BY <1>1, <1>6 DEF WakeWriters
    <2> QED BY <1>2, <1>3, <1>4, <1>6, <2>1 DEF g, w
  <1> QED BY <1>5, <1>6

\* What is left of the pipe after pipeclose.
LEMMA ClosePage ==
    ASSUME IInv, NEW p \in Procs, PipeClose(p), NEW g, g = ff[p].page
    PROVE  /\ PagesOK' /\ RingOK'
           /\ nread' \in [Pages -> 0 .. Wrap - 1] /\ nwrite' \in [Pages -> 0 .. Wrap - 1]
           /\ data' \in [Pages -> [0 .. PIPESIZE - 1 -> Bytes]] /\ pages' \subseteq Pages
           /\ \A h \in Pages :
                 \/ h \in pages' /\ h \in pages
                    /\ nread'[h] = nread[h] /\ nwrite'[h] = nwrite[h] /\ data'[h] = data[h]
                 \/ h \notin pages' /\ nread'[h] = 0 /\ nwrite'[h] = 0
           /\ \A h \in Pages \ {g} : nread'[h] = nread[h] /\ nwrite'[h] = nwrite[h]
  <1> USE DEF IInv
  <1>1. g \in pages /\ g \in Pages
    BY CloseEnds
  <1>2. /\ ff' = [ff EXCEPT ![p] = NoFile] /\ UNCHANGED <<type, page>>
    BY DEF PipeClose, ftable
  <1>3. \A h \in Pages \ {g} : readopen'[h] = readopen[h] /\ writeopen'[h] = writeopen[h]
    <2>1. /\ readopen \in [Pages -> BOOLEAN] /\ writeopen \in [Pages -> BOOLEAN]
      BY DEF TypeOK
    <2>2. /\ writeopen' = [writeopen EXCEPT ![g] = @ /\ ~ff[p].writable]
          /\ readopen' = [readopen EXCEPT ![g] = @ /\ ff[p].writable]
      BY DEF PipeClose
    <2> QED BY <2>1, <2>2
  <1>4. Junk \in [0 .. PIPESIZE - 1 -> Bytes]
    <2>1. (CHOOSE b \in Bytes : TRUE) \in Bytes
      BY FilesAssumption
    <2> QED BY <2>1 DEF Junk
  <1>5. 0 \in 0 .. Wrap - 1 /\ 0 % Wrap = 0 /\ PIPESIZE \in Nat
    BY FilesAssumption
  <1>6. /\ \A f \in FileIds : type'[f] = "PIPE" => page'[f] \in Pages
        /\ \A q \in Procs : ff'[q].type = "PIPE" => ff'[q].page \in Pages
    <2>1. NoFile.type = "NONE"
      BY DEF NoFile
    <2>2. \A q \in Procs : ff'[q] = IF q = p THEN NoFile ELSE ff[q]
      BY <1>2 DEF CallsOK
    <2> QED BY <1>2, <2>1, <2>2 DEF PagesOK
  <1>7. CASE LastEnd(g)
    <2>1. /\ pages' = pages \ {g} /\ data' = [data EXCEPT ![g] = Junk]
          /\ nread' = [nread EXCEPT ![g] = 0] /\ nwrite' = [nwrite EXCEPT ![g] = 0]
      BY <1>7 DEF PipeClose
    <2>2. ~readopen'[g] /\ ~writeopen'[g]
      BY <1>7 DEF LastEnd
    <2>3. PagesOK'
      BY <1>3, <1>6, <2>1, <2>2 DEF PagesOK
    <2>4. /\ nread' \in [Pages -> 0 .. Wrap - 1] /\ nwrite' \in [Pages -> 0 .. Wrap - 1]
          /\ data' \in [Pages -> [0 .. PIPESIZE - 1 -> Bytes]] /\ pages' \subseteq Pages
      BY <1>4, <1>5, <2>1 DEF TypeOK
    <2>5. /\ \A h \in Pages \ {g} : nread'[h] = nread[h] /\ nwrite'[h] = nwrite[h] /\ data'[h] = data[h]
          /\ nread'[g] = 0 /\ nwrite'[g] = 0
      BY <1>1, <2>1 DEF TypeOK
    <2>6. RingOK'
      <3> SUFFICES ASSUME NEW h \in Pages
                   PROVE  Count(h)' <= PIPESIZE /\ (h \notin pages' => nread'[h] = 0 /\ nwrite'[h] = 0)
        BY DEF RingOK
      <3>1. CASE h = g
        BY <1>5, <2>5, <3>1 DEF Count
      <3>2. CASE h # g
        <4>1. Count(h)' = Count(h)
          BY <2>5, <3>2 DEF Count
        <4> QED BY <2>1, <2>5, <3>2, <4>1 DEF RingOK
      <3> QED BY <3>1, <3>2
    <2>7. \A h \in Pages \ {g} : h \notin pages => nread[h] = 0 /\ nwrite[h] = 0
      BY DEF RingOK
    <2> QED BY <2>1, <2>3, <2>4, <2>5, <2>6, <2>7
  <1>8. CASE ~LastEnd(g)
    <2>1. UNCHANGED <<pages, data, nread, nwrite>>
      BY <1>8 DEF PipeClose
    <2>2. readopen'[g] \/ writeopen'[g]
      BY <1>8 DEF LastEnd
    <2>3. PagesOK'
      BY <1>1, <1>3, <1>6, <2>1, <2>2 DEF PagesOK
    <2>4. RingOK'
      BY <2>1, RingFrame
    <2> QED BY <2>1, <2>3, <2>4 DEF TypeOK, RingOK
  <1> QED BY <1>7, <1>8

LEMMA StepPipeClose == ASSUME IInv, NEW p \in Procs, PipeClose(p) PROVE IInv'
  <1>1. /\ ff[p].type = "PIPE" /\ ff' = [ff EXCEPT ![p] = NoFile]
        /\ UNCHANGED <<ftable, ofile, iref, io, held, child, killed>>
    BY DEF PipeClose
  <1> USE DEF IInv, ftable, io
  <1>2. ReadersOK' /\ WritersOK' /\ readopen' \in [Pages -> BOOLEAN] /\ writeopen' \in [Pages -> BOOLEAN]
    BY CloseEnds
  <1>3. /\ pc[p] \in {"closing", "exiting"} /\ pc'[p] \in {"closing", "exiting", "user"}
        /\ (pc'[p] = "user" => held[p] = <<>>) /\ (pc'[p] = "exiting" => pc[p] = "exiting")
        /\ pc' = [q \in Procs |-> pc'[q]]
        /\ \A q \in Procs \ {p} : \/ pc'[q] = pc[q]
                                  \/ pc[q] = "rsleep" /\ pc'[q] = "piperead"
                                  \/ pc[q] = "wsleep" /\ pc'[q] = "pipewrite"
    BY CloseGoes
  <1>4. /\ PagesOK' /\ RingOK'
        /\ nread' \in [Pages -> 0 .. Wrap - 1] /\ nwrite' \in [Pages -> 0 .. Wrap - 1]
        /\ data' \in [Pages -> [0 .. PIPESIZE - 1 -> Bytes]] /\ pages' \subseteq Pages
    BY ClosePage
  <1>5. NoFile.type = "NONE" /\ NoFile \in FileRecs
    BY DEF NoFile, FileRecs, Kinds
  <1>6. \A q \in Procs : ff'[q] = IF q = p THEN NoFile ELSE ff[q]
    BY <1>1 DEF CallsOK
  <1>7. TypeOK'
    <2>1. pc' \in [Procs -> {"user", "dead", "embryo", "fork", "pipealloc", "open", "open_bad",
                          "closing", "exiting", "piperead", "rsleep", "pipewrite", "wsleep"}]
      BY <1>3 DEF TypeOK
    <2> QED BY <1>1, <1>2, <1>4, <2>1 DEF TypeOK
  <1>8. CallsOK' /\ ForksOK'
    <2>1. ff' \in [Procs -> FileRecs]
      BY <1>1, <1>5 DEF CallsOK
    <2>2. on[p] = None
      BY <1>3 DEF CallsOK, Reading, Writing
    <2>3. \A q \in Procs \ {p} : /\ pc'[q] \in Quiet \cup {"exiting"} => pc[q] \in Quiet \cup {"exiting"}
                                 /\ pc'[q] \in Quiet \cup Fresh => pc[q] \in Quiet \cup Fresh
                                 /\ pc'[q] = "open_bad" => pc[q] = "open_bad"
                                 /\ pc'[q] \in Reading \cup Writing <=> pc[q] \in Reading \cup Writing
      BY <1>3 DEF Quiet, Fresh, Reading, Writing
    <2>4. /\ pc'[p] \in Quiet \cup {"exiting"} => held[p] = <<>>
          /\ pc'[p] # "open_bad" /\ pc'[p] \notin Reading \cup Writing
      BY <1>3 DEF CallsOK, Quiet, Fresh, Reading, Writing
    <2>5. CallsOK'
      BY <1>1, <1>6, <2>1, <2>2, <2>3, <2>4 DEF CallsOK
    <2>6. ForksOK'
      BY <1>1, <1>3 DEF ForksOK
    <2> QED BY <2>5, <2>6
  <1>9. RefsOK' /\ KindsOK'
    BY <1>1, TableFrame
  <1>10. InodesOK'
    <2>1. HalfClosed("INODE")' = HalfClosed("INODE")
      BY <1>1, <1>5, <1>6 DEF HalfClosed
    <2>2. Inodes' = Inodes
      BY <1>1 DEF Inodes
    <2>3. Openers' = Openers
      BY <1>3 DEF Openers
    <2> QED BY <1>1, <2>1, <2>2, <2>3 DEF InodesOK
  <1>11. FreshOK'
    BY <1>1, <1>3, FreshFrame DEF Fresh
  <1>12. OnOK'
    BY <1>1, <1>3, OnFrame DEF Reading, Writing
  <1> QED BY <1>2, <1>4, <1>7, <1>8, <1>9, <1>10, <1>11, <1>12

-----------------------------------------------------------------------------
(***************************************************************************)
(* Making a pipe.                                                          *)
(***************************************************************************)

\* The two files of pipealloc.
LEMMA TwoFiles ==
    ASSUME IInv, NEW p \in Procs, pc[p] = "pipealloc", Len(held[p]) = 2
    PROVE  /\ held[p][1] \in FileIds /\ held[p][2] \in FileIds /\ held[p][1] # held[p][2]
           /\ 1 \in 1 .. Len(held[p]) /\ 2 \in 1 .. Len(held[p])
           /\ \A f \in {held[p][1], held[p][2]} :
                 /\ type[f] = "NONE" /\ ref[f] >= 1 /\ ref[f] # 0
                 /\ \A q \in Procs, d \in Fds : ofile[q][d] # f
                 /\ \A q \in Procs \ {p} : \A i \in 1 .. Len(held[q]) : held[q][i] # f
  <1> USE DEF IInv
  <1>1. 1 \in 1 .. Len(held[p]) /\ 2 \in 1 .. Len(held[p])
    OBVIOUS
  <1>2. held[p][1] \in FileIds /\ held[p][2] \in FileIds
    <2>1. held[p] \in Seq(FileIds)
      BY DEF TypeOK
    <2> QED BY <1>1, <2>1
  <1>3. type[held[p][1]] = "NONE" /\ Sole(p, 1) /\ type[held[p][2]] = "NONE" /\ Sole(p, 2)
    BY <1>1 DEF FreshOK, Fresh
  <1>4. held[p][1] # held[p][2]
    BY <1>1, <1>3 DEF Sole
  <1>5. ref[held[p][1]] >= 1 /\ ref[held[p][2]] >= 1
    BY <1>1, <1>2, Held
  <1>6. ref[held[p][1]] # 0 /\ ref[held[p][2]] # 0
    BY <1>2, <1>5 DEF TypeOK
  <1> QED BY <1>1, <1>2, <1>3, <1>4, <1>5, <1>6 DEF Sole

\* The two descriptors of sys_pipe.
LEMMA TwoFds ==
    ASSUME NEW p \in Procs, Cardinality(FreeFds(p)) >= 2, NEW a, a = First(FreeFds(p)),
           NEW b, b = First(FreeFds(p) \ {a})
    PROVE  a \in Fds /\ b \in Fds /\ a # b /\ ofile[p][a] = None /\ ofile[p][b] = None
  <1>1. FreeFds(p) \in SUBSET Nat /\ FreeFds(p) \in SUBSET Fds
    BY DEF FreeFds, Fds
  <1>2. FreeFds(p) # {}
    <2>1. Cardinality({}) = 0
      BY FS_EmptySet
    <2> QED BY <2>1
  <1>3. a \in FreeFds(p)
    BY <1>1, <1>2, FirstIn
  <1>4. FreeFds(p) \ {a} # {}
    <2> SUFFICES ASSUME FreeFds(p) \ {a} = {} PROVE FALSE
      OBVIOUS
    <2>1. FreeFds(p) = {a}
      BY <1>3
    <2>2. Cardinality({a}) = 1
      BY FS_Singleton
    <2> QED BY <2>1, <2>2
  <1>5. b \in FreeFds(p) \ {a}
    BY <1>1, <1>4, FirstIn
  <1> QED BY <1>1, <1>3, <1>5 DEF FreeFds

\* What pipealloc does to the table and to the pipes.
LEMMA AllocEnds ==
    ASSUME IInv, NEW p \in Procs, NEW g \in Pages, PipeAlloc(p, g),
           NEW rf, rf = held[p][1], NEW wf, wf = held[p][2]
    PROVE  /\ pc[p] = "pipealloc" /\ Len(held[p]) = 2 /\ g \notin pages
           /\ ~readopen[g] /\ ~writeopen[g] /\ nread[g] = 0 /\ nwrite[g] = 0
           /\ \A a \in FileIds \ {rf, wf} :
                 type'[a] = type[a] /\ writable'[a] = writable[a] /\ page'[a] = page[a]
           /\ \A a \in {rf, wf} : type'[a] = "PIPE" /\ page'[a] = g
           /\ ~writable'[rf] /\ writable'[wf] /\ rf # wf
           /\ type' \in [FileIds -> Kinds] /\ writable' \in [FileIds -> BOOLEAN]
           /\ page' \in [FileIds -> Pages \cup {None}]
           /\ \A h \in Pages \ {g} : /\ readopen'[h] = readopen[h] /\ writeopen'[h] = writeopen[h]
                                     /\ nread'[h] = nread[h] /\ nwrite'[h] = nwrite[h]
           /\ readopen'[g] /\ writeopen'[g] /\ nread'[g] = 0 /\ nwrite'[g] = 0
           /\ nread' \in [Pages -> 0 .. Wrap - 1] /\ nwrite' \in [Pages -> 0 .. Wrap - 1]
           /\ readopen' \in [Pages -> BOOLEAN] /\ writeopen' \in [Pages -> BOOLEAN]
           /\ pages' = pages \cup {g}
           /\ UNCHANGED <<ref, data, iref, on, todo, ff, child, killed>>
  <1> USE DEF IInv
  <1>1. /\ pc[p] = "pipealloc" /\ Len(held[p]) = 2 /\ g \notin pages
        /\ pages' = pages \cup {g}
        /\ readopen' = [readopen EXCEPT ![g] = TRUE] /\ writeopen' = [writeopen EXCEPT ![g] = TRUE]
        /\ nread' = [nread EXCEPT ![g] = 0] /\ nwrite' = [nwrite EXCEPT ![g] = 0]
        /\ type' = [type EXCEPT ![rf] = "PIPE", ![wf] = "PIPE"]
        /\ writable' = [writable EXCEPT ![rf] = FALSE, ![wf] = TRUE]
        /\ page' = [page EXCEPT ![rf] = g, ![wf] = g]
        /\ UNCHANGED <<ref, data, iref, on, todo, ff, child, killed>>
    BY DEF PipeAlloc, io
  <1>2. rf \in FileIds /\ wf \in FileIds /\ rf # wf
    BY <1>1, TwoFiles
  <1>3. ~readopen[g] /\ ~writeopen[g] /\ nread[g] = 0 /\ nwrite[g] = 0
    BY <1>1 DEF PagesOK, RingOK
  <1>4. 0 \in 0 .. Wrap - 1
    BY FilesAssumption
  <1>5. /\ \A a \in FileIds \ {rf, wf} :
              type'[a] = type[a] /\ writable'[a] = writable[a] /\ page'[a] = page[a]
        /\ \A a \in {rf, wf} : type'[a] = "PIPE" /\ page'[a] = g
        /\ ~writable'[rf] /\ writable'[wf]
        /\ type' \in [FileIds -> Kinds] /\ writable' \in [FileIds -> BOOLEAN]
        /\ page' \in [FileIds -> Pages \cup {None}]
    <2>1. /\ type' \in [FileIds -> Kinds] /\ type'[rf] = "PIPE" /\ type'[wf] = "PIPE"
          /\ \A a \in FileIds \ {rf, wf} : type'[a] = type[a]
      BY <1>1, <1>2 DEF TypeOK, Kinds
    <2>2. /\ page' \in [FileIds -> Pages \cup {None}] /\ page'[rf] = g /\ page'[wf] = g
          /\ \A a \in FileIds \ {rf, wf} : page'[a] = page[a]
      BY <1>1, <1>2 DEF TypeOK
    <2>3. /\ writable' \in [FileIds -> BOOLEAN] /\ writable'[rf] = FALSE /\ writable'[wf] = TRUE
          /\ \A a \in FileIds \ {rf, wf} : writable'[a] = writable[a]
      BY <1>1, <1>2 DEF TypeOK
    <2> QED BY <2>1, <2>2, <2>3
  <1>6. /\ \A h \in Pages \ {g} : /\ readopen'[h] = readopen[h] /\ writeopen'[h] = writeopen[h]
                                  /\ nread'[h] = nread[h] /\ nwrite'[h] = nwrite[h]
        /\ readopen'[g] /\ writeopen'[g] /\ nread'[g] = 0 /\ nwrite'[g] = 0
        /\ nread' \in [Pages -> 0 .. Wrap - 1] /\ nwrite' \in [Pages -> 0 .. Wrap - 1]
        /\ readopen' \in [Pages -> BOOLEAN] /\ writeopen' \in [Pages -> BOOLEAN]
    BY <1>1, <1>4 DEF TypeOK
  <1> QED BY <1>1, <1>2, <1>3, <1>5, <1>6

\* Where sys_pipe goes on, and what it does to the descriptors.
LEMMA AllocGoes ==
    ASSUME IInv, NEW p \in Procs, NEW g \in Pages, PipeAlloc(p, g),
           NEW rf, rf = held[p][1], NEW wf, wf = held[p][2]
    PROVE  /\ pc' = [pc EXCEPT ![p] = pc'[p]] /\ pc'[p] \in {"user", "closing"}
           /\ \A q \in Procs \ {p} : pc'[q] = pc[q] /\ held'[q] = held[q] /\ ofile'[q] = ofile[q]
           /\ held'[p] = (IF pc'[p] = "user" THEN <<>> ELSE held[p])
           /\ held' \in [Procs -> Seq(FileIds)] /\ ofile' \in [Procs -> [Fds -> FileIds \cup {None}]]
           /\ \A d \in Fds : ofile'[p][d] = ofile[p][d] \/ ofile'[p][d] \in {rf, wf}
           /\ RefsOK'
  <1> USE DEF IInv
  <1>0. /\ pc[p] = "pipealloc" /\ Len(held[p]) = 2 /\ ref' = ref
    BY DEF PipeAlloc
  <1>1. rf \in FileIds /\ wf \in FileIds /\ rf # wf
    BY <1>0, TwoFiles
  <1>2. CASE Cardinality(FreeFds(p)) >= 2
    <2> DEFINE a == First(FreeFds(p))
               b == First(FreeFds(p) \ {a})
    <2>1. /\ ofile' = [ofile EXCEPT ![p][a] = rf, ![p][b] = wf]
          /\ held' = [held EXCEPT ![p] = <<>>] /\ pc' = [pc EXCEPT ![p] = "user"]
      BY <1>2 DEF PipeAlloc, Goto
    <2>2. a \in Fds /\ b \in Fds /\ a # b /\ ofile[p][a] = None /\ ofile[p][b] = None
      BY <1>2, TwoFds
    <2> HIDE DEF a, b
    <2>9. \A q \in Procs, d \in Fds :
              ofile'[q][d] = IF q = p /\ d = a THEN rf ELSE IF q = p /\ d = b THEN wf ELSE ofile[q][d]
      BY <2>1, <2>2 DEF TypeOK
    <2>3. RefsOK'
      <3> SUFFICES ASSUME NEW f \in FileIds
                   PROVE  ref'[f] = Cardinality(Descriptors(f))' + Cardinality(Locals(f))'
        BY DEF RefsOK
      <3>1. Cardinality(Descriptors(f))' = Cardinality(Descriptors(f)) + (IF f \in {rf, wf} THEN 1 ELSE 0)
        BY <1>1, <2>2, <2>9, GainTwo
      <3>2. Cardinality(Locals(f))' = Cardinality(Locals(f)) - (IF f \in {rf, wf} THEN 1 ELSE 0)
        BY <1>0, <1>1, <2>1, GiveTwo
      <3>3. ref[f] = Cardinality(Descriptors(f)) + Cardinality(Locals(f))
        BY DEF RefsOK
      <3> QED BY <1>0, <3>1, <3>2, <3>3, HoldersFinite
    <2>4. pc'[p] = "user" /\ pc' = [pc EXCEPT ![p] = pc'[p]]
      BY <2>1 DEF TypeOK
    <2>5. held' \in [Procs -> Seq(FileIds)] /\ held'[p] = <<>>
      BY <2>1 DEF TypeOK
    <2>6. ofile' \in [Procs -> [Fds -> FileIds \cup {None}]]
      BY <1>1, <2>1, <2>2 DEF TypeOK
    <2>7. \A d \in Fds : ofile'[p][d] = ofile[p][d] \/ ofile'[p][d] \in {rf, wf}
      BY <1>1, <2>1, <2>2 DEF TypeOK
    <2>8. \A q \in Procs \ {p} : pc'[q] = pc[q] /\ held'[q] = held[q] /\ ofile'[q] = ofile[q]
      BY <2>1 DEF TypeOK
    <2> QED BY <2>3, <2>4, <2>5, <2>6, <2>7, <2>8
  <1>3. CASE ~(Cardinality(FreeFds(p)) >= 2)
    <2>1. UNCHANGED <<ofile, held>> /\ pc' = [pc EXCEPT ![p] = "closing"]
      BY <1>3 DEF PipeAlloc, Goto
    <2>2. RefsOK'
      BY <1>0, <2>1 DEF RefsOK, Descriptors, Locals
    <2> QED BY <2>1, <2>2 DEF TypeOK
  <1> QED BY <1>2, <1>3

LEMMA StepPipeAlloc == ASSUME IInv, NEW p \in Procs, NEW g \in Pages, PipeAlloc(p, g) PROVE IInv'
  <1> DEFINE rf == held[p][1]
             wf == held[p][2]
  <1>1. /\ pc[p] = "pipealloc" /\ Len(held[p]) = 2 /\ g \notin pages
        /\ ~readopen[g] /\ ~writeopen[g] /\ nread[g] = 0 /\ nwrite[g] = 0
        /\ pages' = pages \cup {g}
        /\ UNCHANGED <<ref, data, iref, on, todo, ff, child, killed>>
    BY AllocEnds
  <1>2. /\ \A a \in FileIds \ {rf, wf} :
              type'[a] = type[a] /\ writable'[a] = writable[a] /\ page'[a] = page[a]
        /\ \A a \in {rf, wf} : type'[a] = "PIPE" /\ page'[a] = g
        /\ ~writable'[rf] /\ writable'[wf] /\ rf # wf
        /\ type' \in [FileIds -> Kinds] /\ writable' \in [FileIds -> BOOLEAN]
        /\ page' \in [FileIds -> Pages \cup {None}]
    BY AllocEnds
  <1>3. /\ \A h \in Pages \ {g} : /\ readopen'[h] = readopen[h] /\ writeopen'[h] = writeopen[h]
                                  /\ nread'[h] = nread[h] /\ nwrite'[h] = nwrite[h]
        /\ readopen'[g] /\ writeopen'[g] /\ nread'[g] = 0 /\ nwrite'[g] = 0
        /\ nread' \in [Pages -> 0 .. Wrap - 1] /\ nwrite' \in [Pages -> 0 .. Wrap - 1]
        /\ readopen' \in [Pages -> BOOLEAN] /\ writeopen' \in [Pages -> BOOLEAN]
    BY AllocEnds
  <1>4. /\ pc' = [pc EXCEPT ![p] = pc'[p]] /\ pc'[p] \in {"user", "closing"}
        /\ \A q \in Procs \ {p} : pc'[q] = pc[q] /\ held'[q] = held[q] /\ ofile'[q] = ofile[q]
        /\ held'[p] = (IF pc'[p] = "user" THEN <<>> ELSE held[p])
        /\ held' \in [Procs -> Seq(FileIds)] /\ ofile' \in [Procs -> [Fds -> FileIds \cup {None}]]
        /\ \A d \in Fds : ofile'[p][d] = ofile[p][d] \/ ofile'[p][d] \in {rf, wf}
        /\ RefsOK'
    BY AllocGoes
  <1>5. /\ rf \in FileIds /\ wf \in FileIds
        /\ 1 \in 1 .. Len(held[p]) /\ 2 \in 1 .. Len(held[p])
        /\ \A f \in {rf, wf} :
              /\ type[f] = "NONE" /\ ref[f] >= 1 /\ ref[f] # 0
              /\ \A q \in Procs, d \in Fds : ofile[q][d] # f
              /\ \A q \in Procs \ {p} : \A i \in 1 .. Len(held[q]) : held[q][i] # f
    BY <1>1, TwoFiles
  <1> USE DEF IInv
  <1>6. ff[p] = NoFile /\ on[p] = None
    BY <1>1 DEF CallsOK, Fresh, Reading, Writing
  <1> HIDE DEF rf, wf
  <1>7. TypeOK'
    <2>1. pc' \in [Procs -> {"user", "dead", "embryo", "fork", "pipealloc", "open", "open_bad",
                          "closing", "exiting", "piperead", "rsleep", "pipewrite", "wsleep"}]
      BY <1>4 DEF TypeOK
    <2> QED BY <1>1, <1>2, <1>3, <1>4, <2>1 DEF TypeOK, Kinds
  <1>8. CallsOK' /\ ForksOK'
    <2>1. CallsOK'
      <3>1. Len(held'[p]) <= 2
        <4>1. Len(<<>>) = 0
          OBVIOUS
        <4>2. Len(held'[p]) = 0 \/ Len(held'[p]) = 2
          BY <1>1, <1>4, <4>1
        <4>3. 0 <= 2 /\ 2 <= 2
          OBVIOUS
        <4> QED BY <4>2, <4>3, Zenon
      <3> QED BY <1>1, <1>4, <1>6, <3>1 DEF CallsOK, Quiet, Fresh, Reading, Writing
    <2>2. ForksOK'
      BY <1>1, <1>4 DEF ForksOK
    <2> QED BY <2>1, <2>2
  <1>9. KindsOK'
    <2>1. \A a \in FileIds : ref'[a] = 0 => type'[a] = "NONE"
      BY <1>1, <1>2, <1>5 DEF KindsOK
    <2>2. \A q \in Procs, d \in Fds : ofile'[q][d] # None => type'[ofile'[q][d]] # "NONE"
      <3> SUFFICES ASSUME NEW q \in Procs, NEW d \in Fds, ofile'[q][d] # None
                   PROVE  type'[ofile'[q][d]] # "NONE"
        OBVIOUS
      <3>1. CASE ofile'[q][d] = ofile[q][d]
        <4>1. ofile[q][d] \in FileIds
          BY <3>1 DEF TypeOK
        <4>2. type[ofile[q][d]] # "NONE"
          BY <3>1 DEF KindsOK
        <4>3. ofile[q][d] \notin {rf, wf}
          BY <1>5
        <4> QED BY <1>2, <3>1, <4>1, <4>2, <4>3
      <3>2. CASE ofile'[q][d] \in {rf, wf}
        BY <1>2, <3>2
      <3> QED BY <1>4, <3>1, <3>2
    <2> QED BY <2>1, <2>2 DEF KindsOK
  <1>10. InodesOK'
    <2>1. Inodes' = Inodes
      BY <1>2, <1>5 DEF Inodes
    <2>2. Openers' = Openers
      BY <1>1, <1>4 DEF Openers
    <2>3. HalfClosed("INODE")' = HalfClosed("INODE")
      BY <1>1 DEF HalfClosed
    <2> QED BY <1>1, <2>1, <2>2, <2>3 DEF InodesOK
  <1>11. /\ \A a \in FileIds : \A h : ReadEnd(a, h)' <=> ReadEnd(a, h) \/ (a = rf /\ h = g)
         /\ \A a \in FileIds : \A h : WriteEnd(a, h)' <=> WriteEnd(a, h) \/ (a = wf /\ h = g)
         /\ \A q \in Procs : \A h : (ReadClose(q, h)' <=> ReadClose(q, h)) /\ (WriteClose(q, h)' <=> WriteClose(q, h))
    <2>1. ASSUME NEW a \in FileIds, NEW h
          PROVE  /\ ReadEnd(a, h)' <=> ReadEnd(a, h) \/ (a = rf /\ h = g)
                 /\ WriteEnd(a, h)' <=> WriteEnd(a, h) \/ (a = wf /\ h = g)
      <3>1. CASE a = rf
        BY <1>2, <1>5, <3>1 DEF ReadEnd, WriteEnd
      <3>2. CASE a = wf
        BY <1>2, <1>5, <3>2 DEF ReadEnd, WriteEnd
      <3>3. CASE a \notin {rf, wf}
        BY <1>2, <3>3 DEF ReadEnd, WriteEnd
      <3> QED BY <3>1, <3>2, <3>3
    <2>2. \A q \in Procs : \A h : (ReadClose(q, h)' <=> ReadClose(q, h)) /\ (WriteClose(q, h)' <=> WriteClose(q, h))
      BY <1>1 DEF ReadClose, WriteClose
    <2> QED BY <2>1, <2>2
  <1>12. ReadersOK'
    <2> SUFFICES ASSUME NEW h \in Pages
                 PROVE  /\ readopen'[h] <=> \/ \E a \in FileIds : ReadEnd(a, h)'
                                            \/ \E q \in Procs : ReadClose(q, h)'
                        /\ \A a, b \in FileIds : ReadEnd(a, h)' /\ ReadEnd(b, h)' => a = b
                        /\ \A r, q \in Procs : ReadClose(r, h)' /\ ReadClose(q, h)' => r = q
                        /\ \A a \in FileIds, q \in Procs : ~(ReadEnd(a, h)' /\ ReadClose(q, h)')
      BY DEF ReadersOK
    <2>1. /\ readopen[h] <=> (\E a \in FileIds : ReadEnd(a, h)) \/ (\E q \in Procs : ReadClose(q, h))
          /\ \A a, b \in FileIds : ReadEnd(a, h) /\ ReadEnd(b, h) => a = b
          /\ \A r, q \in Procs : ReadClose(r, h) /\ ReadClose(q, h) => r = q
          /\ \A a \in FileIds, q \in Procs : ~(ReadEnd(a, h) /\ ReadClose(q, h))
      BY DEF ReadersOK
    <2> QED BY <1>1, <1>3, <1>5, <1>11, <2>1
  <1>13. WritersOK'
    <2> SUFFICES ASSUME NEW h \in Pages
                 PROVE  /\ writeopen'[h] <=> \/ \E a \in FileIds : WriteEnd(a, h)'
                                             \/ \E q \in Procs : WriteClose(q, h)'
                        /\ \A a, b \in FileIds : WriteEnd(a, h)' /\ WriteEnd(b, h)' => a = b
                        /\ \A r, q \in Procs : WriteClose(r, h)' /\ WriteClose(q, h)' => r = q
                        /\ \A a \in FileIds, q \in Procs : ~(WriteEnd(a, h)' /\ WriteClose(q, h)')
      BY DEF WritersOK
    <2>1. /\ writeopen[h] <=> (\E a \in FileIds : WriteEnd(a, h)) \/ (\E q \in Procs : WriteClose(q, h))
          /\ \A a, b \in FileIds : WriteEnd(a, h) /\ WriteEnd(b, h) => a = b
          /\ \A r, q \in Procs : WriteClose(r, h) /\ WriteClose(q, h) => r = q
          /\ \A a \in FileIds, q \in Procs : ~(WriteEnd(a, h) /\ WriteClose(q, h))
      BY DEF WritersOK
    <2> QED BY <1>1, <1>3, <1>5, <1>11, <2>1
  <1>14. PagesOK'
    <2>1. \A a \in FileIds : type'[a] = "PIPE" => page'[a] \in Pages
      BY <1>2 DEF PagesOK
    <2>2. \A h \in Pages : h \in pages' <=> readopen'[h] \/ writeopen'[h]
      BY <1>1, <1>3 DEF PagesOK
    <2> QED BY <1>1, <2>1, <2>2 DEF PagesOK
  <1>15. OnOK'
    <2>1. \A q \in Procs, d \in Fds : ofile[q][d] # None =>
              /\ type'[ofile[q][d]] = type[ofile[q][d]] /\ page'[ofile[q][d]] = page[ofile[q][d]]
              /\ writable'[ofile[q][d]] = writable[ofile[q][d]]
      <3>1. \A q \in Procs, d \in Fds : ofile[q][d] \in FileIds \cup {None}
        BY DEF TypeOK
      <3> QED BY <1>2, <1>5, <3>1
    <2>2. pc'[p] \notin Reading \cup Writing
      BY <1>4 DEF Reading, Writing
    <2>3. \A q \in Procs \ {p} : pc'[q] = pc[q] /\ on'[q] = on[q] /\ ofile'[q] = ofile[q]
      BY <1>1, <1>4
    <2> QED BY <2>1, <2>2, <2>3, OnStep
  <1>16. FreshOK'
    <2>1. \A q \in Procs, d \in Fds : Known(p, ofile'[q][d])
      <3>1. \A q \in Procs, d \in Fds : ofile'[q][d] = ofile[q][d] \/ ofile'[q][d] \in {rf, wf}
        BY <1>4
      <3>2. Known(p, rf) /\ Known(p, wf)
        BY <1>5 DEF Known, rf, wf
      <3>3. \A q \in Procs, d \in Fds : Known(p, ofile[q][d])
        BY DEF Known
      <3> QED BY <3>1, <3>2, <3>3
    <2>2. \A j \in 1 .. Len(held'[p]) : Known(p, held'[p][j])
      <3>1. CASE pc'[p] = "user"
        BY <1>4, <3>1
      <3>2. CASE pc'[p] # "user"
        BY <1>4, <3>2 DEF Known
      <3> QED BY <3>1, <3>2
    <2>3. pc'[p] \notin Fresh
      BY <1>4 DEF Fresh
    <2>4. \A q \in Procs \ {p} : pc[q] \in Fresh => \A i \in 1 .. Len(held[q]) : type'[held[q][i]] = "NONE"
      <3>1. \A q \in Procs : \A i \in 1 .. Len(held[q]) : held[q][i] \in FileIds
        BY DEF TypeOK
      <3> QED BY <1>2, <1>5, <3>1 DEF FreshOK
    <2> QED BY <1>4, <2>1, <2>2, <2>3, <2>4, FreshStep
  <1>17. RingOK'
    <2> SUFFICES ASSUME NEW h \in Pages
                 PROVE  Count(h)' <= PIPESIZE /\ (h \notin pages' => nread'[h] = 0 /\ nwrite'[h] = 0)
      BY DEF RingOK
    <2>1. CASE h = g
      <3>1. 0 % Wrap = 0 /\ PIPESIZE \in Nat
        BY FilesAssumption
      <3> QED BY <1>1, <1>3, <2>1, <3>1 DEF Count
    <2>2. CASE h # g
      <3>1. Count(h)' = Count(h)
        BY <1>3, <2>2 DEF Count
      <3> QED BY <1>1, <1>3, <2>2, <3>1 DEF RingOK
    <2> QED BY <2>1, <2>2
  <1> QED BY <1>4, <1>7, <1>8, <1>9, <1>10, <1>12, <1>13, <1>14, <1>15, <1>16, <1>17

-----------------------------------------------------------------------------
(***************************************************************************)
(* The invariant.                                                          *)
(***************************************************************************)

LEMMA InitIInv == Init => IInv
  <1> SUFFICES ASSUME Init PROVE IInv
    OBVIOUS
  <1> USE DEF Init
  <1>1. NoFile.type = "NONE" /\ NoFile \in FileRecs
    BY DEF NoFile, FileRecs, Kinds
  <1>2. Junk \in [0 .. PIPESIZE - 1 -> Bytes]
    <2>1. (CHOOSE b \in Bytes : TRUE) \in Bytes
      BY FilesAssumption
    <2> QED BY <2>1 DEF Junk
  <1>3. 0 \in 0 .. Wrap - 1 /\ 0 % Wrap = 0 /\ PIPESIZE \in Nat /\ 0 <= PIPESIZE /\ InitProc \in Procs
    BY FilesAssumption
  <1>4. TypeOK
    <2>1. <<>> \in Seq(Bytes) /\ <<>> \in Seq(FileIds)
      BY EmptySeq
    <2> QED BY <1>2, <1>3, <2>1 DEF TypeOK
  <1>5. CallsOK /\ ForksOK
    <2>1. Len(<<>>) = 0
      OBVIOUS
    <2> QED BY <1>1, <2>1 DEF CallsOK, ForksOK, Quiet, Fresh, Reading, Writing
  <1>6. RefsOK
    <2> SUFFICES ASSUME NEW f \in FileIds
                 PROVE  ref[f] = Cardinality(Descriptors(f)) + Cardinality(Locals(f))
      BY DEF RefsOK
    <2>1. Descriptors(f) = {}
      BY DEF Descriptors, None, FileIds
    <2>2. Locals(f) = {}
      <3>1. Len(<<>>) = 0
        OBVIOUS
      <3>2. \A q \in Procs, i \in 1 .. 2 : ~(i <= Len(held[q]))
        BY <3>1
      <3> QED BY <3>2 DEF Locals
    <2>3. Cardinality({}) = 0
      BY FS_EmptySet
    <2> QED BY <2>1, <2>2, <2>3
  <1>7. InodesOK
    <2>1. Inodes = {} /\ Openers = {} /\ HalfClosed("INODE") = {}
      BY <1>1 DEF Inodes, Openers, HalfClosed
    <2>2. Cardinality({}) = 0
      BY FS_EmptySet
    <2>3. /\ Cardinality(Inodes) = 0 /\ Cardinality(Openers) = 0
          /\ Cardinality(HalfClosed("INODE")) = 0 /\ iref = 0
      BY <2>1, <2>2
    <2> QED BY <2>3 DEF InodesOK
  <1>8. FreshOK /\ KindsOK /\ OnOK
    BY DEF FreshOK, KindsOK, OnOK, Fresh, Reading, Writing
  <1>9. ReadersOK /\ WritersOK /\ PagesOK
    BY <1>1 DEF ReadersOK, WritersOK, PagesOK, ReadEnd, WriteEnd, ReadClose, WriteClose
  <1>10. RingOK
    BY <1>3 DEF RingOK, Count
  <1> QED BY <1>4, <1>5, <1>6, <1>7, <1>8, <1>9, <1>10 DEF IInv

LEMMA StepIInv == IInv /\ [Next]_vars => IInv'
  <1> SUFFICES ASSUME IInv, [Next]_vars PROVE IInv'
    OBVIOUS
  <1>1. CASE UNCHANGED vars
    <2>1. UNCHANGED <<ref, type, writable, page, ofile, pages, data, nread, nwrite, readopen, writeopen,
                      iref, pc, on, todo, held, ff, child, killed>>
      BY <1>1 DEF vars, ftable, pipe, io, closes
    <2> USE DEF IInv
    <2>2. TypeOK' /\ CallsOK' /\ ForksOK'
      BY <2>1 DEF TypeOK, CallsOK, ForksOK
    <2>3. RefsOK' /\ KindsOK' /\ ReadersOK' /\ WritersOK' /\ PagesOK' /\ RingOK'
      BY <2>1, TableFrame, EndsFrame, RingFrame
    <2>4. InodesOK' /\ FreshOK' /\ OnOK'
      BY <2>1, InodesFrame, FreshFrame, OnFrame
    <2> QED BY <2>2, <2>3, <2>4
  <1>2. ASSUME NEW p \in Procs, UserStep(p) PROVE IInv'
    BY <1>2, StepSysPipe, StepSysOpen, StepSysDup, StepSysClose, StepSysRead, StepSysWrite, StepFork,
       StepExit DEF UserStep
  <1>3. ASSUME NEW p \in Procs, KernelStep(p) PROVE IInv'
    <2>1. CASE OpenFile(p)
      BY <2>1, StepOpenNoFile, StepOpenNoFd, StepOpened
    <2>2. CASE FileAlloc(p) \/ PipeNoMemory(p) \/ (\E g \in Pages : PipeAlloc(p, g))
      BY <2>2, StepFileAlloc, StepPipeNoMemory, StepPipeAlloc
    <2>3. CASE FileClose(p) \/ FileIput(p) \/ PipeClose(p) \/ ExitClose(p) \/ ExitEnd(p)
      BY <2>3, StepFileClose, StepFileIput, StepPipeClose, StepExitClose, StepExit
    <2>4. CASE ForkDup(p) \/ ForkRun(p)
      BY <2>4, StepForkDup, StepForkRun
    <2>5. CASE PipeReadWait(p) \/ (\E n \in Reads : PipeRead(p, n)) \/ PipeWrite(p)
      BY <2>5, StepPipeReadWait, StepPipeRead, StepPipeWrite
    <2> QED BY <1>3, <2>1, <2>2, <2>3, <2>4, <2>5 DEF KernelStep
  <1>4. ASSUME NEW p \in Procs, Kill(p) PROVE IInv'
    BY <1>4, StepKill
  <1> QED BY <1>1, <1>2, <1>3, <1>4 DEF Next

LEMMA InvIInv == Spec => []IInv
  BY InitIInv, StepIInv, PTL DEF Spec

\* The file table, the pipes and the calls in progress keep their types: no
\* reference count of file.c becomes negative and no counter of pipe.c leaves
\* its width.
THEOREM FilesTypes == Spec => []TypeOK
  <1>1. IInv => TypeOK
    BY DEF IInv
  <1> QED BY <1>1, InvIInv, PTL

\* The counts that filealloc, filedup and fileclose keep are exact, whatever
\* fork, dup, exit and the error paths of sys_pipe and sys_open do meanwhile.
THEOREM FilesRefsExact == Spec => []RefsExact
  <1>1. ASSUME IInv PROVE RefsExact
    <2>1. RefsOK /\ InodesOK
      BY <1>1 DEF IInv
    <2>2. Opened("INODE") = Inodes
      <3>1. \A f \in FileIds : ref[f] \in Nat /\ (ref[f] = 0 => type[f] = "NONE")
        BY <1>1 DEF IInv, TypeOK, KindsOK
      <3>2. \A f \in FileIds : type[f] = "INODE" => ref[f] > 0
        BY <3>1
      <3> QED BY <3>2 DEF Opened, Inodes
    <2> QED BY <2>1, <2>2 DEF RefsExact, RefsOK, InodesOK, Openers
  <1> QED BY <1>1, InvIInv, PTL

LEMMA EndsAre ==
    ASSUME IInv, NEW g \in Pages
    PROVE  /\ Ends(g, FALSE) = {<<"file", f>> : f \in {x \in FileIds : ReadEnd(x, g)}}
                               \cup {<<"closing", p>> : p \in {q \in Procs : ReadClose(q, g)}}
           /\ Ends(g, TRUE) = {<<"file", f>> : f \in {x \in FileIds : WriteEnd(x, g)}}
                              \cup {<<"closing", p>> : p \in {q \in Procs : WriteClose(q, g)}}
  <1>1. \A f \in FileIds : ref[f] \in Nat /\ (ref[f] = 0 => type[f] = "NONE") /\ writable[f] \in BOOLEAN
    BY DEF IInv, TypeOK, KindsOK
  <1>2. \A f \in FileIds : type[f] = "PIPE" => ref[f] > 0
    BY <1>1
  <1>3. \A q \in Procs : ff[q].writable \in BOOLEAN
    BY DEF IInv, CallsOK, FileRecs
  <1>4. /\ {x \in Opened("PIPE") : page[x] = g /\ writable[x] = FALSE} = {x \in FileIds : ReadEnd(x, g)}
        /\ {x \in Opened("PIPE") : page[x] = g /\ writable[x] = TRUE} = {x \in FileIds : WriteEnd(x, g)}
    BY <1>1, <1>2 DEF Opened, ReadEnd, WriteEnd
  <1>5. /\ {q \in HalfClosed("PIPE") : ff[q].page = g /\ ff[q].writable = FALSE}
           = {q \in Procs : ReadClose(q, g)}
        /\ {q \in HalfClosed("PIPE") : ff[q].page = g /\ ff[q].writable = TRUE}
           = {q \in Procs : WriteClose(q, g)}
    BY <1>3 DEF HalfClosed, ReadClose, WriteClose
  <1> QED BY <1>4, <1>5 DEF Ends

\* The stand-ins F and C of an end that is open (b) or closed.
LEMMA OneOrNone ==
    ASSUME NEW F, NEW C, NEW b \in BOOLEAN, b <=> F # {} \/ C # {},
           \A x, y \in F : x = y, \A x, y \in C : x = y, F = {} \/ C = {}
    PROVE  LET E == {<<"file", f>> : f \in F} \cup {<<"closing", p>> : p \in C}
           IN  Cardinality(E) = (IF b THEN 1 ELSE 0) /\ (~b => E = {})
  <1> DEFINE E == {<<"file", f>> : f \in F} \cup {<<"closing", p>> : p \in C}
  <1>1. CASE F # {}
    <2>1. PICK f \in F : TRUE
      BY <1>1
    <2>2. F = {f} /\ C = {}
      BY <2>1, <1>1
    <2>3. E = {<<"file", f>>}
      BY <2>2
    <2> HIDE DEF E
    <2> QED BY <1>1, <2>3, FS_Singleton DEF E
  <1>2. CASE C # {}
    <2>1. PICK c \in C : TRUE
      BY <1>2
    <2>2. C = {c} /\ F = {}
      BY <2>1, <1>2
    <2>3. E = {<<"closing", c>>}
      BY <2>2
    <2> HIDE DEF E
    <2> QED BY <1>2, <2>3, FS_Singleton DEF E
  <1>3. CASE F = {} /\ C = {}
    <2>1. E = {}
      BY <1>3
    <2> HIDE DEF E
    <2> QED BY <1>3, <2>1, FS_EmptySet DEF E
  <1> QED BY <1>1, <1>2, <1>3

LEMMA EndsCount ==
    ASSUME IInv, NEW g \in Pages
    PROVE  /\ Cardinality(Ends(g, FALSE)) = IF readopen[g] THEN 1 ELSE 0
           /\ Cardinality(Ends(g, TRUE)) = IF writeopen[g] THEN 1 ELSE 0
           /\ ~writeopen[g] => Ends(g, TRUE) = {}
  <1> DEFINE RF == {x \in FileIds : ReadEnd(x, g)}
             RC == {q \in Procs : ReadClose(q, g)}
             WF == {x \in FileIds : WriteEnd(x, g)}
             WC == {q \in Procs : WriteClose(q, g)}
  <1>1. /\ Ends(g, FALSE) = {<<"file", f>> : f \in RF} \cup {<<"closing", p>> : p \in RC}
        /\ Ends(g, TRUE) = {<<"file", f>> : f \in WF} \cup {<<"closing", p>> : p \in WC}
    BY EndsAre
  <1>2. readopen[g] \in BOOLEAN /\ writeopen[g] \in BOOLEAN
    BY DEF IInv, TypeOK
  <1>3. /\ readopen[g] <=> RF # {} \/ RC # {}
        /\ \A x, y \in RF : x = y
        /\ \A x, y \in RC : x = y
        /\ RF = {} \/ RC = {}
    BY DEF IInv, ReadersOK
  <1>4. /\ writeopen[g] <=> WF # {} \/ WC # {}
        /\ \A x, y \in WF : x = y
        /\ \A x, y \in WC : x = y
        /\ WF = {} \/ WC = {}
    BY DEF IInv, WritersOK
  <1> HIDE DEF RF, RC, WF, WC
  <1>5. Cardinality(Ends(g, FALSE)) = IF readopen[g] THEN 1 ELSE 0
    BY <1>1, <1>2, <1>3, OneOrNone
  <1>6. Cardinality(Ends(g, TRUE)) = (IF writeopen[g] THEN 1 ELSE 0) /\ (~writeopen[g] => Ends(g, TRUE) = {})
    BY <1>1, <1>2, <1>4, OneOrNone
  <1> QED BY <1>5, <1>6

\* A pipe's page lives exactly as long as one of its ends, and nobody works on
\* one that pipeclose has freed.
THEOREM FilesPipeLife == Spec => []PipeLife
  <1>1. ASSUME IInv PROVE PipeLife
    <2>1. \A g \in Pages : /\ g \in pages <=> readopen[g] \/ writeopen[g]
                           /\ Cardinality(Ends(g, FALSE)) = IF readopen[g] THEN 1 ELSE 0
                           /\ Cardinality(Ends(g, TRUE)) = IF writeopen[g] THEN 1 ELSE 0
      BY <1>1, EndsCount DEF IInv, PagesOK
    <2>2. ASSUME NEW p \in Procs, on[p] # None
          PROVE  \E fd \in Fds : LET f == ofile[p][fd]
                                 IN  f # None /\ type[f] = "PIPE" /\ page[f] = on[p]
                                     /\ writable[f] = (pc[p] \in {"pipewrite", "wsleep"})
      <3>1. pc[p] \in Reading \/ pc[p] \in Writing
        BY <1>1, <2>2 DEF IInv, CallsOK
      <3>2. \A fd \in Fds : ofile[p][fd] # None => writable[ofile[p][fd]] \in BOOLEAN
        BY <1>1 DEF IInv, TypeOK
      <3>3. CASE pc[p] \in Reading
        <4>1. PICK fd \in Fds : ofile[p][fd] # None /\ ReadEnd(ofile[p][fd], on[p])
          BY <1>1, <3>3 DEF IInv, OnOK
        <4>2. ~(pc[p] \in {"pipewrite", "wsleep"})
          BY <3>3 DEF Reading
        <4> QED BY <3>2, <4>1, <4>2 DEF ReadEnd
      <3>4. CASE pc[p] \in Writing
        <4>1. PICK fd \in Fds : ofile[p][fd] # None /\ WriteEnd(ofile[p][fd], on[p])
          BY <1>1, <3>4 DEF IInv, OnOK
        <4>2. pc[p] \in {"pipewrite", "wsleep"}
          BY <3>4 DEF Writing
        <4> QED BY <3>2, <4>1, <4>2 DEF WriteEnd
      <3> QED BY <3>1, <3>3, <3>4
    <2>3. \A p \in Procs, fd \in Fds : ofile[p][fd] # None => type[ofile[p][fd]] # "NONE"
      BY <1>1 DEF IInv, KindsOK
    <2> QED BY <2>1, <2>2, <2>3 DEF PipeLife
  <1> QED BY <1>1, InvIInv, PTL

-----------------------------------------------------------------------------
(***************************************************************************)
(* Wakeups.                                                                *)
(***************************************************************************)

\* The steps that change a pipe.
LEMMA PipeSteps ==
    ASSUME [Next]_vars
    PROVE  \/ UNCHANGED <<pages, data, nread, nwrite, readopen, writeopen>>
           \/ \E p \in Procs, g \in Pages : PipeAlloc(p, g)
           \/ \E p \in Procs : PipeClose(p)
           \/ \E p \in Procs, n \in Reads : PipeRead(p, n)
           \/ \E p \in Procs : PipeWrite(p)
  <1>1. CASE UNCHANGED vars
    BY <1>1 DEF vars, pipe
  <1>2. ASSUME NEW p \in Procs, UserStep(p)
        PROVE  UNCHANGED <<pages, data, nread, nwrite, readopen, writeopen>>
    BY <1>2 DEF UserStep, SysPipe, SysOpen, SysDup, SysClose, SysRead, SysWrite, Fork, Exit, pipe
  <1>3. ASSUME NEW p \in Procs, KernelStep(p)
        PROVE  \/ UNCHANGED <<pages, data, nread, nwrite, readopen, writeopen>>
               \/ \E g \in Pages : PipeAlloc(p, g)
               \/ PipeClose(p)
               \/ \E n \in Reads : PipeRead(p, n)
               \/ PipeWrite(p)
    <2>1. CASE FileAlloc(p) \/ PipeNoMemory(p) \/ OpenFile(p) \/ FileClose(p) \/ FileIput(p)
               \/ ForkDup(p) \/ ForkRun(p) \/ ExitClose(p) \/ ExitEnd(p) \/ PipeReadWait(p)
      BY <2>1 DEF FileAlloc, PipeNoMemory, OpenFile, FileClose, FileIput, ForkDup, ForkRun, ExitClose,
                  ExitEnd, PipeReadWait, pipe
    <2> QED BY <1>3, <2>1 DEF KernelStep
  <1>4. ASSUME NEW p \in Procs, Kill(p)
        PROVE  UNCHANGED <<pages, data, nread, nwrite, readopen, writeopen>>
    BY <1>4 DEF Kill, pipe
  <1> QED BY <1>1, <1>2, <1>3, <1>4 DEF Next

\* A process that works on a page has one of the page's ends open.
LEMMA NobodyOn ==
    ASSUME IInv, NEW g \in Pages
    PROVE  /\ ~readopen[g] => Asleep(g, "rsleep") = {}
           /\ ~writeopen[g] => Asleep(g, "wsleep") = {}
  BY OnPage DEF Asleep, Reading, Writing

\* WakeupsComplete, for one pipe and one step.
Wakes(g) ==
    /\ \/ Count(g)' > Count(g) /\ ~GaveUp(g)
       \/ writeopen[g] /\ ~writeopen'[g]
       => Asleep(g, "rsleep")' = {}
    /\ \/ g \in pages /\ Count(g)' < Count(g)
       \/ readopen[g] /\ ~readopen'[g]
       => Asleep(g, "wsleep")' = {}

LEMMA WakesFrame ==
    ASSUME IInv, NEW g \in Pages, Count(g)' = Count(g), readopen[g] => readopen'[g],
           writeopen[g] => writeopen'[g]
    PROVE  Wakes(g)
  <1>1. Count(g) \in Int
    BY CountNat DEF IInv
  <1>2. ~(Count(g) > Count(g)) /\ ~(Count(g) < Count(g))
    BY <1>1
  <1> QED BY <1>2 DEF Wakes

LEMMA ReadWakesAll ==
    ASSUME IInv, NEW p \in Procs, NEW n \in Reads, PipeRead(p, n), NEW g \in Pages
    PROVE  Wakes(g)
  <1>1. UNCHANGED <<readopen, writeopen>>
    BY DEF PipeRead
  <1>2. CASE g # on[p]
    <2>1. Count(g)' = Count(g)
      BY <1>2, ReadMoves
    <2> QED BY <1>1, <2>1, WakesFrame
  <1>3. CASE g = on[p]
    <2>1. /\ Count(g)' = Count(g) - Smaller(n, Count(g)) /\ Count(g) \in Nat
          /\ Smaller(n, Count(g)) \in 0 .. Count(g)
      BY <1>3, ReadMoves
    <2>2. ~(Count(g)' > Count(g))
      BY <2>1
    <2>3. Asleep(g, "wsleep")' = {}
      <3>1. \A q \in Procs : pc'[q] = "wsleep" => on[q] # g
        BY <1>3 DEF PipeRead, ReadWakes, WakeWriters
      <3>2. \A q \in Procs : on'[q] = on[q] \/ on'[q] = None
        BY DEF PipeRead, IInv, TypeOK
      <3> QED BY <3>1, <3>2, PageIsNotNone DEF Asleep
    <2> QED BY <1>1, <2>2, <2>3 DEF Wakes
  <1> QED BY <1>2, <1>3

LEMMA WriteWakesAll ==
    ASSUME IInv, NEW p \in Procs, PipeWrite(p), NEW g \in Pages
    PROVE  Wakes(g)
  <1>1. UNCHANGED <<readopen, writeopen>> /\ pc[p] = "pipewrite"
    BY DEF PipeWrite
  <1>2. CASE g # on[p]
    <2>1. Count(g)' = Count(g)
      BY <1>2, WriteMoves
    <2> QED BY <1>1, <2>1, WakesFrame
  <1>3. CASE g = on[p]
    <2> DEFINE k == Smaller(Len(todo[p]), Room(g))
               done == k = Len(todo[p])
               fails == ~done /\ (~readopen[g] \/ killed[p])
    <2>1. Count(g)' = Count(g) + k /\ Count(g) \in Nat /\ k \in Nat
      BY <1>3, WriteMoves
    <2>2. /\ pc' = IF fails THEN [pc EXCEPT ![p] = "user"]
                   ELSE WakeReaders(g, [pc EXCEPT ![p] = IF done THEN "user" ELSE "wsleep"])
          /\ on' = [on EXCEPT ![p] = IF done \/ fails THEN None ELSE g]
      BY <1>3 DEF PipeWrite
    <2>3. ~(Count(g)' < Count(g))
      BY <2>1
    <2> HIDE DEF k, done
    <2>4. \A q \in Procs : on'[q] = on[q] \/ on'[q] = None
      BY <1>3, <2>2 DEF IInv, TypeOK
    <2>5. CASE ~fails
      <3>1. \A q \in Procs : pc'[q] = "rsleep" => on[q] # g
        BY <2>2, <2>5 DEF WakeReaders
      <3>2. Asleep(g, "rsleep")' = {}
        BY <2>4, <3>1, PageIsNotNone DEF Asleep
      <3> QED BY <1>1, <2>3, <3>2 DEF Wakes
    <2>6. CASE fails /\ killed[p]
      <3>1. GaveUp(g)
        <4>1. pc'[p] = "user"
          BY <2>2, <2>6 DEF IInv, TypeOK
        <4> QED BY <1>1, <1>3, <2>6, <4>1 DEF GaveUp
      <3> QED BY <1>1, <2>3, <3>1 DEF Wakes
    <2>7. CASE fails /\ ~killed[p]
      <3>1. ~readopen[g]
        BY <2>7
      <3>2. \A q \in Procs : pc[q] = "rsleep" => on[q] # g
        BY <3>1, NobodyOn DEF Asleep
      <3>3. \A q \in Procs : pc'[q] = "rsleep" => pc[q] = "rsleep"
        BY <2>2, <2>7 DEF IInv, TypeOK
      <3>4. Asleep(g, "rsleep")' = {}
        BY <2>4, <3>2, <3>3, PageIsNotNone DEF Asleep
      <3> QED BY <1>1, <2>3, <3>4 DEF Wakes
    <2> QED BY <2>5, <2>6, <2>7
  <1> QED BY <1>2, <1>3

LEMMA CloseWakesAll ==
    ASSUME IInv, NEW p \in Procs, PipeClose(p), NEW g \in Pages
    PROVE  Wakes(g)
  <1> DEFINE h == ff[p].page
             w == ff[p].writable
  <1>1. /\ h \in Pages /\ w \in BOOLEAN
        /\ \A x \in Pages : /\ readopen'[x] <=> readopen[x] /\ ~(x = h /\ ~w)
                            /\ writeopen'[x] <=> writeopen[x] /\ ~(x = h /\ w)
    BY CloseEnds
  <1>2. on' = on
    BY DEF PipeClose, io
  <1>3. CASE g # h
    <2>1. nread'[g] = nread[g] /\ nwrite'[g] = nwrite[g]
      BY <1>3, ClosePage
    <2>2. Count(g)' = Count(g)
      BY <2>1 DEF Count
    <2> QED BY <1>1, <1>3, <2>2, WakesFrame
  <1>4. CASE g = h
    <2>1. /\ w => Asleep(g, "rsleep")' = {}
          /\ ~w => Asleep(g, "wsleep")' = {}
      BY <1>2, <1>4, CloseGoes DEF Asleep
    <2>2. ~(Count(g)' > Count(g))
      <3>1. \/ g \in pages' /\ nread'[g] = nread[g] /\ nwrite'[g] = nwrite[g]
            \/ g \notin pages' /\ nread'[g] = 0 /\ nwrite'[g] = 0
        BY ClosePage
      <3>2. Count(g) \in 0 .. Wrap - 1 /\ Wrap \in Nat \ {0}
        BY CountNat, FilesAssumption DEF IInv
      <3>3. CASE g \in pages' /\ nread'[g] = nread[g] /\ nwrite'[g] = nwrite[g]
        <4>1. Count(g)' = Count(g)
          BY <3>3 DEF Count
        <4> QED BY <3>2, <4>1
      <3>4. CASE g \notin pages' /\ nread'[g] = 0 /\ nwrite'[g] = 0
        <4>1. Count(g)' = (0 - 0) % Wrap
          BY <3>4 DEF Count
        <4>2. (0 - 0) % Wrap = 0
          BY <3>2
        <4> QED BY <3>2, <3>4, <4>1, <4>2
      <3> QED BY <3>1, <3>3, <3>4
    <2>3. Asleep(g, "wsleep")' = {}
      <3>1. CASE ~w
        BY <2>1, <3>1
      <3>2. CASE w
        <4> SUFFICES ASSUME NEW q \in Procs, pc'[q] = "wsleep", on[q] = g PROVE FALSE
          BY <1>2 DEF Asleep
        <4>1. pc[q] \in Writing
          BY CloseGoes DEF Writing
        <4>2. PICK fd \in Fds : ofile[q][fd] # None /\ WriteEnd(ofile[q][fd], g)
          BY <4>1 DEF IInv, OnOK
        <4>3. ofile[q][fd] \in FileIds
          BY <4>2 DEF IInv, TypeOK
        <4> QED BY <1>4, <3>2, <4>2, <4>3, CloseEnds
      <3> QED BY <3>1, <3>2
    <2> QED BY <1>1, <1>4, <2>1, <2>2, <2>3 DEF Wakes
  <1> QED BY <1>3, <1>4

LEMMA AllocWakes ==
    ASSUME IInv, NEW p \in Procs, NEW h \in Pages, PipeAlloc(p, h), NEW g \in Pages
    PROVE  Wakes(g)
  <1>1. /\ nread'[g] = nread[g] /\ nwrite'[g] = nwrite[g]
        /\ readopen[g] => readopen'[g]
        /\ writeopen[g] => writeopen'[g]
    BY AllocEnds
  <1>2. Count(g)' = Count(g)
    BY <1>1 DEF Count
  <1> QED BY <1>1, <1>2, WakesFrame

\* No step makes a pipe readable or writable and leaves a sleeper behind,
\* apart from the killed writer's early return in pipewrite.
THEOREM FilesWakeupsComplete == Spec => WakeupsComplete
  <1>1. ASSUME IInv, [Next]_vars, NEW g \in Pages PROVE Wakes(g)
    <2>1. CASE UNCHANGED <<pages, data, nread, nwrite, readopen, writeopen>>
      <3>1. Count(g)' = Count(g)
        BY <2>1 DEF Count
      <3> QED BY <1>1, <2>1, <3>1, WakesFrame
    <2> QED BY <1>1, <2>1, PipeSteps, ReadWakesAll, WriteWakesAll, CloseWakesAll, AllocWakes
  <1>2. ASSUME IInv, [Next]_vars PROVE \A g \in Pages : Wakes(g)
    BY <1>1, <1>2
  <1>3. IInv /\ [Next]_vars => [\A g \in Pages : Wakes(g)]_vars
    BY <1>2
  <1> QED BY <1>3, InvIInv, PTL DEF Spec, WakeupsComplete, Wakes

-----------------------------------------------------------------------------
(***************************************************************************)
(* The ring is a stream of bytes.                                          *)
(***************************************************************************)

\* Numbers that differ by a multiple of b have the same place in the ring.
LEMMA SamePlace ==
    ASSUME NEW b \in Nat \ {0}, NEW x \in Int, NEW y \in Int, NEW t \in Int, x = y + b * t
    PROVE  x % b = y % b
  <1> DEFINE q == y \div b
             r == y % b
  <1>1. q \in Int /\ y = b * q + r /\ r \in 0 .. b - 1
    BY DivMod, ModRange
  <1> HIDE DEF q, r
  <1>2. x = b * (q + t) + r /\ q + t \in Int
    BY <1>1
  <1>3. x % b = r
    BY <1>1, <1>2, ModUnique
  <1> QED BY <1>3 DEF r

\* A counter wraps at a multiple of the size of the ring.
LEMMA WrapStep == ASSUME NEW x \in Int PROVE \E t \in Int : x = (x % Wrap) + PIPESIZE * t
  <1> DEFINE q == x \div Wrap
             r == x % Wrap
             c == Wrap \div PIPESIZE
  <1>1. Wrap \in Nat \ {0} /\ PIPESIZE \in Nat \ {0} /\ Wrap % PIPESIZE = 0
    BY FilesAssumption
  <1>2. q \in Int /\ x = Wrap * q + r /\ r \in 0 .. Wrap - 1
    BY <1>1, DivMod, ModRange
  <1>3. c \in Int /\ Wrap = PIPESIZE * c
    <2>1. c \in Int /\ Wrap = PIPESIZE * c + (Wrap % PIPESIZE)
      BY <1>1, DivMod
    <2>2. PIPESIZE * c \in Int
      BY <1>1, <2>1
    <2> HIDE DEF c
    <2> QED BY <1>1, <2>1, <2>2
  <1> HIDE DEF q, c
  <1>4. Wrap * q = PIPESIZE * (c * q)
    <2>1. Wrap * q = (PIPESIZE * c) * q
      BY <1>3
    <2>2. (PIPESIZE * c) * q = PIPESIZE * (c * q)
      BY <1>1, <1>2, <1>3
    <2> QED BY <2>1, <2>2
  <1>5. c * q \in Int
    BY <1>2, <1>3
  <1>6. x = r + PIPESIZE * (c * q)
    <2>1. PIPESIZE * (c * q) \in Int
      BY <1>1, <1>5
    <2> HIDE DEF r
    <2> QED BY <1>2, <1>4, <2>1
  <1> QED BY <1>5, <1>6

LEMMA WrapKeepsPlace ==
    ASSUME NEW x \in Int, NEW i \in Int
    PROVE  ((x % Wrap) + i) % PIPESIZE = (x + i) % PIPESIZE
  <1>1. PICK t \in Int : x = (x % Wrap) + PIPESIZE * t
    BY WrapStep
  <1> DEFINE r == x % Wrap
  <1>2. PIPESIZE \in Nat \ {0} /\ r \in Int
    BY FilesAssumption, ModRange
  <1>3. x = r + PIPESIZE * t
    BY <1>1
  <1> HIDE DEF r
  <1>4. x + i = (r + i) + PIPESIZE * t /\ r + i \in Int /\ x + i \in Int
    BY <1>2, <1>3
  <1>5. (x + i) % PIPESIZE = (r + i) % PIPESIZE
    BY <1>2, <1>4, SamePlace
  <1> QED BY <1>5 DEF r

\* The place of the i-th unread byte, counted from nwrite.
LEMMA FromWrite ==
    ASSUME NEW a \in 0 .. Wrap - 1, NEW b \in 0 .. Wrap - 1, NEW i \in Int
    PROVE  (((a + i - 1) % PIPESIZE) - b) % PIPESIZE = (i - 1 - ((b - a) % Wrap)) % PIPESIZE
  <1> DEFINE c == (b - a) % Wrap
             j == (a + i - 1) % PIPESIZE
             u == (a + i - 1) \div PIPESIZE
  <1>1. Wrap \in Nat \ {0} /\ PIPESIZE \in Nat \ {0} /\ b - a \in Int /\ a + i - 1 \in Int
    BY FilesAssumption
  <1>2. c \in 0 .. Wrap - 1
    BY <1>1, ModRange
  <1>3. u \in Int /\ a + i - 1 = PIPESIZE * u + j /\ j \in 0 .. PIPESIZE - 1
    BY <1>1, DivMod, ModRange
  <1>4. PICK t \in Int : b - a = c + PIPESIZE * t
    BY <1>1, WrapStep
  <1> HIDE DEF c, j, u
  <1>5. (i - 1 - c) = (j - b) + PIPESIZE * (u + t)
    BY <1>1, <1>2, <1>3, <1>4
  <1>6. i - 1 - c \in Int /\ j - b \in Int /\ u + t \in Int
    BY <1>1, <1>2, <1>3
  <1>7. (i - 1 - c) % PIPESIZE = (j - b) % PIPESIZE
    BY <1>1, <1>5, <1>6, SamePlace
  <1> QED BY <1>7 DEF c, j

\* Bytes that are already in the ring lie beyond the room that is left, new
\* ones follow each other.
LEMMA OldAndNew ==
    ASSUME NEW c \in 0 .. PIPESIZE, NEW i \in 1 .. PIPESIZE
    PROVE  (i - 1 - c) % PIPESIZE = IF i <= c THEN PIPESIZE - c + i - 1 ELSE i - 1 - c
  <1>1. PIPESIZE \in Nat \ {0}
    BY FilesAssumption
  <1>2. CASE i <= c
    <2> DEFINE r == PIPESIZE - c + i - 1
    <2>1. i - 1 - c = PIPESIZE * (0 - 1) + r /\ r \in 0 .. PIPESIZE - 1 /\ i - 1 - c \in Int /\ 0 - 1 \in Int
      BY <1>1, <1>2
    <2> HIDE DEF r
    <2>2. (i - 1 - c) % PIPESIZE = r
      BY <1>1, <2>1, ModUnique
    <2> QED BY <1>2, <2>2 DEF r
  <1>3. CASE ~(i <= c)
    <2>1. i - 1 - c = PIPESIZE * 0 + (i - 1 - c) /\ i - 1 - c \in 0 .. PIPESIZE - 1
      BY <1>1, <1>3
    <2> QED BY <1>1, <1>3, <2>1, ModUnique
  <1> QED BY <1>2, <1>3


\* n bytes of the ring d from counter a on.
Ring(n, a, d) == [i \in 1 .. n |-> d[(a + i - 1) % PIPESIZE]]

LEMMA RingSeq ==
    ASSUME NEW n \in Nat, NEW a \in Int, NEW d \in [0 .. PIPESIZE - 1 -> Bytes]
    PROVE  /\ Ring(n, a, d) \in Seq(Bytes) /\ Len(Ring(n, a, d)) = n
           /\ \A i \in 1 .. n : Ring(n, a, d)[i] = d[(a + i - 1) % PIPESIZE]
  <1>1. \A i \in 1 .. n : d[(a + i - 1) % PIPESIZE] \in Bytes
    <2> SUFFICES ASSUME NEW i \in 1 .. n PROVE d[(a + i - 1) % PIPESIZE] \in Bytes
      OBVIOUS
    <2>1. a + i - 1 \in Int /\ PIPESIZE \in Nat \ {0}
      BY FilesAssumption
    <2>2. (a + i - 1) % PIPESIZE \in 0 .. PIPESIZE - 1
      BY <2>1, ModRange
    <2> QED BY <2>2
  <1>2. Ring(n, a, d) \in [1 .. n -> Bytes]
    BY <1>1 DEF Ring
  <1>3. Ring(n, a, d) \in Seq(Bytes)
    BY <1>2, SeqDef
  <1>4. Len(Ring(n, a, d)) = n
    <2>1. DOMAIN Ring(n, a, d) = 1 .. n
      BY DEF Ring
    <2>2. DOMAIN Ring(n, a, d) = 1 .. Len(Ring(n, a, d)) /\ Len(Ring(n, a, d)) \in Nat
      BY <1>3, LenProperties
    <2> DEFINE l == Len(Ring(n, a, d))
    <2>3. l \in Nat /\ 1 .. l = 1 .. n
      BY <2>1, <2>2
    <2> HIDE DEF l
    <2>4. l = n
      BY <2>3
    <2> QED BY <2>4 DEF l
  <1> QED BY <1>3, <1>4 DEF Ring

\* A read of m bytes takes the oldest ones.
LEMMA RingRead ==
    ASSUME NEW n \in Nat, NEW a \in 0 .. Wrap - 1, NEW d \in [0 .. PIPESIZE - 1 -> Bytes], NEW m \in 0 .. n
    PROVE  Ring(n - m, (a + m) % Wrap, d) = SubSeq(Ring(n, a, d), m + 1, n)
  <1> DEFINE r == (a + m) % Wrap
             s == Ring(n - m, r, d)
             u == Ring(n, a, d)
             t == SubSeq(u, m + 1, n)
  <1>1. Wrap \in Nat \ {0} /\ a \in Int /\ m \in Int /\ n - m \in Nat /\ a + m \in Int
    BY FilesAssumption
  <1>2. r \in Int
    BY <1>1, ModRange
  <1>3. s \in Seq(Bytes) /\ Len(s) = n - m /\ \A i \in 1 .. n - m : s[i] = d[(r + i - 1) % PIPESIZE]
    <2> HIDE DEF r
    <2> QED BY <1>1, <1>2, RingSeq
  <1>4. u \in Seq(Bytes) /\ Len(u) = n /\ \A i \in 1 .. n : u[i] = d[(a + i - 1) % PIPESIZE]
    BY <1>1, RingSeq
  <1> HIDE DEF s, u
  <1>5. t \in Seq(Bytes) /\ Len(t) = n - m /\ \A i \in 1 .. n - m : t[i] = u[m + i]
    <2>1. \A i \in m + 1 .. n : u[i] \in Bytes
      <3>1. \A i \in m + 1 .. n : i \in 1 .. Len(u)
        BY <1>1, <1>4
      <3> QED BY <1>4, <3>1, ElementOfSeq
    <2>2. m + 1 \in Int /\ n \in Int
      BY <1>1
    <2>3. /\ t \in Seq(Bytes)
          /\ Len(t) = IF m + 1 <= n THEN n - (m + 1) + 1 ELSE 0
          /\ \A i \in 1 .. n - (m + 1) + 1 : t[i] = u[(m + 1) + i - 1]
      BY <2>1, <2>2, SubSeqProperties
    <2>4. n - (m + 1) + 1 = n - m /\ (~(m + 1 <= n) => n - m = 0)
      BY <1>1
    <2>5. \A i \in 1 .. n - m : (m + 1) + i - 1 = m + i
      BY <1>1
    <2> HIDE DEF t
    <2>6. \A i \in 1 .. n - m : t[i] = u[(m + 1) + i - 1]
      BY <2>3, <2>4
    <2>7. \A i \in 1 .. n - m : t[i] = u[m + i]
      BY <2>5, <2>6
    <2> QED BY <2>3, <2>4, <2>7
  <1> HIDE DEF t
  <1>6. \A i \in 1 .. n - m : s[i] = t[i]
    <2> SUFFICES ASSUME NEW i \in 1 .. n - m PROVE s[i] = t[i]
      OBVIOUS
    <2>1. s[i] = d[(r + i - 1) % PIPESIZE] /\ t[i] = u[m + i]
      BY <1>3, <1>5
    <2>2. m + i \in 1 .. n
      BY <1>1
    <2>3. u[m + i] = d[(a + (m + i) - 1) % PIPESIZE]
      BY <1>4, <2>2
    <2>4. ((r + (i - 1)) % PIPESIZE) = ((a + m) + (i - 1)) % PIPESIZE
      <3>1. i - 1 \in Int
        OBVIOUS
      <3> QED BY <1>1, <3>1, WrapKeepsPlace
    <2>5. r + i - 1 = r + (i - 1) /\ a + (m + i) - 1 = (a + m) + (i - 1)
      BY <1>1, <1>2
    <2> QED BY <2>1, <2>3, <2>4, <2>5
  <1>7. s = t
    BY <1>3, <1>5, <1>6, SeqEqual
  <1> QED BY <1>7 DEF s, t, u

\* The ring d with the bytes s from counter b on.
Put(b, s, d) ==
    [i \in 0 .. PIPESIZE - 1 |->
        LET k == (i - b) % PIPESIZE IN IF k < Len(s) THEN s[k + 1] ELSE d[i]]

\* A write of bytes that fit appends them.
LEMMA RingWrite ==
    ASSUME NEW a \in 0 .. Wrap - 1, NEW b \in 0 .. Wrap - 1, NEW d \in [0 .. PIPESIZE - 1 -> Bytes],
           NEW s \in Seq(Bytes), NEW c \in Nat, c = (b - a) % Wrap, c + Len(s) <= PIPESIZE,
           Put(b, s, d) \in [0 .. PIPESIZE - 1 -> Bytes]
    PROVE  Ring(c + Len(s), a, Put(b, s, d)) = Ring(c, a, d) \o s
  <1> DEFINE k == Len(s)
             e == Put(b, s, d)
             n == Ring(c + k, a, e)
             o == Ring(c, a, d)
             t == o \o s
  <1>1. Wrap \in Nat \ {0} /\ PIPESIZE \in Nat \ {0} /\ a \in Int /\ b - a \in Int /\ k \in Nat
    BY FilesAssumption
  <1>2. c \in Nat
    BY <1>1, ModRange
  <1>3. c + k \in Nat /\ c \in 0 .. PIPESIZE /\ \A i \in 1 .. c + k : i \in 1 .. PIPESIZE
    BY <1>1, <1>2
  <1>4. n \in Seq(Bytes) /\ Len(n) = c + k /\ \A i \in 1 .. c + k : n[i] = e[(a + i - 1) % PIPESIZE]
    <2> HIDE DEF k, e
    <2> QED BY <1>1, <1>3, RingSeq DEF e
  <1>5. o \in Seq(Bytes) /\ Len(o) = c /\ \A i \in 1 .. c : o[i] = d[(a + i - 1) % PIPESIZE]
    BY <1>1, <1>2, RingSeq
  <1> HIDE DEF n, o
  <1>6. t \in Seq(Bytes) /\ Len(t) = c + k /\ \A i \in 1 .. c + k : t[i] = IF i <= c THEN o[i] ELSE s[i - c]
    <2>1. /\ t \in Seq(Bytes) /\ Len(t) = Len(o) + Len(s)
          /\ \A i \in 1 .. Len(o) + Len(s) : t[i] = IF i <= Len(o) THEN o[i] ELSE s[i - Len(o)]
      BY <1>5, ConcatProperties, Zenon
    <2> HIDE DEF t
    <2> QED BY <1>5, <2>1, Zenon
  <1> HIDE DEF t, k
  <1>7. \A i \in 1 .. c + k : n[i] = t[i]
    <2> SUFFICES ASSUME NEW i \in 1 .. c + k PROVE n[i] = t[i]
      OBVIOUS
    <2> DEFINE j == (a + i - 1) % PIPESIZE
               m == (j - b) % PIPESIZE
    <2>1. i \in Int /\ i \in 1 .. PIPESIZE /\ a + i - 1 \in Int
      BY <1>1, <1>3
    <2>2. j \in 0 .. PIPESIZE - 1
      BY <1>1, <2>1, ModRange
    <2>3. m = IF i <= c THEN PIPESIZE - c + i - 1 ELSE i - 1 - c
      <3>1. m = (i - 1 - c) % PIPESIZE
        BY <2>1, FromWrite
      <3>2. (i - 1 - c) % PIPESIZE = IF i <= c THEN PIPESIZE - c + i - 1 ELSE i - 1 - c
        BY <1>3, <2>1, OldAndNew
      <3> QED BY <3>1, <3>2
    <2>4. n[i] = e[j]
      BY <1>4
    <2>5. e[j] = IF m < k THEN s[m + 1] ELSE d[j]
      <3> HIDE DEF j
      <3> QED BY <2>2 DEF e, Put, k
    <2> HIDE DEF m, e
    <2>6. CASE i <= c
      <3>1. ~(m < k)
        <4>1. m = PIPESIZE - c + i - 1
          BY <2>3, <2>6
        <4> QED BY <1>1, <1>2, <2>1, <4>1 DEF k
      <3>2. i \in 1 .. c
        BY <1>2, <2>1, <2>6
      <3>3. o[i] = d[j]
        BY <1>5, <3>2
      <3>4. t[i] = o[i]
        BY <1>6, <2>6
      <3> QED BY <2>4, <2>5, <3>1, <3>3, <3>4
    <2>7. CASE ~(i <= c)
      <3>1. m = i - 1 - c
        BY <2>3, <2>7
      <3>2. m < k /\ m + 1 = i - c
        BY <1>1, <1>2, <2>1, <3>1
      <3>3. t[i] = s[i - c]
        BY <1>6, <2>7
      <3> QED BY <2>4, <2>5, <3>2, <3>3
    <2> QED BY <2>6, <2>7
  <1>8. n = t
    BY <1>4, <1>6, <1>7, SeqEqual
  <1> QED BY <1>8 DEF n, t, o, e, k

Stream(g) == IF g \in pages THEN Unread(g) ELSE <<>>

LEMMA UnreadIsRing ==
    ASSUME NEW g
    PROVE  /\ Unread(g) = Ring(Count(g), nread[g], data[g])
           /\ Unread(g)' = Ring(Count(g)', nread'[g], data'[g])
  BY DEF Unread, Ring

LEMMA StreamLen ==
    ASSUME IInv, NEW g \in Pages
    PROVE  Unread(g) \in Seq(Bytes) /\ Len(Unread(g)) = Count(g) /\ Count(g) \in Nat
  <1>1. Count(g) \in Nat /\ nread[g] \in Int /\ data[g] \in [0 .. PIPESIZE - 1 -> Bytes]
    BY CountNat DEF IInv, TypeOK
  <1> QED BY <1>1, RingSeq, UnreadIsRing

LEMMA EmptyRing == ASSUME NEW a \in Int, NEW d \in [0 .. PIPESIZE - 1 -> Bytes] PROVE Ring(0, a, d) = <<>>
  <1>1. Ring(0, a, d) \in Seq(Bytes) /\ Len(Ring(0, a, d)) = 0
    BY RingSeq
  <1> QED BY <1>1, EmptySeq

\* A step of the stream that stands for pipe g.
StreamStep(g) == Pipe(g)!Next \/ UNCHANGED Pipe(g)!vars

LEMMA StreamFrame ==
    ASSUME NEW g \in Pages, Stream(g)' = Stream(g), readopen'[g] = readopen[g], writeopen'[g] = writeopen[g]
    PROVE  StreamStep(g)
  BY DEF StreamStep, Stream, Pipe!vars

LEMMA RingUnchanged ==
    ASSUME NEW g, UNCHANGED <<pages>>, nread'[g] = nread[g], nwrite'[g] = nwrite[g], data'[g] = data[g]
    PROVE  Stream(g)' = Stream(g)
  <1>1. Count(g)' = Count(g)
    BY DEF Count
  <1>2. Unread(g)' = Unread(g)
    BY <1>1, UnreadIsRing
  <1> QED BY <1>2 DEF Stream

LEMMA AllocStreams ==
    ASSUME IInv, NEW p \in Procs, NEW h \in Pages, PipeAlloc(p, h), NEW g \in Pages
    PROVE  StreamStep(g)
  <1>1. /\ nread'[g] = nread[g] /\ nwrite'[g] = nwrite[g] /\ data' = data /\ pages' = pages \cup {h}
        /\ h \notin pages /\ ~readopen[h] /\ ~writeopen[h] /\ readopen'[h] /\ writeopen'[h]
        /\ g # h => readopen'[g] = readopen[g] /\ writeopen'[g] = writeopen[g]
        /\ nread[h] = 0 /\ nwrite[h] = 0
        /\ readopen' \in [Pages -> BOOLEAN] /\ writeopen' \in [Pages -> BOOLEAN]
    BY AllocEnds
  <1>2. Count(g)' = Count(g) /\ Unread(g)' = Unread(g)
    <2>1. Count(g)' = Count(g)
      BY <1>1 DEF Count
    <2> QED BY <1>1, <2>1, UnreadIsRing
  <1>3. CASE g # h
    <2>1. Stream(g)' = Stream(g)
      BY <1>1, <1>2, <1>3 DEF Stream
    <2> QED BY <1>1, <1>3, <2>1, StreamFrame
  <1>4. CASE g = h
    <2>1. Count(g) = 0
      <3>1. (0 - 0) % Wrap = 0
        BY FilesAssumption
      <3> QED BY <1>1, <1>4, <3>1 DEF Count
    <2>2. Unread(g) = <<>>
      <3>1. nread[g] \in Int /\ data[g] \in [0 .. PIPESIZE - 1 -> Bytes]
        BY CountNat DEF IInv, TypeOK
      <3> QED BY <2>1, <3>1, UnreadIsRing, EmptyRing
    <2>3. readopen'[g] = TRUE /\ writeopen'[g] = TRUE
      BY <1>1, <1>4
    <2> QED BY <1>1, <1>2, <1>4, <2>2, <2>3 DEF StreamStep, Pipe!Next, Pipe!Open
  <1> QED BY <1>3, <1>4

LEMMA CloseStreams ==
    ASSUME IInv, NEW p \in Procs, PipeClose(p), NEW g \in Pages
    PROVE  StreamStep(g)
  <1> DEFINE h == ff[p].page
             w == ff[p].writable
  <1>1. /\ h \in pages /\ h \in Pages /\ w \in BOOLEAN
        /\ w => writeopen[h]
        /\ ~w => readopen[h]
        /\ readopen' \in [Pages -> BOOLEAN] /\ writeopen' \in [Pages -> BOOLEAN]
        /\ \A x \in Pages : /\ readopen'[x] <=> readopen[x] /\ ~(x = h /\ ~w)
                            /\ writeopen'[x] <=> writeopen[x] /\ ~(x = h /\ w)
    BY CloseEnds
  <1>2. readopen[g] \in BOOLEAN /\ writeopen[g] \in BOOLEAN
    BY DEF IInv, TypeOK
  <1>3. /\ PagesOK'
        /\ \/ g \in pages' /\ g \in pages
              /\ nread'[g] = nread[g] /\ nwrite'[g] = nwrite[g] /\ data'[g] = data[g]
           \/ g \notin pages' /\ nread'[g] = 0 /\ nwrite'[g] = 0
    BY ClosePage
  <1>4. g \in pages' <=> readopen'[g] \/ writeopen'[g]
    BY <1>3 DEF PagesOK
  <1>5. g \in pages <=> readopen[g] \/ writeopen[g]
    BY DEF IInv, PagesOK
  <1>6. Stream(g)' = IF readopen'[g] \/ writeopen'[g] THEN Stream(g) ELSE <<>>
    <2>1. CASE g \in pages'
      <3>1. Count(g)' = Count(g)
        BY <1>3, <2>1 DEF Count
      <3>2. Unread(g)' = Unread(g)
        BY <1>3, <2>1, <3>1, UnreadIsRing
      <3> QED BY <1>3, <1>4, <2>1, <3>2 DEF Stream
    <2>2. CASE g \notin pages'
      BY <1>4, <2>2 DEF Stream
    <2> QED BY <2>1, <2>2
  <1>7. CASE g # h
    <2>1. readopen'[g] = readopen[g] /\ writeopen'[g] = writeopen[g]
      BY <1>1, <1>2, <1>7
    <2>2. Stream(g)' = Stream(g)
      BY <1>5, <1>6, <2>1 DEF Stream
    <2> QED BY <2>1, <2>2, StreamFrame
  <1>8. CASE g = h
    <2>1. \/ readopen[g] /\ readopen'[g] = FALSE /\ writeopen'[g] = writeopen[g]
          \/ writeopen[g] /\ writeopen'[g] = FALSE /\ readopen'[g] = readopen[g]
      BY <1>1, <1>2, <1>8
    <2> QED BY <1>6, <2>1 DEF StreamStep, Stream, Pipe!Next, Pipe!Close
  <1> QED BY <1>7, <1>8

LEMMA ReadStreams ==
    ASSUME IInv, NEW p \in Procs, NEW n \in Reads, PipeRead(p, n), NEW g \in Pages
    PROVE  StreamStep(g)
  <1>1. UNCHANGED <<pages, data, nwrite, readopen, writeopen>>
    BY DEF PipeRead
  <1>2. CASE g # on[p]
    <2>1. nread'[g] = nread[g]
      BY <1>2, ReadMoves
    <2> QED BY <1>1, <2>1, RingUnchanged, StreamFrame
  <1>3. CASE g = on[p]
    <2> DEFINE m == Smaller(n, Count(g))
               s == Unread(g)
    <2>1. /\ g \in pages /\ readopen[g] /\ m \in 0 .. Count(g) /\ Count(g) \in Nat
          /\ nread'[g] = (nread[g] + m) % Wrap /\ Count(g)' = Count(g) - m
      BY <1>3, ReadMoves
    <2> HIDE DEF m
    <2>2. Unread(g)' = SubSeq(s, m + 1, Count(g))
      <3>1. nread[g] \in 0 .. Wrap - 1 /\ data[g] \in [0 .. PIPESIZE - 1 -> Bytes]
        BY CountNat DEF IInv, TypeOK
      <3>2. Ring(Count(g) - m, (nread[g] + m) % Wrap, data[g])
            = SubSeq(Ring(Count(g), nread[g], data[g]), m + 1, Count(g))
        BY <2>1, <3>1, RingRead
      <3>3. Unread(g)' = Ring(Count(g) - m, (nread[g] + m) % Wrap, data[g])
        BY <1>1, <2>1, UnreadIsRing
      <3> QED BY <3>2, <3>3, UnreadIsRing
    <2>3. s \in Seq(Bytes) /\ Len(s) = Count(g)
      BY StreamLen
    <2> HIDE DEF s
    <2>4. CASE m = 0
      <3>1. SubSeq(s, 1, Len(s)) = s
        BY <2>3, SubSeqFull
      <3>2. Unread(g)' = s
        BY <2>2, <2>3, <2>4, <3>1
      <3>3. Stream(g)' = Stream(g)
        BY <1>1, <3>2 DEF Stream, s
      <3> QED BY <1>1, <3>3, StreamFrame
    <2>5. CASE m # 0
      <3>1. m \in 1 .. Len(s)
        BY <2>1, <2>3, <2>5
      <3>2. Unread(g)' = SubSeq(s, m + 1, Len(s))
        BY <2>2, <2>3
      <3>3. \E k \in 1 .. Len(s) : Unread(g)' = SubSeq(s, k + 1, Len(s))
        BY <3>1, <3>2
      <3> QED BY <1>1, <2>1, <3>3 DEF StreamStep, s, Pipe!Next, Pipe!Read
    <2> QED BY <2>4, <2>5
  <1> QED BY <1>2, <1>3

LEMMA WriteStreams ==
    ASSUME IInv, NEW p \in Procs, PipeWrite(p), NEW g \in Pages
    PROVE  StreamStep(g)
  <1>1. UNCHANGED <<pages, nread, readopen, writeopen>>
    BY DEF PipeWrite
  <1>0. PICK o : o = on[p]
    OBVIOUS
  <1> DEFINE k == Smaller(Len(todo[p]), Room(o))
             b == SubSeq(todo[p], 1, k)
  <1>2. /\ o \in Pages /\ o \in pages /\ writeopen[o]
        /\ k \in Nat /\ k <= Len(todo[p]) /\ Count(o) \in Nat /\ Count(o) + k <= PIPESIZE
        /\ nwrite'[o] = (nwrite[o] + k) % Wrap
        /\ \A h \in Pages \ {o} : nwrite'[h] = nwrite[h]
        /\ Count(o)' = Count(o) + k
    <2>1. /\ o \in Pages /\ o \in pages /\ writeopen[o]
          /\ k \in Nat /\ k <= Len(todo[p]) /\ Count(o) \in Nat /\ Count(o) + k <= PIPESIZE
      BY <1>0, WriteMoves
    <2>2. nwrite'[o] = (nwrite[o] + k) % Wrap /\ Count(o)' = Count(o) + k
      BY <1>0, WriteMoves
    <2>3. \A h \in Pages \ {o} : nwrite'[h] = nwrite[h]
      BY <1>0, WriteMoves
    <2> QED BY <2>1, <2>2, <2>3
  <1>3. data' = [data EXCEPT ![o] = Stored(o, b)]
    BY <1>0 DEF PipeWrite
  <1> HIDE DEF k, b
  <1>4. data'[o] = Stored(o, b) /\ \A h \in Pages \ {o} : data'[h] = data[h]
    BY <1>2, <1>3 DEF IInv, TypeOK
  <1>5. CASE g # o
    <2>1. nwrite'[g] = nwrite[g] /\ data'[g] = data[g]
      BY <1>2, <1>4, <1>5
    <2> QED BY <1>1, <2>1, RingUnchanged, StreamFrame
  <1>6. CASE g = o
    <2>1. b \in Seq(Bytes) /\ Len(b) = k
      <3>1. todo[p] \in Seq(Bytes) /\ Len(todo[p]) \in Nat
        BY DEF IInv, TypeOK
      <3>2. \A i \in 1 .. k : todo[p][i] \in Bytes
        <4>1. \A i \in 1 .. k : i \in 1 .. Len(todo[p])
          BY <1>2, <3>1
        <4> QED BY <3>1, <4>1, ElementOfSeq
      <3>3. b \in Seq(Bytes) /\ Len(b) = IF 1 <= k THEN k - 1 + 1 ELSE 0
        BY <1>2, <3>2, SubSeqProperties DEF b
      <3> QED BY <1>2, <3>3
    <2>2. /\ nread[g] \in 0 .. Wrap - 1 /\ nwrite[g] \in 0 .. Wrap - 1
          /\ data[g] \in [0 .. PIPESIZE - 1 -> Bytes]
      BY CountNat DEF IInv, TypeOK
    <2>3. Stored(g, b) \in [0 .. PIPESIZE - 1 -> Bytes] /\ Stored(g, b) = Put(nwrite[g], b, data[g])
      BY <2>1, StoredBytes DEF Stored, Put, IInv
    <2>4. Ring(Count(g) + Len(b), nread[g], Put(nwrite[g], b, data[g])) = Ring(Count(g), nread[g], data[g]) \o b
      <3>1. Count(g) = (nwrite[g] - nread[g]) % Wrap
        BY DEF Count
      <3>2. Count(g) + Len(b) <= PIPESIZE
        BY <1>2, <1>6, <2>1
      <3>3. Put(nwrite[g], b, data[g]) \in [0 .. PIPESIZE - 1 -> Bytes]
        BY <2>3
      <3> DEFINE c == Count(g)
                 x == nread[g]
                 y == nwrite[g]
                 d == data[g]
      <3> SUFFICES Ring(c + Len(b), x, Put(y, b, d)) = Ring(c, x, d) \o b
        OBVIOUS
      <3>4. /\ x \in 0 .. Wrap - 1 /\ y \in 0 .. Wrap - 1 /\ d \in [0 .. PIPESIZE - 1 -> Bytes]
            /\ b \in Seq(Bytes) /\ c \in Nat /\ c = (y - x) % Wrap /\ c + Len(b) <= PIPESIZE
            /\ Put(y, b, d) \in [0 .. PIPESIZE - 1 -> Bytes]
        BY <1>2, <1>6, <2>1, <2>2, <3>1, <3>2, <3>3
      <3> HIDE DEF c, x, y, d
      <3> QED BY <3>4, RingWrite
    <2>5. Unread(g)' = Unread(g) \o b
      <3>1. Unread(g)' = Ring(Count(g) + Len(b), nread[g], Put(nwrite[g], b, data[g]))
        <4>1. Count(g)' = Count(g) + Len(b)
          BY <1>2, <1>6, <2>1
        <4>2. nread'[g] = nread[g] /\ data'[g] = Put(nwrite[g], b, data[g])
          BY <1>1, <1>4, <1>6, <2>3
        <4> QED BY <4>1, <4>2, UnreadIsRing, Zenon
      <3> QED BY <2>4, <3>1, UnreadIsRing
    <2>6. Unread(g) \in Seq(Bytes) /\ Len(Unread(g)) = Count(g)
      BY StreamLen
    <2>7. CASE k = 0
      <3>1. b = <<>>
        BY <2>1, <2>7, EmptySeq
      <3>2. Unread(g)' = Unread(g)
        BY <2>5, <2>6, <3>1, ConcatEmptySeq
      <3>3. Stream(g)' = Stream(g)
        BY <1>1, <3>2 DEF Stream
      <3> QED BY <1>1, <3>3, StreamFrame
    <2>8. CASE k # 0
      <3>1. k \in 1 .. PIPESIZE - Len(Unread(g))
        <4>1. PIPESIZE \in Nat
          BY FilesAssumption
        <4> QED BY <1>2, <1>6, <2>6, <2>8, <4>1
      <3>2. b \in [1 .. k -> Bytes]
        BY <2>1, LenProperties
      <3>3. \E n \in 1 .. PIPESIZE - Len(Unread(g)) : \E s \in [1 .. n -> Bytes] : Unread(g)' = Unread(g) \o s
        BY <2>5, <3>1, <3>2
      <3>4. writeopen[g] /\ g \in pages /\ g \in pages'
        BY <1>1, <1>2, <1>6
      <3> QED BY <1>1, <3>3, <3>4 DEF StreamStep, Pipe!Next, Pipe!Write
    <2> QED BY <2>7, <2>8
  <1> QED BY <1>5, <1>6

\* Only piperead itself brings a reader that is not killed back to its caller.
LEMMA ReturnsFromRead ==
    ASSUME IInv, [Next]_vars, NEW p \in Procs, pc[p] = "piperead", pc'[p] = "user", ~killed[p]
    PROVE  MayRead(on[p])
  <1> USE DEF IInv
  <1>1. CASE UNCHANGED vars
    BY <1>1 DEF vars
  <1>2. ASSUME NEW q \in Procs, UserStep(q) PROVE FALSE
    BY <1>2 DEF UserStep, SysPipe, SysOpen, SysDup, SysClose, SysRead, SysWrite, Fork, Exit, Calling, Goto, TypeOK
  <1>3. ASSUME NEW q \in Procs, Kill(q) PROVE FALSE
    BY <1>3 DEF Kill, Goto, TypeOK
  <1>4. ASSUME NEW q \in Procs, KernelStep(q) PROVE MayRead(on[p])
    <2>1. CASE FileAlloc(q) \/ PipeNoMemory(q) \/ OpenFile(q)
      BY <2>1 DEF FileAlloc, PipeNoMemory, OpenFile, Goto, TypeOK
    <2>2. CASE \E g \in Pages : PipeAlloc(q, g)
      <3>1. pc[q] = "pipealloc"
        BY <2>2 DEF PipeAlloc
      <3>2. q # p
        BY <3>1
      <3> QED BY <2>2, <3>2, AllocGoes
    <2>3. CASE FileClose(q)
      BY <2>3 DEF FileClose, Closed, Goto, TypeOK
    <2>4. CASE FileIput(q)
      <3>1. ff[q] # NoFile
        BY <2>4 DEF FileIput, NoFile
      <3>2. q # p
        BY <3>1 DEF CallsOK, Quiet, Reading
      <3> QED BY <2>4, <3>2 DEF FileIput, Closed, Goto, TypeOK
    <2>5. CASE PipeClose(q)
      BY <2>5, CloseGoes
    <2>6. CASE ForkDup(q) \/ ForkRun(q)
      BY <2>6 DEF ForkDup, ForkRun, ForksOK, TypeOK
    <2>7. CASE ExitClose(q) \/ ExitEnd(q)
      BY <2>7 DEF ExitClose, ExitEnd, Goto, TypeOK
    <2>8. CASE PipeReadWait(q)
      BY <2>8 DEF PipeReadWait, Goto, TypeOK
    <2>9. CASE \E n \in Reads : PipeRead(q, n)
      BY <2>9 DEF PipeRead, ReadWakes, WakeWriters, TypeOK
    <2>10. CASE PipeWrite(q)
      BY <2>10 DEF PipeWrite, WakeReaders, TypeOK
    <2> QED BY <1>4, <2>1, <2>2, <2>3, <2>4, <2>5, <2>6, <2>7, <2>8, <2>9, <2>10 DEF KernelStep
  <1> QED BY <1>1, <1>2, <1>3, <1>4 DEF Next

LEMMA EofIsEnd ==
    ASSUME IInv, [Next]_vars, NEW p \in Procs, AtEof(p)
    PROVE  Ends(on[p], TRUE) = {}
  <1>1. /\ pc[p] = "piperead" /\ pc'[p] = "user" /\ ~killed[p] /\ Count(on[p]) = 0
    BY DEF AtEof
  <1>2. on[p] \in Pages
    BY <1>1, OnPage DEF Reading
  <1>3. nread[on[p]] = nwrite[on[p]]
    <2> DEFINE a == nread[on[p]]
               b == nwrite[on[p]]
    <2>1. a \in 0 .. Wrap - 1 /\ b \in 0 .. Wrap - 1 /\ Wrap \in Nat \ {0} /\ (b - a) % Wrap = 0
      BY <1>1, <1>2, CountNat, FilesAssumption DEF IInv, Count
    <2> HIDE DEF a, b
    <2>2. b - a \in Int
      BY <2>1
    <2>3. (b - a) \div Wrap \in Int /\ b - a = Wrap * ((b - a) \div Wrap) + 0
      BY <2>1, <2>2, DivMod
    <2>4. a = b
      BY <2>1, <2>2, <2>3
    <2> QED BY <2>4 DEF a, b
  <1>4. ~writeopen[on[p]]
    BY <1>1, <1>3, ReturnsFromRead DEF MayRead
  <1> QED BY <1>2, <1>4, EndsCount

\* Whatever readers, writers, closers and kill() do, the ring of pipe.c with
\* its wrapping counters is the first-in first-out stream of ByteStream, and a
\* read reports the end only when nothing stands for the write end any more.
THEOREM PipeImplementsByteStream == Spec => PipeIsByteStream
  <1> DEFINE A == /\ \A g \in Pages : StreamStep(g)
                  /\ \A p \in Procs : AtEof(p) => Ends(on[p], TRUE) = {}
  <1>1. Init => \A g \in Pages : Pipe(g)!Init
    BY DEF Init, Pipe!Init
  <1>2. ASSUME IInv, [Next]_vars, NEW g \in Pages PROVE StreamStep(g)
    <2>1. CASE UNCHANGED <<pages, data, nread, nwrite, readopen, writeopen>>
      BY <2>1, RingUnchanged, StreamFrame
    <2> QED BY <1>2, <2>1, PipeSteps, AllocStreams, CloseStreams, ReadStreams, WriteStreams
  <1>3. ASSUME IInv, [Next]_vars PROVE A
    BY <1>2, <1>3, EofIsEnd
  <1>4. IInv /\ [Next]_vars => [A]_vars
    BY <1>3
  <1> QED BY <1>1, <1>4, InvIInv, PTL DEF Spec, PipeIsByteStream, StreamStep
=============================================================================
