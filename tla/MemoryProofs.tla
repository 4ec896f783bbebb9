---------------------------- MODULE MemoryProofs ----------------------------
(***************************************************************************)
(* Proofs about Memory for any number of processes and pages: no page      *)
(* disappears or is freed twice, and the size of a process is what it has  *)
(* mapped.                                                                 *)
(***************************************************************************)
EXTENDS Memory, FiniteSetTheorems, TLAPS

\* There are finitely many processes, a user page and a page table exist, and
\* userinit finds its pages.
MemoryConstants ==
    /\ IsFiniteSet(Slots) /\ First \in Slots
    /\ NFRAMES \in Nat /\ NFRAMES >= 5
    /\ MaxPages \in Nat \ {0} /\ PerTable \in Nat \ {0}

-----------------------------------------------------------------------------
(***************************************************************************)
(* The inductive invariant.                                                *)
(***************************************************************************)

Labels == {"unused", "embryo", "user", "grow", "fork", "exec", "unmapped", "zombie"}

\* The places an address space has.
Places ==
    {Dir, Kern} \cup {Page(v) : v \in 0 .. MaxPages - 1} \cup {Table(v) : v \in 0 .. MaxPages - 1}

Types ==
    /\ free \in Nat /\ lost \in Nat
    /\ space \in [Slots -> SUBSET Places] /\ draft \in [Slots -> SUBSET Places]
    /\ sz \in [Slots -> 0 .. MaxPages] /\ goal \in [Slots -> 0 .. MaxPages]
    /\ mem \in [Slots -> BOOLEAN] /\ kstack \in [Slots -> BOOLEAN]
    /\ child \in [Slots -> Slots] /\ at \in [Slots -> Labels]

\* S maps the first k user pages, with their tables and the kernel's part.
Full(S, k) ==
    /\ Pages(S) = UpTo(k)
    /\ {Dir, Kern} \cup {Table(v) : v \in UpTo(k)} \subseteq S

\* The space a process runs in, and the one that its call builds.
SpaceOK(s) ==
    /\ at[s] \in {"user", "exec", "fork"} => Full(space[s], sz[s])
    /\ at[s] = "grow" => \E k \in sz[s] .. goal[s] : Full(space[s], k)
    /\ at[s] \in {"unused", "embryo"} => space[s] = {}
DraftOK(s) ==
    IF at[s] \in {"fork", "exec"}
    THEN IF Kern \in draft[s] THEN \E k \in 0 .. goal[s] : Full(draft[s], k)
         ELSE draft[s] \subseteq {Dir}
    ELSE draft[s] = {}

\* The pages outside of the spaces, and the child of a fork.
CallOK(s) ==
    /\ mem[s] => Ready(s) /\ NextPage(s) < goal[s]
    /\ kstack[s] <=> at[s] # "unused"
    /\ IF at[s] = "fork" THEN at[child[s]] = "embryo" ELSE child[s] = s

SlotOK(s) == SpaceOK(s) /\ DraftOK(s) /\ CallOK(s)
ForksOK   == \A s, t \in Slots : at[s] = "fork" /\ at[t] = "fork" /\ child[s] = child[t] => s = t

IInv == Types /\ PagesConserved /\ ForksOK /\ \A s \in Slots : SlotOK(s)

-----------------------------------------------------------------------------
(***************************************************************************)
(* Lemmas about finite sets and counts of pages.                           *)
(***************************************************************************)

LEMMA CardAdd ==
    ASSUME NEW S, IsFiniteSet(S), NEW x, x \notin S
    PROVE  IsFiniteSet(S \cup {x}) /\ Cardinality(S \cup {x}) = Cardinality(S) + 1
  BY FS_AddElement

LEMMA CardDrop ==
    ASSUME NEW S, IsFiniteSet(S), NEW x \in S
    PROVE  /\ IsFiniteSet(S \ {x}) /\ Cardinality(S) \in Nat /\ Cardinality(S) >= 1
           /\ Cardinality(S \ {x}) = Cardinality(S) - 1
  <1>1. Cardinality(S) \in Nat /\ Cardinality(S \ {x}) \in Nat
    BY FS_CardinalityType, FS_RemoveElement
  <1>2. Cardinality(S \ {x}) = Cardinality(S) - 1
    BY FS_RemoveElement
  <1> QED BY <1>1, <1>2, FS_RemoveElement

LEMMA CardDisjoint ==
    ASSUME NEW S, IsFiniteSet(S), NEW T, IsFiniteSet(T), S \cap T = {}
    PROVE  /\ IsFiniteSet(S \cup T) /\ Cardinality(S) \in Nat /\ Cardinality(T) \in Nat
           /\ Cardinality(S \cup T) = Cardinality(S) + Cardinality(T)
  <1>1. Cardinality(S) \in Nat /\ Cardinality(T) \in Nat
    BY FS_CardinalityType
  <1>2. Cardinality(S \cap T) = 0
    BY FS_EmptySet
  <1>3. Cardinality(S \cup T) = Cardinality(S) + Cardinality(T) - Cardinality(S \cap T)
    BY FS_Union
  <1> QED BY <1>1, <1>2, <1>3, FS_Union

LEMMA PlacesFinite ==
    ASSUME MemoryConstants
    PROVE  /\ IsFiniteSet(Places)
           /\ \A S \in SUBSET Places : IsFiniteSet(S) /\ Cardinality(S) \in Nat
  <1> DEFINE V == 0 .. MaxPages - 1
             A == {Page(v) : v \in V}
             B == {Table(v) : v \in V}
  <1>1. IsFiniteSet(V)
    BY FS_Interval DEF MemoryConstants
  <1>2. IsFiniteSet(A)
    <2>1. [v \in V |-> Page(v)] \in Surjection(V, A)
      BY DEF Surjection
    <2> QED BY <1>1, <2>1, FS_Surjection
  <1>3. IsFiniteSet(B)
    <2>1. [v \in V |-> Table(v)] \in Surjection(V, B)
      BY DEF Surjection
    <2> QED BY <1>1, <2>1, FS_Surjection
  <1>4. IsFiniteSet({Dir, Kern})
    <2>1. IsFiniteSet({Dir}) /\ {Dir, Kern} = {Dir} \cup {Kern}
      BY FS_Singleton
    <2> QED BY <2>1, FS_AddElement
  <1>5. Places = {Dir, Kern} \cup A \cup B
    BY DEF Places
  <1> HIDE DEF A, B, V
  <1>6. IsFiniteSet({Dir, Kern} \cup A)
    BY <1>2, <1>4, FS_Union
  <1>7. IsFiniteSet(Places)
    BY <1>3, <1>5, <1>6, FS_Union
  <1> QED BY <1>7, FS_Subset, FS_CardinalityType

\* The pairs that Count counts.
Graph(f) == {y \in Slots \X Places : y[2] \in f[y[1]]}

LEMMA CountIs ==
    ASSUME NEW f \in [Slots -> SUBSET Places]
    PROVE  Count(f) = Cardinality(Graph(f))
  <1>1. {y \in Slots \X UNION {f[s] : s \in Slots} : y[2] \in f[y[1]]} = Graph(f)
    BY DEF Graph
  <1> QED BY <1>1 DEF Count

LEMMA GraphFinite ==
    ASSUME MemoryConstants, NEW f \in [Slots -> SUBSET Places]
    PROVE  IsFiniteSet(Graph(f)) /\ Count(f) \in Nat
  <1>1. IsFiniteSet(Slots \X Places)
    BY PlacesFinite, FS_Product DEF MemoryConstants
  <1>2. IsFiniteSet(Graph(f))
    BY <1>1, FS_Subset DEF Graph
  <1> QED BY <1>2, CountIs, FS_CardinalityType

\* The places of one slot, counted among all.
LEMMA CountSet ==
    ASSUME MemoryConstants, NEW f \in [Slots -> SUBSET Places], NEW s \in Slots, NEW S \in SUBSET Places
    PROVE  /\ Count(f) \in Nat /\ Count([f EXCEPT ![s] = S]) \in Nat
           /\ Cardinality(f[s]) \in Nat /\ Cardinality(S) \in Nat
           /\ Count([f EXCEPT ![s] = S]) + Cardinality(f[s]) = Count(f) + Cardinality(S)
  <1> DEFINE g    == [f EXCEPT ![s] = S]
             Rest == {y \in Slots \X Places : y[1] # s /\ y[2] \in f[y[1]]}
  <1>1. g \in [Slots -> SUBSET Places] /\ g[s] = S /\ \A t \in Slots : t # s => g[t] = f[t]
    OBVIOUS
  <1>2. Graph(f) = Rest \cup ({s} \X f[s]) /\ Rest \cap ({s} \X f[s]) = {}
    BY DEF Graph
  <1> HIDE DEF g
  <1>3. Graph(g) = Rest \cup ({s} \X S) /\ Rest \cap ({s} \X S) = {}
    BY <1>1 DEF Graph
  <1>4. \A T \in SUBSET Places : IsFiniteSet({s} \X T) /\ Cardinality({s} \X T) = Cardinality(T)
    <2> SUFFICES ASSUME NEW T \in SUBSET Places
                 PROVE  IsFiniteSet({s} \X T) /\ Cardinality({s} \X T) = Cardinality(T)
      OBVIOUS
    <2>1. IsFiniteSet(T) /\ Cardinality(T) \in Nat /\ IsFiniteSet({s}) /\ Cardinality({s}) = 1
      BY PlacesFinite, FS_Singleton
    <2>2. IsFiniteSet({s} \X T) /\ Cardinality({s} \X T) = Cardinality({s}) * Cardinality(T)
      BY <2>1, FS_Product
    <2>3. Cardinality({s} \X T) = 1 * Cardinality(T)
      BY <2>1, <2>2
    <2> QED BY <2>1, <2>2, <2>3
  <1>5. IsFiniteSet(Rest)
    <2>1. Rest \subseteq Graph(f)
      BY <1>2
    <2> QED BY <2>1, GraphFinite, FS_Subset
  <1> HIDE DEF Rest
  <1>6. f[s] \in SUBSET Places
    OBVIOUS
  <1>7. Cardinality(Graph(f)) = Cardinality(Rest) + Cardinality(f[s])
    <2>1. IsFiniteSet({s} \X f[s]) /\ Cardinality({s} \X f[s]) = Cardinality(f[s])
      BY <1>4, <1>6
    <2>2. Cardinality(Rest \cup ({s} \X f[s])) = Cardinality(Rest) + Cardinality({s} \X f[s])
      BY <1>2, <1>5, <2>1, CardDisjoint
    <2> QED BY <1>2, <2>1, <2>2
  <1>8. Cardinality(Graph(g)) = Cardinality(Rest) + Cardinality(S)
    <2>1. IsFiniteSet({s} \X S) /\ Cardinality({s} \X S) = Cardinality(S)
      BY <1>4
    <2>2. Cardinality(Rest \cup ({s} \X S)) = Cardinality(Rest) + Cardinality({s} \X S)
      BY <1>3, <1>5, <2>1, CardDisjoint
    <2> QED BY <1>3, <2>1, <2>2
  <1>9. Cardinality(Rest) \in Nat /\ Cardinality(f[s]) \in Nat /\ Cardinality(S) \in Nat
    BY <1>5, <1>6, PlacesFinite, FS_CardinalityType
  <1>10. Count(f) = Cardinality(Rest) + Cardinality(f[s]) /\ Count(g) = Cardinality(Rest) + Cardinality(S)
    BY <1>1, <1>7, <1>8, CountIs
  <1> DEFINE r == Cardinality(Rest)
             a == Cardinality(f[s])
             b == Cardinality(S)
  <1>11. r \in Nat /\ a \in Nat /\ b \in Nat /\ Count(f) = r + a /\ Count(g) = r + b
    BY <1>9, <1>10
  <1> HIDE DEF r, a, b
  <1>12. Count(f) \in Nat /\ Count(g) \in Nat /\ Count(g) + a = Count(f) + b
    BY <1>11
  <1> QED BY <1>11, <1>12 DEF a, b, g

\* Giving back all the places of one slot.
LEMMA CountClear ==
    ASSUME MemoryConstants, NEW f \in [Slots -> SUBSET Places], NEW s \in Slots
    PROVE  /\ Count(f) \in Nat /\ Count([f EXCEPT ![s] = {}]) \in Nat
           /\ Cardinality(f[s]) \in Nat
           /\ Count([f EXCEPT ![s] = {}]) + Cardinality(f[s]) = Count(f)
  <1>1. PICK S \in SUBSET Places : S = {}
    OBVIOUS
  <1>2. /\ Count(f) \in Nat /\ Count([f EXCEPT ![s] = S]) \in Nat /\ Cardinality(f[s]) \in Nat
        /\ Count([f EXCEPT ![s] = S]) + Cardinality(f[s]) = Count(f) + Cardinality(S)
    BY CountSet
  <1>3. Cardinality(S) = 0
    BY <1>1, FS_EmptySet
  <1>4. Count([f EXCEPT ![s] = S]) + Cardinality(f[s]) = Count(f)
    BY <1>2, <1>3
  <1> QED BY <1>1, <1>2, <1>4

\* Slots of which something holds: kernel stacks, pages in a variable.
Held(f) == {s \in Slots : f[s]}

LEMMA HeldFinite ==
    ASSUME MemoryConstants, NEW f
    PROVE  IsFiniteSet(Held(f)) /\ Cardinality(Held(f)) \in Nat
  BY FS_Subset, FS_CardinalityType DEF Held, MemoryConstants

LEMMA HeldSet ==
    ASSUME MemoryConstants, NEW f \in [Slots -> BOOLEAN], NEW s \in Slots
    PROVE  /\ ~f[s] => Cardinality(Held([f EXCEPT ![s] = TRUE])) = Cardinality(Held(f)) + 1
           /\ f[s]  => Cardinality(Held([f EXCEPT ![s] = FALSE])) = Cardinality(Held(f)) - 1
           /\ ~f[s] => [f EXCEPT ![s] = FALSE] = f
  <1>1. ASSUME ~f[s] PROVE Cardinality(Held([f EXCEPT ![s] = TRUE])) = Cardinality(Held(f)) + 1
    <2>1. Held([f EXCEPT ![s] = TRUE]) = Held(f) \cup {s} /\ s \notin Held(f)
      BY <1>1 DEF Held
    <2> QED BY <2>1, HeldFinite, CardAdd
  <1>2. ASSUME f[s] PROVE Cardinality(Held([f EXCEPT ![s] = FALSE])) = Cardinality(Held(f)) - 1
    <2>1. Held([f EXCEPT ![s] = FALSE]) = Held(f) \ {s} /\ s \in Held(f)
      BY <1>2 DEF Held
    <2> QED BY <2>1, HeldFinite, CardDrop
  <1>3. ASSUME ~f[s] PROVE [f EXCEPT ![s] = FALSE] = f
    <2>1. f[s] = FALSE
      BY <1>3
    <2> QED BY <2>1
  <1> QED BY <1>1, <1>2, <1>3

LEMMA UpToIs ==
    ASSUME NEW k \in Nat
    PROVE  IsFiniteSet(UpTo(k)) /\ Cardinality(UpTo(k)) = k
  <1>1. IsFiniteSet(0 .. k - 1) /\ Cardinality(0 .. k - 1) = IF 0 > k - 1 THEN 0 ELSE k - 1 - 0 + 1
    BY FS_Interval
  <1>2. (IF 0 > k - 1 THEN 0 ELSE k - 1 - 0 + 1) = k
    OBVIOUS
  <1> QED BY <1>1, <1>2 DEF UpTo

\* The next page of a space that maps the first k.
LEMMA FullNext ==
    ASSUME NEW S, NEW k \in Nat, Full(S, k)
    PROVE  Cardinality(Pages(S)) = k
  BY UpToIs DEF Full

\* Mapping the next page.
LEMMA FullMore ==
    ASSUME MemoryConstants, NEW S \in SUBSET Places, NEW k \in Nat, k < MaxPages, Full(S, k)
    PROVE  /\ S \cup {Table(k), Page(k)} \in SUBSET Places
           /\ Full(S \cup {Table(k), Page(k)}, k + 1)
           /\ Cardinality(S \cup {Table(k), Page(k)})
                = Cardinality(S) + 1 + IF Table(k) \in S THEN 0 ELSE 1
  <1> DEFINE T == S \cup {Table(k), Page(k)}
  <1>0. k \in 0 .. MaxPages - 1
    BY DEF MemoryConstants
  <1>1. T \in SUBSET Places
    BY <1>0 DEF Places
  <1>2. Page(k) \notin S
    BY <1>0 DEF Full, Pages, UpTo
  <1>3. Pages(T) = UpTo(k + 1)
    <2>1. \A v \in 0 .. MaxPages - 1 : Page(v) \in T <=> Page(v) \in S \/ v = k
      BY DEF Page, Table
    <2>2. Pages(T) = Pages(S) \cup {k}
      BY <1>0, <2>1 DEF Pages
    <2>3. UpTo(k + 1) = UpTo(k) \cup {k}
      BY DEF UpTo
    <2> QED BY <2>2, <2>3 DEF Full
  <1>4. {Dir, Kern} \cup {Table(v) : v \in UpTo(k + 1)} \subseteq T
    <2>1. \A v \in UpTo(k + 1) : v \in UpTo(k) \/ v = k
      BY DEF UpTo
    <2> QED BY <2>1 DEF Full
  <1>5. IsFiniteSet(S) /\ Cardinality(S) \in Nat
    BY PlacesFinite
  <1>6. Cardinality(T) = Cardinality(S) + 1 + IF Table(k) \in S THEN 0 ELSE 1
    <2>1. IsFiniteSet(S \cup {Page(k)}) /\ Cardinality(S \cup {Page(k)}) = Cardinality(S) + 1
      BY <1>2, <1>5, CardAdd
    <2>2. CASE Table(k) \in S
      <3>1. T = S \cup {Page(k)}
        BY <2>2
      <3> QED BY <1>5, <2>1, <2>2, <3>1
    <2>3. CASE Table(k) \notin S
      <3>1. T = (S \cup {Page(k)}) \cup {Table(k)} /\ Table(k) \notin S \cup {Page(k)}
        BY <2>3 DEF Page, Table
      <3>2. Cardinality(T) = Cardinality(S \cup {Page(k)}) + 1
        BY <2>1, <3>1, CardAdd
      <3> QED BY <1>5, <2>1, <2>3, <3>2
    <2> QED BY <2>2, <2>3
  <1> QED BY <1>1, <1>3, <1>4, <1>6 DEF Full

\* deallocuvm down to n pages, and what it gives back.
LEMMA ShrunkIs ==
    ASSUME MemoryConstants, Types, NEW s \in Slots, NEW k \in Nat, Full(space[s], k),
           NEW n \in 0 .. MaxPages, n <= k
    PROVE  /\ Shrunk(s, n) \in SUBSET Places /\ Full(Shrunk(s, n), n)
           /\ Cardinality(space[s] \ Shrunk(s, n)) \in Nat
           /\ Cardinality(space[s] \ Shrunk(s, n)) + Cardinality(Shrunk(s, n)) = Cardinality(space[s])
  <1> DEFINE S == space[s]
             T == Shrunk(s, n)
  <1>0. S \in SUBSET Places
    BY DEF Types
  <1>1. T \in SUBSET Places /\ T \subseteq S
    BY <1>0 DEF Shrunk
  <1>2. Pages(T) = UpTo(n)
    <2>1. \A v \in 0 .. MaxPages - 1 : Page(v) \in T <=> Page(v) \in S /\ v < n
      BY DEF Shrunk, Page, MemoryConstants
    <2>2. \A v \in 0 .. MaxPages - 1 : Page(v) \in S <=> v < k
      <3>1. Pages(S) = 0 .. k - 1
        BY DEF Full, UpTo
      <3> QED BY <3>1 DEF Pages, MemoryConstants
    <2>3. Pages(T) = {v \in 0 .. MaxPages - 1 : v < n}
      BY <2>1, <2>2 DEF Pages, MemoryConstants
    <2> HIDE DEF T
    <2> QED BY <2>3 DEF UpTo, MemoryConstants
  <1>3. {Dir, Kern} \cup {Table(v) : v \in UpTo(n)} \subseteq T
    <2>1. {Dir, Kern} \cup {Table(v) : v \in UpTo(k)} \subseteq S
      BY DEF Full
    <2>2. UpTo(n) \subseteq UpTo(k)
      BY DEF UpTo
    <2>3. {Dir, Kern} \cup {Table(v) : v \in UpTo(n)} \subseteq S
      BY <2>1, <2>2
    <2> QED BY <2>3 DEF Shrunk, Dir, Kern, Table, Page
  <1>4. IsFiniteSet(S \ T) /\ IsFiniteSet(T) /\ (S \ T) \cup T = S /\ (S \ T) \cap T = {}
    BY <1>0, <1>1, PlacesFinite
  <1>5. Cardinality(S \ T) \in Nat /\ Cardinality(S) = Cardinality(S \ T) + Cardinality(T)
    BY <1>4, CardDisjoint
  <1> QED BY <1>1, <1>2, <1>3, <1>5, CardDisjoint, <1>4 DEF Full

-----------------------------------------------------------------------------
(***************************************************************************)
(* What a step of one process leaves alone.                                *)
(***************************************************************************)

\* Every slot but that of s and that of its child c.
Others(s, c) ==
    \A t \in Slots : t # s /\ t # c =>
        /\ at'[t] = at[t] /\ space'[t] = space[t] /\ draft'[t] = draft[t] /\ sz'[t] = sz[t]
        /\ goal'[t] = goal[t] /\ mem'[t] = mem[t] /\ kstack'[t] = kstack[t] /\ child'[t] = child[t]

Total ==
    free + Count(space) + Count(draft) + lost + Cardinality(Held(kstack)) + Cardinality(Held(mem))

LEMMA TotalIs ==
    /\ PagesConserved <=> Total = NFRAMES
    /\ PagesConserved' <=> free' + Count(space') + Count(draft') + lost'
                           + Cardinality(Held(kstack')) + Cardinality(Held(mem')) = NFRAMES
  <1>1. PagesConserved <=> Total = NFRAMES
    BY DEF PagesConserved, Total, Held
  <1>2. PagesConserved' <=> free' + Count(space') + Count(draft') + lost'
                           + Cardinality(Held(kstack')) + Cardinality(Held(mem')) = NFRAMES
    BY DEF PagesConserved, Count, Held
  <1> QED BY <1>1, <1>2

\* The numbers that are added up.
LEMMA CountsAre ==
    ASSUME MemoryConstants, Types
    PROVE  /\ Count(space) \in Nat /\ Count(draft) \in Nat
           /\ Cardinality(Held(kstack)) \in Nat /\ Cardinality(Held(mem)) \in Nat
           /\ free \in Nat /\ lost \in Nat
           /\ \A s \in Slots : Cardinality(space[s]) \in Nat /\ Cardinality(draft[s]) \in Nat
  <1>1. Count(space) \in Nat /\ Count(draft) \in Nat
    BY GraphFinite DEF Types
  <1>2. Cardinality(Held(kstack)) \in Nat /\ Cardinality(Held(mem)) \in Nat
    BY HeldFinite
  <1>3. \A s \in Slots : Cardinality(space[s]) \in Nat /\ Cardinality(draft[s]) \in Nat
    BY PlacesFinite DEF Types
  <1> QED BY <1>1, <1>2, <1>3 DEF Types

\* Slots that a step leaves alone are as they were.
LEMMA StepSlots ==
    ASSUME MemoryConstants, IInv, NEW s \in Slots, NEW c \in Slots, Others(s, c),
           SlotOK(s)', SlotOK(c)',
           \A t \in Slots : t # s /\ t # c /\ at[t] = "fork" => child[t] # s /\ child[t] # c
    PROVE  \A t \in Slots : SlotOK(t)'
  <1> SUFFICES ASSUME NEW t \in Slots, t # s, t # c PROVE SlotOK(t)'
    OBVIOUS
  <1>0. SlotOK(t)
    BY DEF IInv
  <1>1. /\ at'[t] = at[t] /\ space'[t] = space[t] /\ draft'[t] = draft[t] /\ sz'[t] = sz[t]
        /\ goal'[t] = goal[t] /\ mem'[t] = mem[t] /\ kstack'[t] = kstack[t] /\ child'[t] = child[t]
    BY DEF Others
  <1>2. SpaceOK(t)' /\ DraftOK(t)'
    BY <1>0, <1>1 DEF SlotOK, SpaceOK, DraftOK, Full
  <1>3. CallOK(t)'
    <2>1. at[t] = "fork" => at'[child'[t]] = at[child[t]]
      BY <1>1 DEF Others, IInv, Types
    <2>2. (Ready(t)' <=> Ready(t)) /\ NextPage(t)' = NextPage(t)
      BY <1>1 DEF Ready, NextPage, Building
    <2> QED BY <1>0, <1>1, <2>1, <2>2 DEF SlotOK, CallOK
  <1> QED BY <1>2, <1>3 DEF SlotOK

LEMMA StepForks ==
    ASSUME MemoryConstants, IInv, NEW s \in Slots, NEW c \in Slots, Others(s, c),
           \A t \in {s, c} : at'[t] = "fork" => at[t] = "fork" /\ child'[t] = child[t]
    PROVE  ForksOK'
  <1>1. \A t \in Slots : at'[t] = "fork" => at[t] = "fork" /\ child'[t] = child[t]
    BY DEF Others
  <1> QED BY <1>1 DEF IInv, ForksOK

\* A process that is not an embryo is nobody's child.
LEMMA NoChild ==
    ASSUME MemoryConstants, IInv, NEW s \in Slots, at[s] # "embryo",
           NEW t \in Slots, at[t] = "fork"
    PROVE  child[t] # s
  BY DEF IInv, SlotOK, CallOK

LEMMA Typed ==
    ASSUME IInv
    PROVE  /\ free \in Nat /\ lost \in Nat
           /\ space \in [Slots -> SUBSET Places] /\ draft \in [Slots -> SUBSET Places]
           /\ sz \in [Slots -> 0 .. MaxPages] /\ goal \in [Slots -> 0 .. MaxPages]
           /\ mem \in [Slots -> BOOLEAN] /\ kstack \in [Slots -> BOOLEAN]
           /\ child \in [Slots -> Slots] /\ at \in [Slots -> Labels]
  BY DEF IInv, Types

LEMMA SlotIs ==
    ASSUME IInv, NEW s \in Slots
    PROVE  SpaceOK(s) /\ DraftOK(s) /\ CallOK(s)
  BY DEF IInv, SlotOK

\* S is what deallocuvm leaves of the space of s.
Left(s, n, S) ==
    /\ S = Shrunk(s, n) /\ Full(S, n)
    /\ Cardinality(space[s] \ S) \in Nat
    /\ Cardinality(space[s] \ S) + Cardinality(S) = Cardinality(space[s])

-----------------------------------------------------------------------------
(***************************************************************************)
(* Each action preserves the invariant.                                    *)
(***************************************************************************)

LEMMA StepSbrkGrow ==
    ASSUME MemoryConstants, IInv, NEW s \in Slots, NEW n \in 1 .. MaxPages, SbrkGrow(s, n)
    PROVE  IInv'
  <1>1. /\ at[s] = "user" /\ sz[s] + n <= MaxPages
        /\ goal' = [goal EXCEPT ![s] = sz[s] + n] /\ at' = [at EXCEPT ![s] = "grow"]
        /\ UNCHANGED <<free, space, sz, draft, kstack, mem, child, lost>>
    BY DEF SbrkGrow, Goto, Set
  <1>2. sz[s] \in 0 .. MaxPages /\ sz[s] + n \in 0 .. MaxPages /\ sz[s] \in sz[s] .. sz[s] + n
    BY <1>1, Typed DEF MemoryConstants
  <1>3. at'[s] = "grow" /\ goal'[s] = sz[s] + n
    BY <1>1, Typed
  <1>4. Types'
    <2>1. at' \in [Slots -> Labels]
      BY <1>1, Typed DEF Labels
    <2>2. goal' \in [Slots -> 0 .. MaxPages]
      BY <1>1, <1>2, Typed
    <2> QED BY <1>1, <2>1, <2>2, Typed DEF Types
  <1>5. PagesConserved'
    BY <1>1 DEF IInv, PagesConserved, Count
  <1>6. Others(s, s)
    BY <1>1, Typed DEF Others
  <1>7. ForksOK'
    BY <1>3, <1>6, StepForks
  <1>8. SlotOK(s)'
    <2>1. ~mem[s] /\ draft[s] = {} /\ child[s] = s /\ kstack[s]
      BY <1>1, SlotIs DEF DraftOK, CallOK, Ready
    <2>2. Full(space[s], sz[s])'
      BY <1>1, SlotIs DEF SpaceOK, Full
    <2>3. SpaceOK(s)'
      BY <1>1, <1>2, <1>3, <2>2 DEF SpaceOK, Full
    <2>4. DraftOK(s)' /\ CallOK(s)'
      BY <1>1, <1>3, <2>1 DEF DraftOK, CallOK
    <2> QED BY <2>3, <2>4 DEF SlotOK
  <1>9. \A t \in Slots : SlotOK(t)'
    BY <1>1, <1>6, <1>8, NoChild, StepSlots
  <1> QED BY <1>4, <1>5, <1>7, <1>9 DEF IInv

LEMMA StepExec ==
    ASSUME MemoryConstants, IInv, NEW s \in Slots, NEW n \in 1 .. MaxPages, Exec(s, n)
    PROVE  IInv'
  <1>1. /\ at[s] = "user" /\ n \in 0 .. MaxPages
        /\ goal' = [goal EXCEPT ![s] = n] /\ at' = [at EXCEPT ![s] = "exec"]
        /\ UNCHANGED <<free, space, sz, draft, kstack, mem, child, lost>>
    BY DEF Exec, Goto, Set
  <1>2. at'[s] = "exec"
    BY <1>1, Typed
  <1>3. Types'
    <2>1. at' \in [Slots -> Labels]
      BY <1>1, Typed DEF Labels
    <2>2. goal' \in [Slots -> 0 .. MaxPages]
      BY <1>1, Typed
    <2> QED BY <1>1, <2>1, <2>2, Typed DEF Types
  <1>4. PagesConserved'
    BY <1>1 DEF IInv, PagesConserved, Count
  <1>5. Others(s, s)
    BY <1>1, Typed DEF Others
  <1>6. ForksOK'
    BY <1>2, <1>5, StepForks
  <1>7. SlotOK(s)'
    <2>1. ~mem[s] /\ draft[s] = {} /\ child[s] = s /\ kstack[s]
      BY <1>1, SlotIs DEF DraftOK, CallOK, Ready
    <2>2. SpaceOK(s)'
      BY <1>1, <1>2, SlotIs DEF SpaceOK, Full
    <2>3. DraftOK(s)' /\ CallOK(s)'
      BY <1>1, <1>2, <2>1 DEF DraftOK, CallOK
    <2> QED BY <2>2, <2>3 DEF SlotOK
  <1>8. \A t \in Slots : SlotOK(t)'
    BY <1>1, <1>5, <1>7, NoChild, StepSlots
  <1> QED BY <1>3, <1>4, <1>6, <1>8 DEF IInv

LEMMA StepExit ==
    ASSUME MemoryConstants, IInv, NEW s \in Slots, Exit(s)
    PROVE  IInv'
  <1>1. /\ at[s] \in {"user", "unmapped"} /\ at' = [at EXCEPT ![s] = "zombie"]
        /\ UNCHANGED <<free, space, sz, draft, kstack, goal, mem, child, lost>>
    BY DEF Exit, Goto, Set
  <1>2. at'[s] = "zombie"
    BY <1>1, Typed
  <1>3. Types'
    <2>1. at' \in [Slots -> Labels]
      BY <1>1, Typed DEF Labels
    <2> QED BY <1>1, <2>1, Typed DEF Types
  <1>4. PagesConserved'
    BY <1>1 DEF IInv, PagesConserved, Count
  <1>5. Others(s, s)
    BY <1>1, Typed DEF Others
  <1>6. ForksOK'
    BY <1>2, <1>5, StepForks
  <1>7. SlotOK(s)'
    <2>1. ~mem[s] /\ draft[s] = {} /\ child[s] = s /\ kstack[s]
      BY <1>1, SlotIs DEF DraftOK, CallOK, Ready
    <2> QED BY <1>1, <1>2, <2>1 DEF SlotOK, SpaceOK, DraftOK, CallOK
  <1>8. \A t \in Slots : SlotOK(t)'
    BY <1>1, <1>5, <1>7, NoChild, StepSlots
  <1> QED BY <1>3, <1>4, <1>6, <1>8 DEF IInv

LEMMA StepSbrkShrink ==
    ASSUME MemoryConstants, IInv, NEW s \in Slots, NEW n \in 0 .. MaxPages, SbrkShrink(s, n)
    PROVE  IInv'
  <1>0. at[s] = "user" /\ n < sz[s] /\ Full(space[s], sz[s]) /\ sz[s] \in 0 .. MaxPages
    BY SlotIs, Typed DEF SbrkShrink, SpaceOK
  <1>1. PICK S \in SUBSET Places : Left(s, n, S)
    <2>1. sz[s] \in Nat /\ n <= sz[s]
      BY <1>0 DEF MemoryConstants
    <2> QED BY <1>0, <2>1, ShrunkIs DEF Left, IInv
  <1>2. PICK d \in Nat : d = Cardinality(space[s] \ S)
    BY <1>1 DEF Left
  <1>3. PICK z \in 0 .. MaxPages : z = IF n = 0 THEN sz[s] ELSE n
    BY <1>0
  <1>4. PICK l \in {"user", "unmapped"} : l = IF n = 0 THEN "unmapped" ELSE "user"
    OBVIOUS
  <1>5. /\ space' = [space EXCEPT ![s] = S] /\ free' = free + d
        /\ sz' = [sz EXCEPT ![s] = z] /\ at' = [at EXCEPT ![s] = l]
        /\ UNCHANGED <<draft, kstack, goal, mem, child, lost>>
    BY <1>1, <1>2, <1>3, <1>4 DEF SbrkShrink, Goto, Set, Left
  <1>6. at'[s] = l /\ space'[s] = S /\ sz'[s] = z
    BY <1>5, Typed
  <1>7. Types'
    <2>1. at' \in [Slots -> Labels]
      BY <1>5, Typed DEF Labels
    <2>2. space' \in [Slots -> SUBSET Places] /\ sz' \in [Slots -> 0 .. MaxPages] /\ free' \in Nat
      BY <1>5, Typed
    <2> QED BY <1>5, <2>1, <2>2, Typed DEF Types
  <1>8. PagesConserved'
    <2>1. /\ Cardinality(S) \in Nat /\ Count(space') \in Nat
          /\ Count(space') + Cardinality(space[s]) = Count(space) + Cardinality(S)
      BY <1>5, CountSet, Typed
    <2>2. d + Cardinality(S) = Cardinality(space[s])
      BY <1>1, <1>2 DEF Left
    <2>3. Total = NFRAMES
      BY TotalIs DEF IInv
    <2>4. free + d + Count(space') + Count(draft) + lost
             + Cardinality(Held(kstack)) + Cardinality(Held(mem)) = NFRAMES
      BY <2>1, <2>2, <2>3, CountsAre DEF IInv, Total
    <2> QED BY <1>5, <2>4, TotalIs
  <1>9. Others(s, s)
    BY <1>5, Typed DEF Others
  <1>10. ForksOK'
    BY <1>6, <1>9, StepForks
  <1>11. SlotOK(s)'
    <2>1. ~mem[s] /\ draft[s] = {} /\ child[s] = s /\ kstack[s]
      BY <1>0, SlotIs DEF DraftOK, CallOK, Ready
    <2>2. SpaceOK(s)'
      BY <1>1, <1>3, <1>4, <1>6 DEF SpaceOK, Full, Left
    <2>3. DraftOK(s)' /\ CallOK(s)'
      BY <1>5, <1>6, <2>1 DEF DraftOK, CallOK
    <2> QED BY <2>2, <2>3 DEF SlotOK
  <1>12. \A t \in Slots : SlotOK(t)'
    BY <1>0, <1>9, <1>11, NoChild, StepSlots
  <1> QED BY <1>7, <1>8, <1>10, <1>12 DEF IInv

\* The end of a call that has built in the space of the process itself.
LEMMA StepGrowDone ==
    ASSUME MemoryConstants, IInv, NEW s \in Slots, GrowDone(s)
    PROVE  IInv'
  <1>1. /\ at[s] = "grow" /\ ~mem[s] /\ NextPage(s) = goal[s]
        /\ sz' = [sz EXCEPT ![s] = goal[s]] /\ goal' = [goal EXCEPT ![s] = 0]
        /\ at' = [at EXCEPT ![s] = "user"]
        /\ UNCHANGED <<free, space, draft, kstack, mem, child, lost>>
    BY DEF GrowDone, Built, Goto, Set
  <1>2. at'[s] = "user" /\ sz'[s] = goal[s]
    BY <1>1, Typed
  <1>3. Types'
    <2>1. at' \in [Slots -> Labels]
      BY <1>1, Typed DEF Labels
    <2>2. 0 \in 0 .. MaxPages
      BY DEF MemoryConstants
    <2>3. sz' \in [Slots -> 0 .. MaxPages] /\ goal' \in [Slots -> 0 .. MaxPages]
      BY <1>1, <2>2, Typed
    <2> QED BY <1>1, <2>1, <2>3, Typed DEF Types
  <1>4. PagesConserved'
    BY <1>1 DEF IInv, PagesConserved, Count
  <1>5. Others(s, s)
    BY <1>1, Typed DEF Others
  <1>6. ForksOK'
    BY <1>2, <1>5, StepForks
  <1>7. SlotOK(s)'
    <2>1. PICK k \in Nat : Full(space[s], k)
      <3>1. PICK k \in sz[s] .. goal[s] : Full(space[s], k)
        BY <1>1, SlotIs DEF SpaceOK
      <3>2. k \in Nat
        BY <3>1, Typed
      <3> QED BY <3>1, <3>2
    <2>2. k = goal[s]
      BY <1>1, <2>1, FullNext DEF NextPage, Building
    <2>3. Full(space[s], sz[s])'
      BY <1>1, <1>2, <2>1, <2>2 DEF Full
    <2>4. draft[s] = {} /\ child[s] = s /\ kstack[s]
      BY <1>1, SlotIs DEF DraftOK, CallOK
    <2> QED BY <1>1, <1>2, <2>3, <2>4 DEF SlotOK, SpaceOK, DraftOK, CallOK
  <1>8. \A t \in Slots : SlotOK(t)'
    BY <1>1, <1>5, <1>7, NoChild, StepSlots
  <1> QED BY <1>3, <1>4, <1>6, <1>8 DEF IInv

LEMMA StepReap ==
    ASSUME MemoryConstants, IInv, NEW s \in Slots, Reap(s)
    PROVE  IInv'
  <1>1. /\ at[s] = "zombie" /\ free' = free + 1 + Cardinality(space[s])
        /\ kstack' = [kstack EXCEPT ![s] = FALSE] /\ space' = [space EXCEPT ![s] = {}]
        /\ sz' = [sz EXCEPT ![s] = 0] /\ at' = [at EXCEPT ![s] = "unused"]
        /\ UNCHANGED <<draft, goal, mem, child, lost>>
    BY DEF Reap, Goto, Set
  <1>2. at'[s] = "unused" /\ space'[s] = {} /\ ~kstack'[s]
    BY <1>1, Typed
  <1>3. ~mem[s] /\ draft[s] = {} /\ child[s] = s /\ kstack[s]
    BY <1>1, SlotIs DEF DraftOK, CallOK, Ready
  <1>4. Types'
    <2>1. at' \in [Slots -> Labels]
      BY <1>1, Typed DEF Labels
    <2>2. 0 \in 0 .. MaxPages /\ {} \in SUBSET Places
      BY DEF MemoryConstants
    <2>3. sz' \in [Slots -> 0 .. MaxPages] /\ space' \in [Slots -> SUBSET Places]
      BY <1>1, <2>2, Typed
    <2>4. kstack' \in [Slots -> BOOLEAN]
      BY <1>1, Typed
    <2>5. free' \in Nat
      BY <1>1, CountsAre DEF IInv
    <2> QED BY <1>1, <2>1, <2>3, <2>4, <2>5, Typed DEF Types
  <1>5. PagesConserved'
    <2>2. /\ Count(space') \in Nat
          /\ Count(space') + Cardinality(space[s]) = Count(space)
      BY <1>1, CountClear, Typed
    <2>3. Cardinality(Held(kstack')) = Cardinality(Held(kstack)) - 1
      BY <1>1, <1>3, HeldSet, Typed
    <2>4. Total = NFRAMES
      BY TotalIs DEF IInv
    <2>5. (free + 1 + Cardinality(space[s])) + Count(space') + Count(draft) + lost
             + (Cardinality(Held(kstack)) - 1) + Cardinality(Held(mem)) = NFRAMES
      BY <2>2, <2>4, CountsAre DEF IInv, Total
    <2> QED BY <1>1, <2>3, <2>5, TotalIs
  <1>6. Others(s, s)
    BY <1>1, Typed DEF Others
  <1>7. ForksOK'
    BY <1>2, <1>6, StepForks
  <1>8. SlotOK(s)'
    BY <1>1, <1>2, <1>3 DEF SlotOK, SpaceOK, DraftOK, CallOK
  <1>9. \A t \in Slots : SlotOK(t)'
    BY <1>1, <1>6, <1>8, NoChild, StepSlots
  <1> QED BY <1>4, <1>5, <1>7, <1>9 DEF IInv

LEMMA StepFork ==
    ASSUME MemoryConstants, IInv, NEW s \in Slots, NEW c \in Slots, Fork(s, c)
    PROVE  IInv'
  <1>1. /\ at[s] = "user" /\ at[c] = "unused" /\ free > 0 /\ free' = free - 1
        /\ kstack' = [kstack EXCEPT ![c] = TRUE] /\ child' = [child EXCEPT ![s] = c]
        /\ goal' = [goal EXCEPT ![s] = sz[s]]
        /\ at' = [at EXCEPT ![s] = "fork", ![c] = "embryo"]
        /\ UNCHANGED <<space, sz, draft, mem, lost>>
    BY DEF Fork, Set
  <1>2. s # c
    BY <1>1
  <1>3. /\ at'[s] = "fork" /\ at'[c] = "embryo" /\ child'[s] = c /\ child'[c] = child[c]
        /\ kstack'[s] = kstack[s] /\ kstack'[c] = TRUE /\ goal'[s] = sz[s]
    BY <1>1, <1>2, Typed
  <1>4. /\ ~mem[s] /\ draft[s] = {} /\ kstack[s] /\ Full(space[s], sz[s])
        /\ ~mem[c] /\ draft[c] = {} /\ child[c] = c /\ ~kstack[c] /\ space[c] = {}
    BY <1>1, SlotIs DEF SpaceOK, DraftOK, CallOK, Ready
  <1>5. Types'
    <2>1. at' \in [Slots -> Labels]
      BY <1>1, Typed DEF Labels
    <2>2. goal' \in [Slots -> 0 .. MaxPages] /\ child' \in [Slots -> Slots] /\ free' \in Nat
      BY <1>1, Typed
    <2>3. kstack' \in [Slots -> BOOLEAN]
      BY <1>1, Typed
    <2> QED BY <1>1, <2>1, <2>2, <2>3, Typed DEF Types
  <1>6. PagesConserved'
    <2>1. Cardinality(Held(kstack')) = Cardinality(Held(kstack)) + 1
      BY <1>1, <1>4, HeldSet, Typed
    <2>2. Total = NFRAMES
      BY TotalIs DEF IInv
    <2>3. (free - 1) + Count(space) + Count(draft) + lost
             + (Cardinality(Held(kstack)) + 1) + Cardinality(Held(mem)) = NFRAMES
      BY <2>2, CountsAre DEF IInv, Total
    <2> QED BY <1>1, <2>1, <2>3, TotalIs
  <1>7. Others(s, c)
    BY <1>1, Typed DEF Others
  <1>8. \A t \in Slots : at[t] = "fork" => child[t] # s /\ child[t] # c
    BY <1>1, NoChild
  <1>9. ForksOK'
    <2>1. \A t \in Slots : at'[t] = "fork" =>
             t = s \/ (at[t] = "fork" /\ child'[t] = child[t] /\ child[t] # c)
      BY <1>3, <1>7, <1>8 DEF Others
    <2> QED BY <1>3, <2>1 DEF IInv, ForksOK
  <1>10. SlotOK(s)'
    <2>1. Full(space[s], sz[s])'
      BY <1>1, <1>4 DEF Full
    <2>2. SpaceOK(s)'
      BY <1>3, <2>1 DEF SpaceOK
    <2>3. DraftOK(s)' /\ CallOK(s)'
      BY <1>1, <1>3, <1>4 DEF DraftOK, CallOK
    <2> QED BY <2>2, <2>3 DEF SlotOK
  <1>11. SlotOK(c)'
    BY <1>1, <1>3, <1>4 DEF SlotOK, SpaceOK, DraftOK, CallOK
  <1>12. \A t \in Slots : SlotOK(t)'
    BY <1>7, <1>8, <1>10, <1>11, StepSlots
  <1> QED BY <1>5, <1>6, <1>9, <1>12 DEF IInv

\* What a call has built when it is done.
LEMMA DraftDone ==
    ASSUME MemoryConstants, IInv, NEW s \in Slots, at[s] \in {"fork", "exec"}, Built(s)
    PROVE  Full(draft[s], goal[s]) /\ ~mem[s]
  <1>1. Kern \in draft[s] /\ NextPage(s) = goal[s] /\ ~mem[s]
    BY DEF Built, Ready
  <1>2. PICK k \in 0 .. goal[s] : Full(draft[s], k)
    BY <1>1, SlotIs DEF DraftOK
  <1>3. k \in Nat
    BY <1>2, Typed
  <1>4. k = goal[s]
    BY <1>1, <1>2, <1>3, FullNext DEF NextPage, Building
  <1> QED BY <1>1, <1>2, <1>4

LEMMA StepForkDone ==
    ASSUME MemoryConstants, IInv, NEW s \in Slots, ForkDone(s)
    PROVE  IInv'
  <1>0. at[s] = "fork" /\ Full(draft[s], goal[s]) /\ ~mem[s]
    BY DraftDone DEF ForkDone
  <1>1. PICK c \in Slots : c = child[s] /\ at[c] = "embryo"
    BY <1>0, SlotIs, Typed DEF CallOK
  <1>2. s # c
    BY <1>0, <1>1
  <1>3. /\ space' = [space EXCEPT ![c] = draft[s]] /\ sz' = [sz EXCEPT ![c] = goal[s]]
        /\ draft' = [draft EXCEPT ![s] = {}]
        /\ at' = [at EXCEPT ![s] = "user", ![c] = "user"]
        /\ child' = [child EXCEPT ![s] = s] /\ goal' = [goal EXCEPT ![s] = 0]
        /\ UNCHANGED <<free, kstack, mem, lost>>
    BY <1>1 DEF ForkDone, Set
  <1>4. /\ at'[s] = "user" /\ at'[c] = "user" /\ child'[s] = s /\ child'[c] = child[c]
        /\ draft'[s] = {} /\ draft'[c] = draft[c] /\ space'[s] = space[s] /\ space'[c] = draft[s]
        /\ sz'[s] = sz[s] /\ sz'[c] = goal[s]
    BY <1>2, <1>3, Typed
  <1>5. /\ kstack[s] /\ Full(space[s], sz[s])
        /\ ~mem[c] /\ draft[c] = {} /\ child[c] = c /\ kstack[c] /\ space[c] = {}
    BY <1>0, <1>1, SlotIs DEF SpaceOK, DraftOK, CallOK, Ready
  <1>6. Types'
    <2>1. at' \in [Slots -> Labels]
      BY <1>3, Typed DEF Labels
    <2>2. 0 \in 0 .. MaxPages /\ {} \in SUBSET Places
      BY DEF MemoryConstants
    <2>3. goal' \in [Slots -> 0 .. MaxPages] /\ sz' \in [Slots -> 0 .. MaxPages]
      BY <1>3, <2>2, Typed
    <2>4. space' \in [Slots -> SUBSET Places] /\ draft' \in [Slots -> SUBSET Places]
      BY <1>3, <2>2, Typed
    <2>5. child' \in [Slots -> Slots]
      BY <1>3, Typed
    <2> QED BY <1>3, <2>1, <2>3, <2>4, <2>5, Typed DEF Types
  <1>7. PagesConserved'
    <2>1. PICK S \in SUBSET Places : S = draft[s]
      BY Typed
    <2>2. /\ Count(space') \in Nat /\ Cardinality(space[c]) = 0
          /\ Count(space') + Cardinality(space[c]) = Count(space) + Cardinality(draft[s])
      <3>1. space' = [space EXCEPT ![c] = S] /\ Cardinality(space[c]) = 0
        BY <1>3, <1>5, <2>1, FS_EmptySet
      <3>2. /\ Count(space') \in Nat
            /\ Count(space') + Cardinality(space[c]) = Count(space) + Cardinality(S)
        BY <3>1, CountSet, Typed
      <3> QED BY <2>1, <3>1, <3>2
    <2>3. /\ Count(draft') \in Nat
          /\ Count(draft') + Cardinality(draft[s]) = Count(draft)
      BY <1>3, CountClear, Typed
    <2>4. Total = NFRAMES
      BY TotalIs DEF IInv
    <2>5. free + Count(space') + Count(draft') + lost
             + Cardinality(Held(kstack)) + Cardinality(Held(mem)) = NFRAMES
      BY <2>2, <2>3, <2>4, CountsAre DEF IInv, Total
    <2> QED BY <1>3, <2>5, TotalIs
  <1>8. Others(s, c)
    BY <1>3, Typed DEF Others
  <1>9. \A t \in Slots : t # s /\ at[t] = "fork" => child[t] # s /\ child[t] # c
    BY <1>0, <1>1, NoChild DEF IInv, ForksOK
  <1>10. ForksOK'
    BY <1>4, <1>8, StepForks
  <1>11. SlotOK(s)'
    <2>1. SpaceOK(s)'
      BY <1>4, <1>5 DEF SpaceOK, Full
    <2> QED BY <1>0, <1>3, <1>4, <1>5, <2>1 DEF SlotOK, DraftOK, CallOK
  <1>12. SlotOK(c)'
    <2>1. SpaceOK(c)'
      BY <1>0, <1>4 DEF SpaceOK, Full
    <2> QED BY <1>3, <1>4, <1>5, <2>1 DEF SlotOK, DraftOK, CallOK
  <1>13. \A t \in Slots : SlotOK(t)'
    BY <1>8, <1>9, <1>11, <1>12, StepSlots
  <1> QED BY <1>6, <1>7, <1>10, <1>13 DEF IInv

LEMMA StepExecDone ==
    ASSUME MemoryConstants, IInv, NEW s \in Slots, ExecDone(s)
    PROVE  IInv'
  <1>0. at[s] = "exec" /\ Full(draft[s], goal[s]) /\ ~mem[s]
    BY DraftDone DEF ExecDone
  <1>1. /\ free' = free + Cardinality(space[s])
        /\ space' = [space EXCEPT ![s] = draft[s]] /\ sz' = [sz EXCEPT ![s] = goal[s]]
        /\ draft' = [draft EXCEPT ![s] = {}] /\ goal' = [goal EXCEPT ![s] = 0]
        /\ at' = [at EXCEPT ![s] = "user"]
        /\ UNCHANGED <<kstack, mem, child, lost>>
    BY DEF ExecDone, Goto, Set
  <1>2. at'[s] = "user" /\ draft'[s] = {} /\ space'[s] = draft[s] /\ sz'[s] = goal[s]
    BY <1>1, Typed
  <1>3. kstack[s] /\ child[s] = s
    BY <1>0, SlotIs DEF CallOK
  <1>4. Types'
    <2>1. at' \in [Slots -> Labels]
      BY <1>1, Typed DEF Labels
    <2>2. 0 \in 0 .. MaxPages /\ {} \in SUBSET Places
      BY DEF MemoryConstants
    <2>3. goal' \in [Slots -> 0 .. MaxPages] /\ sz' \in [Slots -> 0 .. MaxPages]
      BY <1>1, <2>2, Typed
    <2>4. space' \in [Slots -> SUBSET Places] /\ draft' \in [Slots -> SUBSET Places]
      BY <1>1, <2>2, Typed
    <2>5. free' \in Nat
      BY <1>1, CountsAre DEF IInv
    <2> QED BY <1>1, <2>1, <2>3, <2>4, <2>5, Typed DEF Types
  <1>5. PagesConserved'
    <2>1. PICK S \in SUBSET Places : S = draft[s]
      BY Typed
    <2>2. /\ Count(space') \in Nat
          /\ Count(space') + Cardinality(space[s]) = Count(space) + Cardinality(draft[s])
      <3>1. space' = [space EXCEPT ![s] = S]
        BY <1>1, <2>1
      <3>2. /\ Count(space') \in Nat
            /\ Count(space') + Cardinality(space[s]) = Count(space) + Cardinality(S)
        BY <3>1, CountSet, Typed
      <3> QED BY <2>1, <3>2
    <2>3. /\ Count(draft') \in Nat
          /\ Count(draft') + Cardinality(draft[s]) = Count(draft)
      BY <1>1, CountClear, Typed
    <2>4. Total = NFRAMES
      BY TotalIs DEF IInv
    <2>5. (free + Cardinality(space[s])) + Count(space') + Count(draft') + lost
             + Cardinality(Held(kstack)) + Cardinality(Held(mem)) = NFRAMES
      BY <2>2, <2>3, <2>4, CountsAre DEF IInv, Total
    <2> QED BY <1>1, <2>5, TotalIs
  <1>6. Others(s, s)
    BY <1>1, Typed DEF Others
  <1>7. ForksOK'
    BY <1>2, <1>6, StepForks
  <1>8. SlotOK(s)'
    <2>1. SpaceOK(s)'
      BY <1>0, <1>2 DEF SpaceOK, Full
    <2> QED BY <1>0, <1>1, <1>2, <1>3, <2>1 DEF SlotOK, DraftOK, CallOK
  <1>9. \A t \in Slots : SlotOK(t)'
    BY <1>0, <1>6, <1>8, NoChild, StepSlots
  <1> QED BY <1>4, <1>5, <1>7, <1>9 DEF IInv

\* The page in mem is given back or forgotten.
LEMMA MemClear ==
    ASSUME MemoryConstants, IInv, NEW s \in Slots, mem' = [mem EXCEPT ![s] = FALSE],
           NEW n \in {0, 1}, mem[s] => n = 1, ~mem[s] => n = 0
    PROVE  /\ mem' \in [Slots -> BOOLEAN] /\ ~mem'[s]
           /\ Cardinality(Held(mem')) = Cardinality(Held(mem)) - n
  <1>1. mem' \in [Slots -> BOOLEAN] /\ ~mem'[s]
    BY Typed
  <1>2. mem[s] => Cardinality(Held(mem')) = Cardinality(Held(mem)) - 1
    BY HeldSet, Typed
  <1>3. ~mem[s] => Cardinality(Held(mem')) = Cardinality(Held(mem))
    BY HeldSet, Typed
  <1>4. Cardinality(Held(mem)) \in Nat
    BY HeldFinite
  <1> QED BY <1>1, <1>2, <1>3, <1>4

LEMMA StepFailGrow ==
    ASSUME MemoryConstants, IInv, NEW s \in Slots, at[s] = "grow", NEW n \in {0, 1}, Fail(s, n),
           mem[s] => n = 1, ~mem[s] => n = 0, lost' = lost
    PROVE  IInv'
  <1>0. PICK k \in Nat : Full(space[s], k) /\ sz[s] <= k /\ sz[s] \in 0 .. MaxPages
    <2>1. PICK k \in sz[s] .. goal[s] : Full(space[s], k)
      BY SlotIs DEF SpaceOK
    <2> QED BY <2>1, Typed
  <1>1. PICK z \in 0 .. MaxPages : z = sz[s]
    BY <1>0
  <1>2. PICK S \in SUBSET Places : Left(s, z, S)
    BY <1>0, <1>1, ShrunkIs DEF Left, IInv
  <1>3. PICK d \in Nat : d = Cardinality(space[s] \ S)
    BY <1>2 DEF Left
  <1>4. /\ space' = [space EXCEPT ![s] = S] /\ free' = free + d + n
        /\ at' = [at EXCEPT ![s] = "user"] /\ mem' = [mem EXCEPT ![s] = FALSE]
        /\ goal' = [goal EXCEPT ![s] = 0]
        /\ UNCHANGED <<sz, draft, kstack, child, lost>>
    BY <1>1, <1>2, <1>3 DEF Fail, UndoGrow, Goto, Set, Left
  <1>5. at'[s] = "user" /\ space'[s] = S
    BY <1>4, Typed
  <1>6. Types'
    <2>1. at' \in [Slots -> Labels]
      BY <1>4, Typed DEF Labels
    <2>2. 0 \in 0 .. MaxPages
      BY DEF MemoryConstants
    <2>3. space' \in [Slots -> SUBSET Places] /\ goal' \in [Slots -> 0 .. MaxPages] /\ free' \in Nat
      BY <1>4, <2>2, Typed
    <2> QED BY <1>4, <2>1, <2>3, MemClear, Typed DEF Types
  <1>7. PagesConserved'
    <2>1. /\ Cardinality(S) \in Nat /\ Count(space') \in Nat
          /\ Count(space') + Cardinality(space[s]) = Count(space) + Cardinality(S)
      BY <1>4, CountSet, Typed
    <2>2. d + Cardinality(S) = Cardinality(space[s])
      BY <1>2, <1>3 DEF Left
    <2>3. Cardinality(Held(mem')) = Cardinality(Held(mem)) - n
      BY <1>4, MemClear
    <2>4. Total = NFRAMES
      BY TotalIs DEF IInv
    <2>5. (free + d + n) + Count(space') + Count(draft) + lost
             + Cardinality(Held(kstack)) + (Cardinality(Held(mem)) - n) = NFRAMES
      BY <2>1, <2>2, <2>4, CountsAre DEF IInv, Total
    <2> QED BY <1>4, <2>3, <2>5, TotalIs
  <1>8. Others(s, s)
    BY <1>4, Typed DEF Others
  <1>9. ForksOK'
    BY <1>5, <1>8, StepForks
  <1>10. SlotOK(s)'
    <2>1. draft[s] = {} /\ child[s] = s /\ kstack[s]
      BY SlotIs DEF DraftOK, CallOK
    <2>2. SpaceOK(s)'
      BY <1>1, <1>2, <1>4, <1>5 DEF SpaceOK, Full, Left
    <2>3. ~mem'[s]
      BY <1>4, MemClear
    <2>4. DraftOK(s)' /\ CallOK(s)'
      BY <1>4, <1>5, <2>1, <2>3 DEF DraftOK, CallOK
    <2> QED BY <2>2, <2>4 DEF SlotOK
  <1>11. \A t \in Slots : SlotOK(t)'
    BY <1>8, <1>10, NoChild, StepSlots
  <1> QED BY <1>6, <1>7, <1>9, <1>11 DEF IInv

LEMMA StepFailExec ==
    ASSUME MemoryConstants, IInv, NEW s \in Slots, at[s] = "exec", NEW n \in {0, 1}, Fail(s, n),
           mem[s] => n = 1, ~mem[s] => n = 0, lost' = lost
    PROVE  IInv'
  <1>1. child[s] = s /\ kstack[s] /\ Full(space[s], sz[s])
    BY SlotIs DEF CallOK, SpaceOK
  <1>2. /\ free' = free + Cardinality(draft[s]) + n + 0 /\ draft' = [draft EXCEPT ![s] = {}]
        /\ at' = [at EXCEPT ![child[s]] = "unused", ![s] = "user"]
        /\ child' = [child EXCEPT ![s] = s]
        /\ mem' = [mem EXCEPT ![s] = FALSE] /\ goal' = [goal EXCEPT ![s] = 0]
        /\ UNCHANGED <<space, sz, kstack, lost>>
    BY DEF Fail, FreeDraft, Set
  <1>3. at' = [at EXCEPT ![s] = "user"]
    BY <1>1, <1>2, Typed
  <1>4. child' = child
    <2>1. child' = [child EXCEPT ![s] = child[s]]
      BY <1>1, <1>2
    <2> QED BY <2>1, Typed
  <1>5. at'[s] = "user" /\ draft'[s] = {}
    BY <1>2, <1>3, Typed
  <1>6. Types'
    <2>1. at' \in [Slots -> Labels]
      BY <1>3, Typed DEF Labels
    <2>2. 0 \in 0 .. MaxPages /\ {} \in SUBSET Places
      BY DEF MemoryConstants
    <2>3. draft' \in [Slots -> SUBSET Places] /\ goal' \in [Slots -> 0 .. MaxPages]
      BY <1>2, <2>2, Typed
    <2>4. free' \in Nat
      BY <1>2, CountsAre DEF IInv
    <2> QED BY <1>2, <1>4, <2>1, <2>3, <2>4, MemClear, Typed DEF Types
  <1>7. PagesConserved'
    <2>1. /\ Count(draft') \in Nat
          /\ Count(draft') + Cardinality(draft[s]) = Count(draft)
      BY <1>2, CountClear, Typed
    <2>2. Cardinality(Held(mem')) = Cardinality(Held(mem)) - n
      BY <1>2, MemClear
    <2>3. Total = NFRAMES
      BY TotalIs DEF IInv
    <2>4. (free + Cardinality(draft[s]) + n + 0) + Count(space) + Count(draft') + lost
             + Cardinality(Held(kstack)) + (Cardinality(Held(mem)) - n) = NFRAMES
      BY <2>1, <2>3, CountsAre DEF IInv, Total
    <2> QED BY <1>2, <2>2, <2>4, TotalIs
  <1>8. Others(s, s)
    BY <1>2, <1>3, <1>4, Typed DEF Others
  <1>9. ForksOK'
    BY <1>5, <1>8, StepForks
  <1>10. SlotOK(s)'
    <2>1. SpaceOK(s)'
      BY <1>1, <1>2, <1>5 DEF SpaceOK, Full
    <2>2. ~mem'[s]
      BY <1>2, MemClear
    <2> QED BY <1>1, <1>2, <1>4, <1>5, <2>1, <2>2 DEF SlotOK, DraftOK, CallOK
  <1>11. \A t \in Slots : SlotOK(t)'
    BY <1>8, <1>10, NoChild, StepSlots
  <1> QED BY <1>6, <1>7, <1>9, <1>11 DEF IInv

\* m is the page that copyuvm forgets.
LEMMA StepFailFork ==
    ASSUME MemoryConstants, IInv, NEW s \in Slots, at[s] = "fork", NEW m \in {0, 1}, Fail(s, 0),
           mem[s] => m = 1, ~mem[s] => m = 0, lost' = lost + m
    PROVE  IInv'
  <1>1. PICK c \in Slots : c = child[s] /\ at[c] = "embryo" /\ s # c
    BY SlotIs, Typed DEF CallOK
  <1>2. /\ kstack[s] /\ Full(space[s], sz[s])
        /\ ~mem[c] /\ draft[c] = {} /\ child[c] = c /\ kstack[c] /\ space[c] = {}
    BY <1>1, SlotIs DEF SpaceOK, DraftOK, CallOK, Ready
  <1>3. /\ free' = free + Cardinality(draft[s]) + 0 + 1 /\ draft' = [draft EXCEPT ![s] = {}]
        /\ kstack' = [kstack EXCEPT ![c] = FALSE]
        /\ at' = [at EXCEPT ![c] = "unused", ![s] = "user"]
        /\ child' = [child EXCEPT ![s] = s]
        /\ mem' = [mem EXCEPT ![s] = FALSE] /\ goal' = [goal EXCEPT ![s] = 0]
        /\ UNCHANGED <<space, sz>>
    BY <1>1 DEF Fail, FreeDraft, Set
  <1>4. at' = [at EXCEPT ![s] = "user", ![c] = "unused"]
    BY <1>1, <1>3, Typed
  <1>5. /\ at'[s] = "user" /\ at'[c] = "unused" /\ child'[s] = s /\ child'[c] = child[c]
        /\ draft'[s] = {} /\ draft'[c] = draft[c] /\ kstack'[s] = kstack[s] /\ ~kstack'[c]
        /\ mem'[c] = mem[c]
    BY <1>1, <1>3, <1>4, Typed
  <1>6. Types'
    <2>1. at' \in [Slots -> Labels]
      BY <1>4, Typed DEF Labels
    <2>2. 0 \in 0 .. MaxPages /\ {} \in SUBSET Places
      BY DEF MemoryConstants
    <2>3. draft' \in [Slots -> SUBSET Places] /\ goal' \in [Slots -> 0 .. MaxPages]
      BY <1>3, <2>2, Typed
    <2>4. free' \in Nat /\ lost' \in Nat
      BY <1>3, CountsAre DEF IInv
    <2>5. child' \in [Slots -> Slots]
      BY <1>3, Typed
    <2>6. kstack' \in [Slots -> BOOLEAN]
      BY <1>3, Typed
    <2> QED BY <1>3, <2>1, <2>3, <2>4, <2>5, <2>6, MemClear, Typed DEF Types
  <1>7. PagesConserved'
    <2>1. /\ Count(draft') \in Nat
          /\ Count(draft') + Cardinality(draft[s]) = Count(draft)
      BY <1>3, CountClear, Typed
    <2>2. Cardinality(Held(mem')) = Cardinality(Held(mem)) - m
      BY <1>3, MemClear
    <2>3. Cardinality(Held(kstack')) = Cardinality(Held(kstack)) - 1
      BY <1>2, <1>3, HeldSet, Typed
    <2>4. Total = NFRAMES
      BY TotalIs DEF IInv
    <2>5. (free + Cardinality(draft[s]) + 0 + 1) + Count(space) + Count(draft') + (lost + m)
             + (Cardinality(Held(kstack)) - 1) + (Cardinality(Held(mem)) - m) = NFRAMES
      BY <2>1, <2>4, CountsAre DEF IInv, Total
    <2> QED BY <1>3, <2>2, <2>3, <2>5, TotalIs
  <1>8. Others(s, c)
    BY <1>3, <1>4, Typed DEF Others
  <1>9. \A t \in Slots : t # s /\ at[t] = "fork" => child[t] # s /\ child[t] # c
    BY <1>1, NoChild DEF IInv, ForksOK
  <1>10. ForksOK'
    BY <1>5, <1>8, StepForks
  <1>11. SlotOK(s)'
    <2>1. SpaceOK(s)'
      BY <1>2, <1>3, <1>5 DEF SpaceOK, Full
    <2>2. ~mem'[s]
      BY <1>3, MemClear
    <2> QED BY <1>2, <1>3, <1>5, <2>1, <2>2 DEF SlotOK, DraftOK, CallOK
  <1>12. SlotOK(c)'
    BY <1>2, <1>3, <1>5 DEF SlotOK, SpaceOK, DraftOK, CallOK
  <1>13. \A t \in Slots : SlotOK(t)'
    BY <1>8, <1>9, <1>11, <1>12, StepSlots
  <1> QED BY <1>6, <1>7, <1>10, <1>13 DEF IInv

\* A call that gives up with nothing in its variables.
LEMMA StepFail ==
    ASSUME MemoryConstants, IInv, NEW s \in Slots, at[s] \in {"grow", "fork", "exec"},
           ~mem[s], Fail(s, 0), lost' = lost
    PROVE  IInv'
  <1>1. lost' = lost + 0
    BY Typed
  <1> QED BY <1>1, StepFailGrow, StepFailExec, StepFailFork

LEMMA StepExecBad ==
    ASSUME MemoryConstants, IInv, NEW s \in Slots, ExecBad(s)
    PROVE  IInv'
  BY StepFail DEF ExecBad

LEMMA StepSetupKvm ==
    ASSUME MemoryConstants, IInv, NEW s \in Slots, SetupKvm(s)
    PROVE  IInv'
  <1>0. /\ at[s] \in {"fork", "exec"} /\ Kern \notin draft[s]
        /\ draft[s] \subseteq {Dir} /\ ~mem[s]
    BY SlotIs DEF SetupKvm, DraftOK, CallOK, Ready
  <1>1. CASE free = 0
    BY <1>0, <1>1, StepFail DEF SetupKvm
  <1>2. CASE free # 0
    <2>1. PICK x \in {Dir, Kern} : x = IF Dir \in draft[s] THEN Kern ELSE Dir
      OBVIOUS
    <2>2. PICK S \in SUBSET Places : S = draft[s] \cup {x}
      BY <2>1, Typed DEF Places
    <2>3. /\ free' = free - 1 /\ draft' = [draft EXCEPT ![s] = S]
          /\ UNCHANGED <<space, sz, kstack, at, goal, mem, child, lost>>
      BY <1>2, <2>1, <2>2 DEF SetupKvm, Set
    <2>4. x \notin draft[s]
      BY <1>0, <2>1
    <2>5. draft'[s] = S
      BY <2>3, Typed
    <2>6. Types'
      <3>1. draft' \in [Slots -> SUBSET Places] /\ free' \in Nat
        BY <1>2, <2>3, Typed
      <3> QED BY <2>3, <3>1, Typed DEF Types
    <2>7. PagesConserved'
      <3>1. Cardinality(S) = Cardinality(draft[s]) + 1
        <4>1. IsFiniteSet(draft[s])
          BY PlacesFinite, Typed
        <4> QED BY <2>2, <2>4, <4>1, CardAdd
      <3>2. /\ Count(draft') \in Nat
            /\ Count(draft') + Cardinality(draft[s]) = Count(draft) + Cardinality(S)
        BY <2>3, CountSet, Typed
      <3>3. Total = NFRAMES
        BY TotalIs DEF IInv
      <3>4. (free - 1) + Count(space) + Count(draft') + lost
               + Cardinality(Held(kstack)) + Cardinality(Held(mem)) = NFRAMES
        BY <3>1, <3>2, <3>3, CountsAre DEF IInv, Total
      <3> QED BY <2>3, <3>4, TotalIs
    <2>8. Others(s, s)
      BY <2>3, Typed DEF Others
    <2>9. ForksOK'
      BY <2>3, <2>8, StepForks
    <2>10. SlotOK(s)'
      <3>1. SpaceOK(s)'
        BY <2>3, SlotIs DEF SpaceOK, Full
      <3>2. CallOK(s)'
        BY <1>0, <2>3, SlotIs DEF CallOK
      <3>3. DraftOK(s)'
        <4>1. CASE Dir \in draft[s]
          <5>1. S = {Dir, Kern}
            BY <1>0, <2>1, <2>2, <4>1
          <5>2. Pages(S) = UpTo(0) /\ {Dir, Kern} \cup {Table(v) : v \in UpTo(0)} \subseteq S
            BY <5>1 DEF Pages, UpTo, Page, Dir, Kern
          <5>3. Full(S, 0) /\ 0 \in 0 .. goal[s]
            BY <5>2, Typed DEF Full
          <5> QED BY <1>0, <2>3, <2>5, <5>1, <5>3 DEF DraftOK, Full
        <4>2. CASE Dir \notin draft[s]
          <5>1. S = {Dir} /\ Kern \notin S
            BY <1>0, <2>1, <2>2, <4>2 DEF Dir, Kern
          <5> QED BY <1>0, <2>3, <2>5, <5>1 DEF DraftOK
        <4> QED BY <4>1, <4>2
      <3> QED BY <3>1, <3>2, <3>3 DEF SlotOK
    <2>11. \A t \in Slots : SlotOK(t)'
      <3>1. at[s] # "embryo"
        BY <1>0
      <3> QED BY <2>8, <2>10, <3>1, NoChild, StepSlots
    <2> QED BY <2>6, <2>7, <2>9, <2>11 DEF IInv
  <1> QED BY <1>1, <1>2

LEMMA StepAllocMem ==
    ASSUME MemoryConstants, IInv, NEW s \in Slots, AllocMem(s)
    PROVE  IInv'
  <1>0. Ready(s) /\ ~mem[s] /\ NextPage(s) < goal[s] /\ at[s] \in {"grow", "fork", "exec"}
    BY DEF AllocMem, Ready
  <1>1. CASE free = 0
    BY <1>0, <1>1, StepFail DEF AllocMem
  <1>2. CASE free # 0
    <2>1. /\ free' = free - 1 /\ mem' = [mem EXCEPT ![s] = TRUE]
          /\ UNCHANGED <<space, sz, draft, kstack, at, goal, child, lost>>
      BY <1>2 DEF AllocMem, Set
    <2>2. Types'
      <3>1. mem' \in [Slots -> BOOLEAN]
        BY <2>1, Typed
      <3>2. free' \in Nat
        BY <1>2, <2>1, Typed
      <3> QED BY <2>1, <3>1, <3>2, Typed DEF Types
    <2>3. PagesConserved'
      <3>1. Cardinality(Held(mem')) = Cardinality(Held(mem)) + 1
        BY <1>0, <2>1, HeldSet, Typed
      <3>2. Total = NFRAMES
        BY TotalIs DEF IInv
      <3>3. (free - 1) + Count(space) + Count(draft) + lost
               + Cardinality(Held(kstack)) + (Cardinality(Held(mem)) + 1) = NFRAMES
        BY <3>2, CountsAre DEF IInv, Total
      <3> QED BY <2>1, <3>1, <3>3, TotalIs
    <2>4. Others(s, s)
      BY <2>1, Typed DEF Others
    <2>5. ForksOK'
      BY <2>1, <2>4, StepForks
    <2>6. SlotOK(s)'
      <3>1. SpaceOK(s)' /\ DraftOK(s)'
        BY <2>1, SlotIs DEF SpaceOK, DraftOK, Full
      <3>2. Ready(s)' /\ NextPage(s)' = NextPage(s)
        BY <1>0, <2>1 DEF Ready, NextPage, Building
      <3>3. CallOK(s)'
        BY <1>0, <2>1, <3>2, SlotIs DEF CallOK
      <3> QED BY <3>1, <3>3 DEF SlotOK
    <2>7. \A t \in Slots : SlotOK(t)'
      <3>1. at[s] # "embryo"
        BY <1>0
      <3> QED BY <2>4, <2>6, <3>1, NoChild, StepSlots
    <2> QED BY <2>2, <2>3, <2>5, <2>7 DEF IInv
  <1> QED BY <1>1, <1>2

\* What a call has built so far when it is about to map the next page.
LEMMA BuildingIs ==
    ASSUME MemoryConstants, IInv, NEW s \in Slots, Ready(s), mem[s]
    PROVE  /\ at[s] \in {"grow", "fork", "exec"} /\ Building(s) \in SUBSET Places
           /\ NextPage(s) \in Nat /\ NextPage(s) < goal[s] /\ NextPage(s) < MaxPages
           /\ goal[s] \in Nat /\ Full(Building(s), NextPage(s))
           /\ at[s] = "grow" => sz[s] \in Nat /\ sz[s] <= NextPage(s)
  <1>1. at[s] \in {"grow", "fork", "exec"} /\ (at[s] # "grow" => Kern \in draft[s])
    BY DEF Ready
  <1>2. Building(s) \in SUBSET Places
    BY Typed DEF Building
  <1>3. NextPage(s) < goal[s] /\ goal[s] \in 0 .. MaxPages /\ sz[s] \in 0 .. MaxPages
    BY SlotIs, Typed DEF CallOK
  <1>4. PICK k \in 0 .. goal[s] : Full(Building(s), k) /\ (at[s] = "grow" => sz[s] <= k)
    <2>1. CASE at[s] = "grow"
      <3>1. PICK k \in sz[s] .. goal[s] : Full(space[s], k)
        BY <2>1, SlotIs DEF SpaceOK
      <3>2. k \in 0 .. goal[s] /\ sz[s] <= k
        BY <1>3, <3>1
      <3> QED BY <2>1, <3>1, <3>2 DEF Building
    <2>2. CASE at[s] # "grow"
      <3>1. PICK k \in 0 .. goal[s] : Full(draft[s], k)
        BY <1>1, <2>2, SlotIs DEF DraftOK
      <3> QED BY <2>2, <3>1 DEF Building
    <2> QED BY <2>1, <2>2
  <1>5. k \in Nat /\ goal[s] \in Nat
    BY <1>3, <1>4
  <1>6. k = NextPage(s)
    BY <1>4, <1>5, FullNext DEF NextPage
  <1>7. NextPage(s) < MaxPages
    BY <1>3, <1>5, <1>6 DEF MemoryConstants
  <1> QED BY <1>1, <1>2, <1>3, <1>4, <1>5, <1>6, <1>7

\* S is the space after the page v is mapped.
Grown(s, v, S) == S = Building(s) \cup {Table(v), Page(v)}

\* The page is mapped, after t pages for a table.
LEMMA StepMapped ==
    ASSUME MemoryConstants, IInv, NEW s \in Slots, Ready(s), mem[s],
           NEW v \in Nat, v = NextPage(s), NEW S \in SUBSET Places,
           Grown(s, v, S),
           NEW t \in {0, 1}, t = IF Table(v) \in Building(s) THEN 0 ELSE 1,
           free >= t, free' = free - t, Build(s, S), mem' = [mem EXCEPT ![s] = FALSE],
           UNCHANGED <<sz, kstack, at, goal, child, lost>>
    PROVE  IInv'
  <1>0. /\ at[s] \in {"grow", "fork", "exec"} /\ v < goal[s] /\ v < MaxPages /\ goal[s] \in Nat
        /\ Full(Building(s), v) /\ (at[s] = "grow" => sz[s] \in Nat /\ sz[s] <= v)
    BY BuildingIs
  <1>1. Full(S, v + 1) /\ Cardinality(S) = Cardinality(Building(s)) + 1 + t
    BY <1>0, FullMore, BuildingIs DEF Grown
  <1>2. mem' \in [Slots -> BOOLEAN] /\ ~mem'[s]
    BY MemClear
  <1>3. Cardinality(Held(mem')) = Cardinality(Held(mem)) - 1
    BY HeldSet, Typed
  <1>4. free' \in Nat
    BY Typed
  <1>5. at[s] # "embryo"
    BY <1>0
  <1>6. v + 1 \in 0 .. goal[s] /\ (at[s] = "grow" => v + 1 \in sz[s] .. goal[s])
    BY <1>0
  <1>7. kstack[s] /\ (IF at[s] = "fork" THEN at[child[s]] = "embryo" ELSE child[s] = s)
    BY <1>0, SlotIs DEF CallOK
  <1>8. CallOK(s)'
    BY <1>0, <1>2, <1>7 DEF CallOK
  <1>9. Total = NFRAMES
    BY TotalIs DEF IInv
  <1>10. CASE at[s] = "grow"
    <2>1. space' = [space EXCEPT ![s] = S] /\ draft' = draft /\ Building(s) = space[s]
      BY <1>10 DEF Build, Building, Set
    <2>2. space'[s] = S
      BY <2>1, Typed
    <2>3. Types'
      <3>1. space' \in [Slots -> SUBSET Places]
        BY <2>1, Typed
      <3> QED BY <1>2, <1>4, <2>1, <3>1, Typed DEF Types
    <2>4. PagesConserved'
      <3>1. /\ Count(space') \in Nat
            /\ Count(space') + Cardinality(space[s]) = Count(space) + Cardinality(S)
        <4>1. space \in [Slots -> SUBSET Places]
          BY Typed
        <4>2. /\ Count([space EXCEPT ![s] = S]) \in Nat
              /\ Count([space EXCEPT ![s] = S]) + Cardinality(space[s]) = Count(space) + Cardinality(S)
          BY <4>1, CountSet
        <4> QED BY <2>1, <4>2
      <3>2. Cardinality(S) = Cardinality(space[s]) + 1 + t
        BY <1>1, <2>1
      <3>3. (free - t) + Count(space') + Count(draft) + lost
               + Cardinality(Held(kstack)) + (Cardinality(Held(mem)) - 1) = NFRAMES
        BY <1>9, <3>1, <3>2, CountsAre DEF IInv, Total
      <3> QED BY <1>3, <2>1, <3>3, TotalIs
    <2>5. Others(s, s)
      BY <2>1, Typed DEF Others
    <2>6. ForksOK'
      BY <2>5, StepForks
    <2>7. SpaceOK(s)'
      BY <1>1, <1>6, <1>10, <2>2 DEF SpaceOK, Full
    <2>8. DraftOK(s)'
      BY <1>10, <2>1, SlotIs DEF DraftOK
    <2>9. \A x \in Slots : SlotOK(x)'
      <3>1. SlotOK(s)'
        BY <1>8, <2>7, <2>8 DEF SlotOK
      <3> QED BY <1>5, <2>5, <3>1, NoChild, StepSlots
    <2> QED BY <2>3, <2>4, <2>6, <2>9 DEF IInv
  <1>11. CASE at[s] # "grow"
    <2>1. draft' = [draft EXCEPT ![s] = S] /\ space' = space /\ Building(s) = draft[s]
      BY <1>11 DEF Build, Building, Set
    <2>2. draft'[s] = S
      BY <2>1, Typed
    <2>3. Types'
      <3>1. draft' \in [Slots -> SUBSET Places]
        BY <2>1, Typed
      <3> QED BY <1>2, <1>4, <2>1, <3>1, Typed DEF Types
    <2>4. PagesConserved'
      <3>1. /\ Count(draft') \in Nat
            /\ Count(draft') + Cardinality(draft[s]) = Count(draft) + Cardinality(S)
        <4>1. draft \in [Slots -> SUBSET Places]
          BY Typed
        <4>2. /\ Count([draft EXCEPT ![s] = S]) \in Nat
              /\ Count([draft EXCEPT ![s] = S]) + Cardinality(draft[s]) = Count(draft) + Cardinality(S)
          BY <4>1, CountSet
        <4> QED BY <2>1, <4>2
      <3>2. Cardinality(S) = Cardinality(draft[s]) + 1 + t
        BY <1>1, <2>1
      <3>3. (free - t) + Count(space) + Count(draft') + lost
               + Cardinality(Held(kstack)) + (Cardinality(Held(mem)) - 1) = NFRAMES
        BY <1>9, <3>1, <3>2, CountsAre DEF IInv, Total
      <3> QED BY <1>3, <2>1, <3>3, TotalIs
    <2>5. Others(s, s)
      BY <2>1, Typed DEF Others
    <2>6. ForksOK'
      BY <2>5, StepForks
    <2>7. SpaceOK(s)'
      BY <1>11, <2>1, SlotIs DEF SpaceOK, Full
    <2>8. DraftOK(s)'
      <3>1. Kern \in S
        BY <1>1 DEF Full
      <3> QED BY <1>0, <1>1, <1>6, <1>11, <2>2, <3>1 DEF DraftOK, Full
    <2>9. \A x \in Slots : SlotOK(x)'
      <3>1. SlotOK(s)'
        BY <1>8, <2>7, <2>8 DEF SlotOK
      <3> QED BY <1>5, <2>5, <3>1, NoChild, StepSlots
    <2> QED BY <2>3, <2>4, <2>6, <2>9 DEF IInv
  <1> QED BY <1>10, <1>11

LEMMA StepMapPage ==
    ASSUME MemoryConstants, IInv, NEW s \in Slots, MapPage(s)
    PROVE  IInv'
  <1>0. Ready(s) /\ mem[s]
    BY DEF MapPage
  <1>1. at[s] \in {"grow", "fork", "exec"}
    BY <1>0 DEF Ready
  <1>2. PICK v \in Nat : v = NextPage(s) /\ v < MaxPages
    BY <1>0, BuildingIs
  <1>3. PICK S \in SUBSET Places : Grown(s, v, S)
    BY <1>0, <1>2, FullMore, BuildingIs DEF Grown
  <1>4. PICK t \in {0, 1} : t = IF Table(v) \in Building(s) THEN 0 ELSE 1
    OBVIOUS
  <1>5. CASE free < t
    <2>1. Fail(s, Kept(s)) /\ lost' = IF at[s] = "fork" THEN lost + 1 ELSE lost
      BY <1>2, <1>4, <1>5 DEF MapPage
    <2>2. CASE at[s] = "fork"
      <3>1. Fail(s, 0) /\ lost' = lost + 1
        BY <2>1, <2>2 DEF Kept
      <3> QED BY <1>0, <2>2, <3>1, StepFailFork
    <2>3. CASE at[s] # "fork"
      <3>1. Fail(s, 1) /\ lost' = lost
        BY <2>1, <2>3 DEF Kept
      <3> QED BY <1>0, <1>1, <2>3, <3>1, StepFailGrow, StepFailExec
    <2> QED BY <2>2, <2>3
  <1>6. CASE ~(free < t)
    <2>1. /\ free' = free - t /\ Build(s, S) /\ mem' = [mem EXCEPT ![s] = FALSE]
          /\ UNCHANGED <<sz, kstack, at, goal, child, lost>>
      BY <1>2, <1>3, <1>4, <1>6 DEF MapPage, Set, Grown
    <2>2. free >= t
      BY <1>6, Typed
    <2> QED BY <1>0, <1>2, <1>3, <1>4, <2>1, <2>2, StepMapped
  <1> QED BY <1>5, <1>6

-----------------------------------------------------------------------------
(***************************************************************************)
(* The first state, and all steps.                                         *)
(***************************************************************************)

LEMMA InitIInv ==
    ASSUME MemoryConstants, Init
    PROVE  IInv
  <1> DEFINE S == {Dir, Kern, Table(0), Page(0)}
  <1>0. First \in Slots /\ NFRAMES \in Nat /\ NFRAMES >= 5 /\ 0 \in 0 .. MaxPages /\ 1 \in 0 .. MaxPages
    BY DEF MemoryConstants
  <1>1. S \in SUBSET Places /\ {} \in SUBSET Places
    <2>1. 0 \in 0 .. MaxPages - 1
      BY DEF MemoryConstants
    <2> QED BY <2>1 DEF Places
  <1>2. Full(S, 1)
    <2>1. UpTo(1) = {0}
      BY DEF UpTo
    <2>2. Pages(S) = {0}
      BY DEF Pages, Page, Dir, Kern, Table, MemoryConstants
    <2> QED BY <2>1, <2>2 DEF Full
  <1>3. Cardinality(S) = 4 /\ IsFiniteSet(S)
    <2>1. IsFiniteSet({Dir}) /\ Cardinality({Dir}) = 1
      BY FS_Singleton
    <2>2. Kern \notin {Dir} /\ Table(0) \notin {Dir} \cup {Kern}
      BY DEF Dir, Kern, Table
    <2>3. Page(0) \notin ({Dir} \cup {Kern}) \cup {Table(0)}
      BY DEF Dir, Kern, Table, Page
    <2>4. IsFiniteSet({Dir} \cup {Kern}) /\ Cardinality({Dir} \cup {Kern}) = 2
      BY <2>1, <2>2, CardAdd
    <2>5. /\ IsFiniteSet(({Dir} \cup {Kern}) \cup {Table(0)})
          /\ Cardinality(({Dir} \cup {Kern}) \cup {Table(0)}) = 3
      BY <2>2, <2>4, CardAdd
    <2>6. /\ IsFiniteSet((({Dir} \cup {Kern}) \cup {Table(0)}) \cup {Page(0)})
          /\ Cardinality((({Dir} \cup {Kern}) \cup {Table(0)}) \cup {Page(0)}) = 4
      BY <2>3, <2>5, CardAdd
    <2>7. S = (({Dir} \cup {Kern}) \cup {Table(0)}) \cup {Page(0)}
      OBVIOUS
    <2> QED BY <2>6, <2>7
  <1>4. PICK T \in SUBSET Places : T = S /\ Full(T, 1) /\ Cardinality(T) = 4 /\ IsFiniteSet(T)
    BY <1>1, <1>2, <1>3
  <1> HIDE DEF S
  <1>5. /\ space = [s \in Slots |-> IF s = First THEN T ELSE {}]
        /\ sz = [s \in Slots |-> IF s = First THEN 1 ELSE 0]
        /\ free = NFRAMES - 5 /\ draft = [s \in Slots |-> {}]
        /\ kstack = [s \in Slots |-> s = First]
        /\ at = [s \in Slots |-> IF s = First THEN "user" ELSE "unused"]
        /\ goal = [s \in Slots |-> 0] /\ mem = [s \in Slots |-> FALSE]
        /\ child = [s \in Slots |-> s] /\ lost = 0
    BY <1>4 DEF Init, S
  <1>6. Types
    <2>1. at \in [Slots -> Labels]
      BY <1>5 DEF Labels
    <2>2. space \in [Slots -> SUBSET Places] /\ draft \in [Slots -> SUBSET Places]
      BY <1>1, <1>5
    <2>3. sz \in [Slots -> 0 .. MaxPages] /\ goal \in [Slots -> 0 .. MaxPages]
      BY <1>0, <1>5
    <2>4. mem \in [Slots -> BOOLEAN] /\ kstack \in [Slots -> BOOLEAN]
      BY <1>5
    <2>5. child \in [Slots -> Slots] /\ free \in Nat /\ lost \in Nat
      BY <1>0, <1>5
    <2> QED BY <2>1, <2>2, <2>3, <2>4, <2>5 DEF Types
  <1>7. PagesConserved
    <2>1. Held(kstack) = {First} /\ Held(mem) = {}
      BY <1>0, <1>5 DEF Held
    <2>2. Cardinality(Held(kstack)) = 1 /\ Cardinality(Held(mem)) = 0
      BY <2>1, FS_Singleton, FS_EmptySet
    <2>3. Graph(draft) = {}
      BY <1>5 DEF Graph
    <2>4. Count(draft) = 0
      BY <1>6, <2>3, CountIs, FS_EmptySet DEF Types
    <2>5. space = [draft EXCEPT ![First] = T]
      BY <1>0, <1>5
    <2>6. Cardinality(draft[First]) = 0
      BY <1>0, <1>5, FS_EmptySet
    <2>7. /\ Count([draft EXCEPT ![First] = T]) \in Nat
          /\ Count([draft EXCEPT ![First] = T]) + Cardinality(draft[First])
               = Count(draft) + Cardinality(T)
      <3>1. draft \in [Slots -> SUBSET Places]
        BY <1>6 DEF Types
      <3> QED BY <1>0, <3>1, CountSet
    <2>8. Count(space) = 4
      BY <1>4, <2>4, <2>5, <2>6, <2>7
    <2>9. Total = NFRAMES
      BY <1>0, <1>5, <2>2, <2>4, <2>8 DEF Total
    <2> QED BY <2>9, TotalIs
  <1>8. ForksOK
    BY <1>5 DEF ForksOK
  <1>9. ASSUME NEW s \in Slots PROVE SlotOK(s)
    <2>1. SpaceOK(s)
      BY <1>4, <1>5 DEF SpaceOK
    <2>2. DraftOK(s) /\ CallOK(s)
      BY <1>5 DEF DraftOK, CallOK
    <2> QED BY <2>1, <2>2 DEF SlotOK
  <1> QED BY <1>6, <1>7, <1>8, <1>9 DEF IInv

LEMMA StepIInv ==
    ASSUME MemoryConstants, IInv, [Next]_vars
    PROVE  IInv'
  <1>1. CASE UNCHANGED vars
    <2>1. Types' /\ PagesConserved' /\ ForksOK'
      BY <1>1 DEF IInv, vars, Types, PagesConserved, Count, ForksOK
    <2>2. ASSUME NEW s \in Slots PROVE SlotOK(s)'
      <3>1. SpaceOK(s)' /\ DraftOK(s)'
        BY <1>1, SlotIs DEF vars, SpaceOK, DraftOK, Full
      <3>2. CallOK(s)'
        BY <1>1, SlotIs DEF vars, CallOK, Ready, NextPage, Building
      <3> QED BY <3>1, <3>2 DEF SlotOK
    <2> QED BY <2>1, <2>2 DEF IInv
  <1>2. CASE Next
    <2>1. PICK s \in Slots :
             \/ \E n \in 1 .. MaxPages : SbrkGrow(s, n) \/ Exec(s, n)
             \/ \E n \in 0 .. MaxPages : SbrkShrink(s, n)
             \/ \E c \in Slots : Fork(s, c)
             \/ SetupKvm(s) \/ AllocMem(s) \/ MapPage(s)
             \/ GrowDone(s) \/ ForkDone(s) \/ ExecDone(s) \/ ExecBad(s)
             \/ Exit(s) \/ Reap(s)
      BY <1>2 DEF Next
    <2>2. CASE \E n \in 1 .. MaxPages : SbrkGrow(s, n)
      BY <2>2, StepSbrkGrow
    <2>3. CASE \E n \in 1 .. MaxPages : Exec(s, n)
      BY <2>3, StepExec
    <2>4. CASE \E n \in 0 .. MaxPages : SbrkShrink(s, n)
      BY <2>4, StepSbrkShrink
    <2>5. CASE \E c \in Slots : Fork(s, c)
      BY <2>5, StepFork
    <2>6. CASE SetupKvm(s)
      BY <2>6, StepSetupKvm
    <2>7. CASE AllocMem(s)
      BY <2>7, StepAllocMem
    <2>8. CASE MapPage(s)
      BY <2>8, StepMapPage
    <2>9. CASE GrowDone(s)
      BY <2>9, StepGrowDone
    <2>10. CASE ForkDone(s)
      BY <2>10, StepForkDone
    <2>11. CASE ExecDone(s)
      BY <2>11, StepExecDone
    <2>12. CASE ExecBad(s)
      BY <2>12, StepExecBad
    <2>13. CASE Exit(s)
      BY <2>13, StepExit
    <2>14. CASE Reap(s)
      BY <2>14, StepReap
    <2> QED BY <2>1, <2>2, <2>3, <2>4, <2>5, <2>6, <2>7, <2>8, <2>9, <2>10, <2>11, <2>12, <2>13, <2>14
  <1> QED BY <1>1, <1>2

-----------------------------------------------------------------------------
(***************************************************************************)
(* What the invariant shows.                                               *)
(***************************************************************************)

LEMMA IInvTypes ==
    ASSUME MemoryConstants, IInv
    PROVE  TypeOK
  <1>1. Total = NFRAMES
    BY TotalIs DEF IInv
  <1>2. free \in 0 .. NFRAMES /\ lost \in 0 .. NFRAMES
    BY <1>1, CountsAre DEF IInv, Total, MemoryConstants
  <1>3. at \in [Slots -> {"unused", "embryo", "user", "grow", "fork", "exec", "unmapped", "zombie"}]
    BY Typed DEF Labels
  <1> QED BY <1>2, <1>3, Typed DEF TypeOK

LEMMA IInvSizeIsMapped ==
    ASSUME MemoryConstants, IInv
    PROVE  SizeIsMapped
  <1> SUFFICES ASSUME NEW s \in Slots
               PROVE  /\ at[s] \in {"user", "exec", "fork"} => Full(space[s], sz[s])
                      /\ draft[s] # {} => at[s] \in {"fork", "exec"}
                      /\ kstack[s] <=> at[s] # "unused"
                      /\ at[s] = "unused" => space[s] = {}
    BY DEF SizeIsMapped, Full
  <1> QED BY SlotIs DEF SpaceOK, DraftOK, CallOK

\* Type correctness of kalloc's list and the address spaces: the free list
\* never holds more pages than there are, p->sz never passes KERNBASE, and a
\* process is at a point its calls allow.
THEOREM MemoryTypes == MemoryConstants => (Spec => []TypeOK)
  <1> SUFFICES ASSUME MemoryConstants PROVE Spec => []TypeOK
    OBVIOUS
  <1>1. Init => IInv
    BY InitIInv
  <1>2. IInv /\ [Next]_vars => IInv'
    BY StepIInv
  <1>3. IInv => TypeOK
    BY IInvTypes
  <1> QED BY <1>1, <1>2, <1>3, PTL DEF Spec

\* Whichever kalloc fails half way through setupkvm, allocuvm, copyuvm or
\* mappages, in any interleaving of sbrk, fork, exec, exit and wait: the pages
\* that are free, mapped, a stack, in a variable of a call or forgotten by
\* copyuvm add up to the pages there are, so none is freed twice, and a process
\* has exactly the pages that p->sz says, with their tables.
THEOREM MemoryPagesAccounted == MemoryConstants => (Spec => []PagesAccounted)
  <1> SUFFICES ASSUME MemoryConstants PROVE Spec => []PagesAccounted
    OBVIOUS
  <1>1. Init => IInv
    BY InitIInv
  <1>2. IInv /\ [Next]_vars => IInv'
    BY StepIInv
  <1>3. IInv => PagesAccounted
    BY IInvSizeIsMapped DEF IInv, PagesAccounted
  <1> QED BY <1>1, <1>2, <1>3, PTL DEF Spec
=============================================================================
