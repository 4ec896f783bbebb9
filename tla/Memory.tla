------------------------------ MODULE Memory --------------------------------
(***************************************************************************)
(* Physical pages and address spaces: xv6/kalloc.c and xv6/vm.c under the  *)
(* calls that build and take down an address space, sbrk, fork, exec and   *)
(* exit with wait.                                                         *)
(*                                                                         *)
(* A page is where it is used: on the free list, or at a place of an       *)
(* address space (its directory, the tables of the kernel part, a table    *)
(* for PerTable user pages, a user page), or as a kernel stack, or in the  *)
(* variable mem of a call.  Every kalloc is an action of its own and fails *)
(* when the list is empty; giving back a whole space is one action.        *)
(***************************************************************************)
EXTENDS Integers, FiniteSets

CONSTANTS
    Slots,      \* process slots
    First,      \* the process userinit makes
    NFRAMES,    \* pages on the free list at first
    MaxPages,   \* user pages that fit below KERNBASE
    PerTable    \* user pages that one page table maps

VARIABLES
    free,      \* the length of kmem.freelist
    space,     \* the places of p->pgdir that hold a page
    sz,        \* p->sz in pages
    draft,     \* the address space a fork or an exec is building
    kstack,    \* the slot has a kernel stack
    at, goal,  \* the call a process is in, and the size it builds
    mem,       \* allocuvm or copyuvm holds a page it has not mapped
    child,     \* the slot fork makes
    lost       \* pages nobody knows of any more

vars == <<free, space, sz, draft, kstack, at, goal, mem, child, lost>>

Page(v)    == <<"page", v>>
Table(v)   == <<"table", v \div PerTable>>
Dir        == <<"dir", 0>>
Kern       == <<"kern", 0>>
Pages(S)   == {v \in 0 .. MaxPages - 1 : Page(v) \in S}
UpTo(n)    == 0 .. n - 1
Set(f, x, v) == [f EXCEPT ![x] = v]
Goto(s, l) == at' = Set(at, s, l)

\* A call builds in its own space (sbrk) or in a draft (fork, exec).
Building(s) == IF at[s] = "grow" THEN space[s] ELSE draft[s]
Build(s, S) ==
    IF at[s] = "grow" THEN space' = Set(space, s, S) /\ UNCHANGED draft
    ELSE draft' = Set(draft, s, S) /\ UNCHANGED space

\* The next page to be mapped.
NextPage(s) == Cardinality(Pages(Building(s)))

-----------------------------------------------------------------------------
\* growproc(n) with n > 0.
SbrkGrow(s, n) ==
    /\ at[s] = "user" /\ sz[s] + n <= MaxPages
    /\ goal' = Set(goal, s, sz[s] + n)
    /\ Goto(s, "grow")
    /\ UNCHANGED <<free, space, sz, draft, kstack, mem, child, lost>>

\* deallocuvm down to n pages; page tables stay.
Shrunk(s, n) == space[s] \ {Page(v) : v \in n .. MaxPages - 1}

\* growproc(n) with n < 0.  For a new size of 0 growproc takes the result for
\* an error and keeps the old sz; the program has no code left to run.
SbrkShrink(s, n) ==
    /\ at[s] = "user" /\ n < sz[s] /\ (n > 0 \/ s # First)
    /\ space' = Set(space, s, Shrunk(s, n))
    /\ free' = free + Cardinality(space[s] \ Shrunk(s, n))
    /\ sz' = Set(sz, s, IF n = 0 THEN sz[s] ELSE n)
    /\ Goto(s, IF n = 0 THEN "unmapped" ELSE "user")
    /\ UNCHANGED <<draft, kstack, goal, mem, child, lost>>

\* fork: allocproc has a slot and its kernel stack.
Fork(s, c) ==
    /\ at[s] = "user" /\ at[c] = "unused" /\ free > 0
    /\ free' = free - 1
    /\ kstack' = Set(kstack, c, TRUE)
    /\ child' = Set(child, s, c)
    /\ goal' = Set(goal, s, sz[s])
    /\ at' = [at EXCEPT ![s] = "fork", ![c] = "embryo"]
    /\ UNCHANGED <<space, sz, draft, mem, lost>>

\* exec of an image of n pages.
Exec(s, n) ==
    /\ at[s] = "user" /\ n <= MaxPages
    /\ goal' = Set(goal, s, n)
    /\ Goto(s, "exec")
    /\ UNCHANGED <<free, space, sz, draft, kstack, mem, child, lost>>

\* What freevm gives back of a fork or an exec that fails, allocproc's stack
\* included, and the end of the call.
FreeDraft(s, n) ==
    /\ free' = free + Cardinality(draft[s]) + n + IF at[s] = "fork" THEN 1 ELSE 0
    /\ draft' = Set(draft, s, {})
    /\ kstack' = IF at[s] = "fork" THEN Set(kstack, child[s], FALSE) ELSE kstack
    /\ at' = [at EXCEPT ![child[s]] = "unused", ![s] = "user"]
    /\ child' = Set(child, s, s)
    /\ UNCHANGED <<space, sz>>

\* allocuvm fails in sbrk: deallocuvm back to the old size.
UndoGrow(s, n) ==
    /\ space' = Set(space, s, Shrunk(s, sz[s]))
    /\ free' = free + Cardinality(space[s] \ Shrunk(s, sz[s])) + n
    /\ Goto(s, "user")
    /\ UNCHANGED <<sz, draft, kstack, child>>

\* The call gives up; n pages of its variables are given back as well.
Fail(s, n) ==
    /\ IF at[s] = "grow" THEN UndoGrow(s, n) ELSE FreeDraft(s, n)
    /\ mem' = Set(mem, s, FALSE)
    /\ goal' = Set(goal, s, 0)

\* The kalloc of setupkvm for the directory and for the kernel's tables.
SetupKvm(s) ==
    LET place == IF Dir \in draft[s] THEN Kern ELSE Dir
    IN  /\ at[s] \in {"fork", "exec"} /\ Kern \notin draft[s]
        /\ IF free = 0 THEN Fail(s, 0) /\ UNCHANGED lost
           ELSE /\ free' = free - 1
                /\ draft' = Set(draft, s, draft[s] \cup {place})
                /\ UNCHANGED <<space, sz, kstack, at, goal, mem, child, lost>>

Ready(s) == at[s] = "grow" \/ (at[s] \in {"fork", "exec"} /\ Kern \in draft[s])

\* The kalloc of allocuvm and copyuvm.
AllocMem(s) ==
    /\ Ready(s) /\ ~mem[s] /\ NextPage(s) < goal[s]
    /\ IF free = 0 THEN Fail(s, 0) /\ UNCHANGED lost
       ELSE /\ free' = free - 1
            /\ mem' = Set(mem, s, TRUE)
            /\ UNCHANGED <<space, sz, draft, kstack, at, goal, child, lost>>

\* Mutant: allocuvm forgets the page it could not map, as copyuvm does.
KeptForAll(s) == 0

\* The pages given back when mappages fails: allocuvm frees mem, copyuvm does
\* not.
Kept(s) == IF at[s] = "fork" THEN 0 ELSE 1

\* mappages, with the kalloc of walkpgdir for a missing table.
MapPage(s) ==
    LET S == Building(s)
        v == NextPage(s)
        table == IF Table(v) \in S THEN 0 ELSE 1
    IN  /\ Ready(s) /\ mem[s]
        /\ IF free < table
           THEN /\ Fail(s, Kept(s))
                /\ lost' = IF at[s] = "fork" THEN lost + 1 ELSE lost
           ELSE /\ free' = free - table
                /\ Build(s, S \cup {Table(v), Page(v)})
                /\ mem' = Set(mem, s, FALSE)
                /\ UNCHANGED <<sz, kstack, at, goal, child, lost>>

Built(s) == Ready(s) /\ ~mem[s] /\ NextPage(s) = goal[s]

\* growproc sets the size.
GrowDone(s) ==
    /\ at[s] = "grow" /\ Built(s)
    /\ sz' = Set(sz, s, goal[s])
    /\ goal' = Set(goal, s, 0)
    /\ Goto(s, "user")
    /\ UNCHANGED <<free, space, draft, kstack, mem, child, lost>>

\* The child of fork becomes RUNNABLE.
ForkDone(s) ==
    LET c == child[s]
    IN  /\ at[s] = "fork" /\ Built(s)
        /\ space' = Set(space, c, draft[s]) /\ sz' = Set(sz, c, goal[s])
        /\ draft' = Set(draft, s, {})
        /\ at' = [at EXCEPT ![s] = "user", ![c] = "user"]
        /\ child' = Set(child, s, s) /\ goal' = Set(goal, s, 0)
        /\ UNCHANGED <<free, kstack, mem, lost>>

\* exec commits to the new image, or fails on a bad file or argument.
ExecDone(s) ==
    /\ at[s] = "exec" /\ Built(s)
    /\ free' = free + Cardinality(space[s])
    /\ space' = Set(space, s, draft[s]) /\ sz' = Set(sz, s, goal[s])
    /\ draft' = Set(draft, s, {}) /\ goal' = Set(goal, s, 0)
    /\ Goto(s, "user")
    /\ UNCHANGED <<kstack, mem, child, lost>>
ExecBad(s) == at[s] = "exec" /\ ~mem[s] /\ Fail(s, 0) /\ UNCHANGED lost

\* exit; the page fault of an unmapped program ends there too.
Exit(s) ==
    /\ at[s] \in {"user", "unmapped"} /\ s # First
    /\ Goto(s, "zombie")
    /\ UNCHANGED <<free, space, sz, draft, kstack, goal, mem, child, lost>>

\* wait: kfree(p->kstack), freevm(p->pgdir).  The size of a free slot is not
\* read before fork sets it again.
Reap(s) ==
    /\ at[s] = "zombie"
    /\ free' = free + 1 + Cardinality(space[s])
    /\ kstack' = Set(kstack, s, FALSE)
    /\ space' = Set(space, s, {}) /\ sz' = Set(sz, s, 0)
    /\ Goto(s, "unused")
    /\ UNCHANGED <<draft, goal, mem, child, lost>>

\* After userinit.
Init ==
    /\ space = [s \in Slots |-> IF s = First THEN {Dir, Kern, Table(0), Page(0)} ELSE {}]
    /\ sz = [s \in Slots |-> IF s = First THEN 1 ELSE 0]
    /\ free = NFRAMES - 5
    /\ draft = [s \in Slots |-> {}]
    /\ kstack = [s \in Slots |-> s = First]
    /\ at = [s \in Slots |-> IF s = First THEN "user" ELSE "unused"]
    /\ goal = [s \in Slots |-> 0] /\ mem = [s \in Slots |-> FALSE]
    /\ child = [s \in Slots |-> s]
    /\ lost = 0

Next ==
    \E s \in Slots :
        \/ \E n \in 1 .. MaxPages : SbrkGrow(s, n) \/ Exec(s, n)
        \/ \E n \in 0 .. MaxPages : SbrkShrink(s, n)
        \/ \E c \in Slots : Fork(s, c)
        \/ SetupKvm(s) \/ AllocMem(s) \/ MapPage(s)
        \/ GrowDone(s) \/ ForkDone(s) \/ ExecDone(s) \/ ExecBad(s)
        \/ Exit(s) \/ Reap(s)

Spec == Init /\ [][Next]_vars

-----------------------------------------------------------------------------
\* Type correctness of the free list and the address spaces.
TypeOK ==
    /\ free \in 0 .. NFRAMES /\ lost \in 0 .. NFRAMES
    /\ sz \in [Slots -> 0 .. MaxPages] /\ goal \in [Slots -> 0 .. MaxPages]
    /\ mem \in [Slots -> BOOLEAN] /\ kstack \in [Slots -> BOOLEAN]
    /\ child \in [Slots -> Slots]
    /\ at \in [Slots -> {"unused", "embryo", "user", "grow", "fork", "exec", "unmapped", "zombie"}]

Count(f) == Cardinality({y \in Slots \X UNION {f[s] : s \in Slots} : y[2] \in f[y[1]]})

\* What is free, in use, held by a call or lost adds up.
PagesConserved ==
    free + Count(space) + Count(draft) + lost
        + Cardinality({s \in Slots : kstack[s]}) + Cardinality({s \in Slots : mem[s]}) = NFRAMES

\* A process outside a call has exactly the pages its size says, with their
\* tables; a draft belongs to a call, and a reaped slot has nothing.
SizeIsMapped ==
    \A s \in Slots :
        /\ at[s] \in {"user", "exec", "fork"} =>
              /\ Pages(space[s]) = UpTo(sz[s])
              /\ {Dir, Kern} \cup {Table(v) : v \in UpTo(sz[s])} \subseteq space[s]
        /\ draft[s] # {} => at[s] \in {"fork", "exec"}
        /\ kstack[s] <=> at[s] # "unused"
        /\ at[s] = "unused" => space[s] = {}

\* No page is freed twice and none disappears, and the size of a process is
\* what it has mapped, after an sbrk, fork or exec that failed half way too.
\* The exception is the page that copyuvm forgets when it finds no page for a
\* table, counted in lost.
PagesAccounted == PagesConserved /\ SizeIsMapped
=============================================================================
