---------------------------- MODULE BufferCache -----------------------------
(***************************************************************************)
(* The buffer cache with its sleep locks and the disk queue: xv6/bio.c,    *)
(* xv6/sleeplock.c and xv6/ide.c.                                          *)
(*                                                                         *)
(* A critical section of bcache.lock, of a sleep lock's spinlock or of     *)
(* idelock is one action, and processes run between any two of them.  A    *)
(* process uses one buffer at a time and, as the file system does, hands   *)
(* every change to bwrite or to log_write, which pins the buffer.  The     *)
(* disk takes the data of a write when it is started and reports no error. *)
(***************************************************************************)
EXTENDS Integers, Sequences, FiniteSets

CONSTANTS
    Users,       \* processes
    NBUF,
    Blocks,      \* block numbers, on one disk
    Values,      \* contents of a block
    MaxPinned    \* blocks the log may hold back at a time

Bufs   == 1 .. NBUF
Nobody == 0                \* no process, no buffer, no block

ASSUME CacheAssumption ==
    /\ NBUF \in Nat
    /\ IsFiniteSet(Users) /\ Nobody \notin Users
    /\ Nobody \notin Blocks
    /\ Values # {}

VARIABLES
    blockno, valid, dirty, refcnt, content,   \* the fields of a struct buf
    locked,                                   \* the pid of its sleep lock
    lru,                                      \* the list, most recently used first
    disk,
    idequeue,
    busy,                                     \* the disk works on a request
    at,                                       \* where a process is
    mine                                      \* the buffer it uses

meta == <<blockno, refcnt, lru>>
flags == <<valid, dirty>>
ide  == <<disk, idequeue, busy>>
vars == <<meta, flags, content, locked, ide, at, mine>>

Cached(k) == {b \in Bufs : blockno[b] = k}
Set(f, x, v) == [f EXCEPT ![x] = v]

\* A panic keeps bcache.lock for ever.
BcacheFree == \A p \in Users : at[p] # "panic"

\* wakeup(chan): the sleepers of kind how on b go on at next.
Wake(how, b, next, pcs) ==
    [q \in Users |-> IF pcs[q] = how /\ mine[q] = b THEN next ELSE pcs[q]]

\* Mutant: a dirty buffer that nobody refers to is recycled.
UnusedDirty(b) == refcnt[b] = 0

\* refcnt == 0 and B_DIRTY not set
Unused(b) == refcnt[b] = 0 /\ ~dirty[b]

\* The least recently used of the unused buffers.
Victim == lru[CHOOSE i \in Bufs : Unused(lru[i]) /\ \A j \in i + 1 .. NBUF : ~Unused(lru[j])]

\* bget finds the block in the cache.
BgetHit(p, k) ==
    LET b == CHOOSE x \in Cached(k) : TRUE
    IN  /\ at[p] = "idle" /\ BcacheFree /\ Cached(k) # {}
        /\ refcnt' = [refcnt EXCEPT ![b] = @ + 1]
        /\ mine' = Set(mine, p, b) /\ at' = Set(at, p, "acquire")
        /\ UNCHANGED <<blockno, lru, flags, content, locked, ide>>

\* bget recycles a buffer, or panics without one.
BgetMiss(p, k) ==
    LET b == Victim
    IN  /\ at[p] = "idle" /\ BcacheFree /\ Cached(k) = {}
        /\ IF \E x \in Bufs : Unused(x)
           THEN /\ blockno' = Set(blockno, b, k)
                /\ valid' = Set(valid, b, FALSE) /\ dirty' = Set(dirty, b, FALSE)
                /\ refcnt' = Set(refcnt, b, 1)
                /\ mine' = Set(mine, p, b) /\ at' = Set(at, p, "acquire")
           ELSE at' = Set(at, p, "panic") /\ UNCHANGED <<blockno, flags, refcnt, mine>>
        /\ UNCHANGED <<lru, content, locked, ide>>

\* acquiresleep, from its acquire or from the return of sleep; then bread
\* either returns or calls iderw.
AcquireSleep(p) ==
    LET b == mine[p]
    IN  /\ at[p] = "acquire"
        /\ IF locked[b] # Nobody
           THEN at' = Set(at, p, "lock_sleep") /\ UNCHANGED locked
           ELSE /\ locked' = Set(locked, b, p)
                /\ at' = Set(at, p, IF valid[b] THEN "held" ELSE "iderw")
        /\ UNCHANGED <<meta, flags, content, ide, mine>>

\* The process changes the block and calls bwrite.
Bwrite(p, v) ==
    LET b == mine[p]
    IN  /\ at[p] = "held"
        /\ content' = Set(content, b, v)
        /\ dirty' = Set(dirty, b, TRUE)
        /\ at' = Set(at, p, "iderw")
        /\ UNCHANGED <<meta, valid, locked, ide, mine>>

\* The process changes the block and calls log_write.
LogWrite(p, v) ==
    LET b == mine[p]
    IN  /\ at[p] = "held"
        /\ dirty[b] \/ Cardinality({x \in Bufs : dirty[x]}) < MaxPinned
        /\ content' = Set(content, b, v)
        /\ dirty' = Set(dirty, b, TRUE)
        /\ UNCHANGED <<meta, valid, locked, ide, at, mine>>

\* idestart for b: the disk gets the data of a write, and nothing to read yet.
Started(b, d) == IF dirty[b] THEN Set(d, blockno[b], content[b]) ELSE d

\* iderw up to its sleep; an idle disk is started at once.
Iderw(p) ==
    LET b == mine[p]
    IN  /\ at[p] = "iderw"
        /\ idequeue' = Append(idequeue, b)
        /\ disk' = IF idequeue = <<>> THEN Started(b, disk) ELSE disk
        /\ busy' = (busy \/ idequeue = <<>>)
        /\ at' = Set(at, p, "disk_sleep")
        /\ UNCHANGED <<meta, flags, content, locked, mine>>

\* Mutant: the next request stays in the queue and is not started.
NextStartNever(q) == FALSE

\* if(idequeue != 0) idestart(idequeue)
NextStart(q) == q # <<>>

\* ideintr for the active request, the first of the queue.  An interrupt comes
\* only for a request that was started.
Ideintr ==
    LET b == Head(idequeue)
    IN  /\ busy
        /\ idequeue' = Tail(idequeue)
        /\ content' = IF dirty[b] THEN content ELSE Set(content, b, disk[blockno[b]])
        /\ valid' = Set(valid, b, TRUE)
        /\ dirty' = Set(dirty, b, FALSE)
        /\ at' = Wake("disk_sleep", b, "disk_awake", at)
        /\ busy' = NextStart(Tail(idequeue))
        /\ disk' = IF busy' THEN Started(idequeue[2], disk) ELSE disk
        /\ UNCHANGED <<meta, locked, mine>>

\* iderw after its sleep: the loop tests the flags again.
IderwAwake(p) ==
    LET b == mine[p]
    IN  /\ at[p] = "disk_awake"
        /\ at' = Set(at, p, IF valid[b] /\ ~dirty[b] THEN "held" ELSE "disk_sleep")
        /\ UNCHANGED <<meta, flags, content, locked, ide, mine>>

\* The releasesleep of brelse.
Brelse(p) ==
    LET b == mine[p]
    IN  /\ at[p] = "held"
        /\ locked' = Set(locked, b, Nobody)
        /\ at' = Wake("lock_sleep", b, "acquire", Set(at, p, "brelse"))
        /\ UNCHANGED <<meta, flags, content, ide, mine>>

\* Mutant: brelse forgets the reference.
LessRefNone(b) == refcnt

\* b->refcnt--
LessRef(b) == [refcnt EXCEPT ![b] = @ - 1]

\* b is unlinked and put at the head of the list.
MoveToHead(b) ==
    LET n == CHOOSE i \in Bufs : lru[i] = b
    IN  [i \in Bufs |-> IF i = 1 THEN b ELSE IF i <= n THEN lru[i - 1] ELSE lru[i]]

\* The rest of brelse: an unused buffer goes to the front of the list.
BrelseRef(p) ==
    LET b == mine[p]
    IN  /\ at[p] = "brelse" /\ BcacheFree
        /\ refcnt' = LessRef(b)
        /\ lru' = IF refcnt'[b] = 0 THEN MoveToHead(b) ELSE lru
        /\ at' = Set(at, p, "idle") /\ mine' = Set(mine, p, Nobody)
        /\ UNCHANGED <<blockno, flags, content, locked, ide>>

\* After binit the list runs from the last buffer to the first.
Init ==
    /\ blockno = [b \in Bufs |-> Nobody] /\ refcnt = [b \in Bufs |-> 0]
    /\ valid = [b \in Bufs |-> FALSE] /\ dirty = [b \in Bufs |-> FALSE]
    /\ disk = [k \in Blocks |-> CHOOSE v \in Values : TRUE]
    /\ content = [b \in Bufs |-> CHOOSE v \in Values : TRUE]
    /\ locked = [b \in Bufs |-> Nobody]
    /\ lru = [i \in Bufs |-> NBUF + 1 - i]
    /\ idequeue = <<>> /\ busy = FALSE
    /\ at = [p \in Users |-> "idle"] /\ mine = [p \in Users |-> Nobody]

\* The rest of a call in progress.
UserRest(p) == AcquireSleep(p) \/ Iderw(p) \/ IderwAwake(p) \/ BrelseRef(p)

Next ==
    \/ Ideintr
    \/ \E p \in Users :
          \/ UserRest(p) \/ Brelse(p)
          \/ \E k \in Blocks : BgetHit(p, k) \/ BgetMiss(p, k)
          \/ \E v \in Values : Bwrite(p, v) \/ LogWrite(p, v)

Spec == Init /\ [][Next]_vars

\* The disk answers, and a call that is not asleep goes on.
Fairness == WF_vars(Ideintr) /\ \A p \in Users : WF_vars(UserRest(p))

FairSpec == Spec /\ Fairness

-----------------------------------------------------------------------------
\* Type correctness of the buffers, the list, the queue and the calls.
TypeOK ==
    /\ blockno \in [Bufs -> Blocks \cup {Nobody}] /\ refcnt \in [Bufs -> Nat]
    /\ valid \in [Bufs -> BOOLEAN] /\ dirty \in [Bufs -> BOOLEAN]
    /\ content \in [Bufs -> Values] /\ disk \in [Blocks -> Values]
    /\ locked \in [Bufs -> Users \cup {Nobody}] /\ mine \in [Users -> Bufs \cup {Nobody}]
    /\ lru \in [Bufs -> Bufs] /\ \A b \in Bufs : \E i \in Bufs : lru[i] = b
    /\ idequeue \in Seq(Bufs) /\ busy \in BOOLEAN
    /\ at \in [Users -> {"idle", "acquire", "lock_sleep", "iderw", "disk_sleep", "disk_awake",
                         "held", "brelse", "panic"}]

\* The processes that work on the contents of k.
UsersOf(k) ==
    {p \in Users : \E b \in Cached(k) : mine[p] = b /\ locked[b] = p /\ valid[b]}

Store == INSTANCE BlockStore WITH
    content <- [k \in Blocks |->
                  IF \E b \in Cached(k) : valid[b]
                  THEN content[CHOOSE b \in Cached(k) : valid[b]] ELSE disk[k]],
    user <- [k \in Blocks |-> IF UsersOf(k) = {} THEN Nobody ELSE CHOOSE p \in UsersOf(k) : TRUE]

\* The cache is a store of blocks: whatever is recycled, read again, written
\* or pinned by the log, a block has one content and at most one user, and
\* only its user changes it.
CacheIsBlockStore == Store!Spec

\* There is one buffer for a block, the references of a buffer are the calls
\* that use it, its lock is held by one of them, and the disk queue holds
\* exactly the buffers whose users wait for the disk, each once.  Hence bget
\* panics for want of a buffer only when each one is pinned by the log or used
\* by a call that has not returned it.
BuffersExact ==
    /\ \A k \in Blocks : Cardinality(Cached(k)) <= 1 /\ Cardinality(UsersOf(k)) <= 1
    /\ \A b \in Bufs :
          /\ refcnt[b] = Cardinality({p \in Users : mine[p] = b})
          /\ locked[b] # Nobody <=>
                \E p \in Users : mine[p] = b /\ at[p] \in {"iderw", "disk_sleep", "disk_awake", "held"}
          /\ locked[b] # Nobody => mine[locked[b]] = b
          /\ Cardinality({i \in 1 .. Len(idequeue) : idequeue[i] = b})
             = Cardinality({p \in Users : mine[p] = b /\ at[p] = "disk_sleep"})
          /\ ~BcacheFree => dirty[b] \/ \E p \in Users : mine[p] = b

\* Every request to the disk is finished and its process woken.
RequestsFinish == \A p \in Users : at[p] = "iderw" ~> at[p] = "held"
=============================================================================
