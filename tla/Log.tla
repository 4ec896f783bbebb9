-------------------------------- MODULE Log ---------------------------------
(***************************************************************************)
(* The file-system log: xv6/log.c over the buffer cache (xv6/bio.c) and a  *)
(* disk that writes one block at a time and may lose power before any      *)
(* write.                                                                  *)
(*                                                                         *)
(* Every disk write is an action of its own, also those of the recovery    *)
(* that initlog runs at boot; a crash can fall between any two of them.    *)
(* A critical section under log.lock is one action.  The test at the head  *)
(* of log_write is made without the lock and is an action of its own.      *)
(* The contents of a block is a value; what a file-system call writes is   *)
(* arbitrary, at most OpBlocks different blocks.                           *)
(***************************************************************************)
EXTENDS Integers, Sequences, FiniteSets

CONSTANTS
    Procs,        \* processes making file-system calls
    Blocks,       \* block numbers outside the log area
    Values,       \* contents of a block
    MAXOPBLOCKS,  \* blocks a call may write, as begin_op counts
    OpBlocks,     \* blocks a call does write
    LOGSIZE,      \* capacity of the log header
    nlog          \* size of the log area on disk, header block included

NoBlock == "none"   \* a null buffer pointer

ASSUME LogAssumption ==
    /\ MAXOPBLOCKS \in Nat \ {0} /\ LOGSIZE \in Nat /\ MAXOPBLOCKS <= LOGSIZE
    /\ OpBlocks \in Nat /\ OpBlocks <= MAXOPBLOCKS
    /\ nlog \in Nat \ {0}
    /\ NoBlock \notin Blocks

VARIABLES
    home,         \* on disk: the blocks at their home locations
    logd,         \* on disk: the data blocks of the log area
    hdr,          \* on disk: the header, the block numbers of a committed transaction
    cache,        \* a block's contents in its buffer, or at home if it has none
    dirty,        \* blocks whose buffer has B_DIRTY set
    lh,           \* log.lh: the block numbers logged so far
    outstanding,  \* log.outstanding
    committing,   \* log.committing
    tail,         \* loop index of write_log and install_trans
    boot,         \* where initlog is, "up" once it has returned
    pc,           \* where a process is
    buf,          \* the buffer a process holds locked, between bread and brelse
    wrote,        \* the blocks a call has written so far
    panicked

disk   == <<home, logd, hdr>>
memory == <<cache, dirty, lh, outstanding, committing, tail>>
calls  == <<pc, buf, wrote>>
vars   == <<disk, memory, boot, calls, panicked>>

InOp       == {"op", "modified", "checked"}
Committing == {"write_log", "install", "done"}
Active     == {o \in Procs : pc[o] \in InOp}
Logged     == {lh[i] : i \in 1 .. Len(lh)}

Goto(o, label) == pc' = [pc EXCEPT ![o] = label]

\* Mutant: nobody is woken.
WakeupNobody(o, label) == [pc EXCEPT ![o] = label]

\* wakeup(&log), together with the step of o to label.
WakeupAnd(o, label) ==
    [q \in Procs |-> IF q = o THEN label ELSE IF pc[q] = "asleep" THEN "begin" ELSE pc[q]]

-----------------------------------------------------------------------------
(***************************************************************************)
(* begin_op, log_write, end_op.                                            *)
(***************************************************************************)

\* Mutant: the calls in progress are not counted.
MustWaitOne == committing \/ Len(lh) + MAXOPBLOCKS > LOGSIZE

\* begin_op's two tests: a commit is running, or the space left may not be
\* enough for one more call.
MustWait == committing \/ Len(lh) + (outstanding + 1) * MAXOPBLOCKS > LOGSIZE

BeginOp(o) ==
    /\ boot = "up" /\ pc[o] \in {"idle", "begin"}
    /\ \/ /\ MustWait
          /\ Goto(o, "asleep")
          /\ UNCHANGED outstanding
       \/ /\ ~MustWait
          /\ outstanding' = outstanding + 1
          /\ Goto(o, "op")
    /\ UNCHANGED <<disk, cache, dirty, lh, committing, tail, boot, buf, wrote, panicked>>

\* kill() makes a sleeper RUNNABLE; begin_op tests again.
KillWakes(o) ==
    /\ pc[o] = "asleep"
    /\ Goto(o, "begin")
    /\ UNCHANGED <<disk, memory, boot, buf, wrote, panicked>>

\* bp = bread(...); modify bp->data[]
Modify(o, b, v) ==
    /\ pc[o] = "op"
    /\ \A q \in Procs : buf[q] # b
    /\ Cardinality(wrote[o] \cup {b}) <= OpBlocks
    /\ cache' = [cache EXCEPT ![b] = v]
    /\ buf' = [buf EXCEPT ![o] = b]
    /\ wrote' = [wrote EXCEPT ![o] = @ \cup {b}]
    /\ Goto(o, "modified")
    /\ UNCHANGED <<disk, dirty, lh, outstanding, committing, tail, boot, panicked>>

\* The tests of log_write, before it takes log.lock.
LogWriteCheck(o) ==
    /\ pc[o] = "modified"
    /\ IF Len(lh) >= LOGSIZE \/ Len(lh) >= nlog - 1 \/ outstanding < 1
       THEN panicked' = TRUE /\ UNCHANGED pc
       ELSE Goto(o, "checked") /\ UNCHANGED panicked
    /\ UNCHANGED <<disk, memory, boot, buf, wrote>>

\* Mutant: no absorption.
AppendAlways(b) == Append(lh, b)

\* log.lh with block b, absorbed if it is there already.
Absorb(b) == IF b \in Logged THEN lh ELSE Append(lh, b)

\* Mutant: the buffer is not marked.
NoPin(b) == dirty

\* b->flags |= B_DIRTY; prevent eviction.
Pin(b) == dirty \cup {b}

\* The critical section of log_write, and the caller's brelse.
LogWrite(o) ==
    /\ pc[o] = "checked"
    /\ lh' = Absorb(buf[o])
    /\ dirty' = Pin(buf[o])
    /\ buf' = [buf EXCEPT ![o] = NoBlock]
    /\ Goto(o, "op")
    /\ UNCHANGED <<disk, cache, outstanding, committing, tail, boot, wrote, panicked>>

\* end_op up to commit(): the last call starts the commit, another one wakes
\* those who wait for space.
EndOp(o) ==
    /\ pc[o] = "op"
    /\ outstanding' = outstanding - 1
    /\ IF committing
       THEN panicked' = TRUE /\ UNCHANGED <<committing, tail, pc, wrote>>
       ELSE /\ wrote' = [wrote EXCEPT ![o] = {}]
            /\ IF outstanding = 1
               THEN /\ committing' = TRUE
                    /\ tail' = 1
                    /\ Goto(o, IF lh = <<>> THEN "done" ELSE "write_log")
               ELSE /\ pc' = WakeupAnd(o, "idle")
                    /\ UNCHANGED <<committing, tail>>
            /\ UNCHANGED panicked
    /\ UNCHANGED <<disk, cache, dirty, lh, boot, buf>>

-----------------------------------------------------------------------------
(***************************************************************************)
(* commit.                                                                 *)
(***************************************************************************)

\* One turn of write_log's loop.
WriteLog(o) ==
    /\ pc[o] = "write_log" /\ tail <= Len(lh)
    /\ logd' = [logd EXCEPT ![tail] = cache[lh[tail]]]
    /\ tail' = tail + 1
    /\ UNCHANGED <<home, hdr, cache, dirty, lh, outstanding, committing, boot, calls, panicked>>

\* Mutant: the index of the next loop is one too low.
WriteHeadLow(o) ==
    /\ pc[o] = "write_log" /\ tail > Len(lh)
    /\ hdr' = lh
    /\ tail' = 0
    /\ Goto(o, "install")
    /\ UNCHANGED <<home, logd, cache, dirty, lh, outstanding, committing, boot, buf, wrote, panicked>>

\* write_head(): "the real commit".
WriteHead(o) ==
    /\ pc[o] = "write_log" /\ tail > Len(lh)
    /\ hdr' = lh
    /\ tail' = 1
    /\ Goto(o, "install")
    /\ UNCHANGED <<home, logd, cache, dirty, lh, outstanding, committing, boot, buf, wrote, panicked>>

\* One turn of install_trans's loop; bwrite leaves the buffer clean.
InstallBlock ==
    /\ tail <= Len(lh)
    /\ home' = [home EXCEPT ![lh[tail]] = logd[tail]]
    /\ cache' = [cache EXCEPT ![lh[tail]] = logd[tail]]
    /\ dirty' = dirty \ {lh[tail]}
    /\ tail' = tail + 1
    /\ UNCHANGED <<logd, hdr, lh, outstanding, committing>>

\* Mutant: the header on disk is not erased.
EraseMemoryOnly ==
    /\ tail > Len(lh)
    /\ lh' = <<>>
    /\ UNCHANGED <<hdr, home, logd, cache, dirty, outstanding, committing, tail>>

\* log.lh.n = 0; write_head(): "Erase the transaction from the log".
EraseLog ==
    /\ tail > Len(lh)
    /\ lh' = <<>>
    /\ hdr' = <<>>
    /\ UNCHANGED <<home, logd, cache, dirty, outstanding, committing, tail>>

InstallTrans(o) ==
    /\ pc[o] = "install" /\ InstallBlock
    /\ UNCHANGED <<boot, calls, panicked>>

ClearLog(o) ==
    /\ pc[o] = "install" /\ EraseLog
    /\ Goto(o, "done")
    /\ UNCHANGED <<boot, buf, wrote, panicked>>

\* The end of end_op.
Committed(o) ==
    /\ pc[o] = "done"
    /\ committing' = FALSE
    /\ pc' = WakeupAnd(o, "idle")
    /\ UNCHANGED <<disk, cache, dirty, lh, outstanding, tail, boot, buf, wrote, panicked>>

-----------------------------------------------------------------------------
(***************************************************************************)
(* The buffer cache, crashes, and recovery.                                *)
(***************************************************************************)

\* bget may recycle a buffer that is neither in use nor dirty; the block's
\* next reader finds what is at home.
Evict(b) ==
    /\ b \notin dirty /\ \A o \in Procs : buf[o] # b
    /\ cache' = [cache EXCEPT ![b] = home[b]]
    /\ UNCHANGED <<disk, dirty, lh, outstanding, committing, tail, boot, calls, panicked>>

\* Power is lost, or the machine is restarted after a panic.
Crash ==
    /\ cache' = home
    /\ dirty' = {}
    /\ lh' = <<>>
    /\ outstanding' = 0
    /\ committing' = FALSE
    /\ tail' = 1
    /\ boot' = "read_head"
    /\ pc' = [o \in Procs |-> "idle"]
    /\ buf' = [o \in Procs |-> NoBlock]
    /\ wrote' = [o \in Procs |-> {}]
    /\ panicked' = FALSE
    /\ UNCHANGED disk

ReadHead ==
    /\ boot = "read_head"
    /\ lh' = hdr
    /\ boot' = "install"
    /\ UNCHANGED <<disk, cache, dirty, outstanding, committing, tail, calls, panicked>>

RecoverInstall ==
    /\ boot = "install" /\ InstallBlock
    /\ UNCHANGED <<boot, calls, panicked>>

RecoverClear ==
    /\ boot = "install" /\ EraseLog
    /\ boot' = "up"
    /\ UNCHANGED <<calls, panicked>>

-----------------------------------------------------------------------------
\* A file system made by mkfs, which fills the log area, header included, with
\* zero blocks.
Init ==
    /\ home \in [Blocks -> Values]
    /\ \E zeroes \in Values : logd = [i \in 1 .. (nlog - 1) |-> zeroes]
    /\ hdr = <<>>
    /\ cache = home
    /\ dirty = {}
    /\ lh = <<>>
    /\ outstanding = 0
    /\ committing = FALSE
    /\ tail = 1
    /\ boot = "read_head"
    /\ pc = [o \in Procs |-> "idle"]
    /\ buf = [o \in Procs |-> NoBlock]
    /\ wrote = [o \in Procs |-> {}]
    /\ panicked = FALSE

\* A step of the code between begin_op and the return of end_op.
OpStep(o) ==
    \/ \E b \in Blocks, v \in Values : Modify(o, b, v)
    \/ LogWriteCheck(o) \/ LogWrite(o)

CommitStep(o) ==
    \/ WriteLog(o) \/ WriteHead(o) \/ InstallTrans(o) \/ ClearLog(o) \/ Committed(o)

Running ==
    \/ \E o \in Procs : BeginOp(o) \/ KillWakes(o) \/ OpStep(o) \/ EndOp(o) \/ CommitStep(o)
    \/ \E b \in Blocks : Evict(b)
    \/ ReadHead \/ RecoverInstall \/ RecoverClear

Next == (~panicked /\ Running) \/ Crash

Spec == Init /\ [][Next]_vars

\* Every call in progress comes to its end_op, and the commit code runs on.
FairSpec ==
    /\ Spec
    /\ \A o \in Procs : /\ WF_vars(~panicked /\ (LogWriteCheck(o) \/ LogWrite(o) \/ CommitStep(o)))
                        /\ SF_vars(~panicked /\ EndOp(o))

-----------------------------------------------------------------------------
(***************************************************************************)
(* Properties.                                                             *)
(***************************************************************************)

\* Every variable keeps its type, and the header never overflows its array.
TypeOK ==
    /\ home \in [Blocks -> Values] /\ cache \in [Blocks -> Values]
    /\ logd \in [1 .. (nlog - 1) -> Values]
    /\ hdr \in Seq(Blocks) /\ Len(hdr) <= LOGSIZE
    /\ lh \in Seq(Blocks) /\ Len(lh) <= LOGSIZE
    /\ dirty \subseteq Blocks
    /\ outstanding \in Nat /\ committing \in BOOLEAN /\ tail \in Nat \ {0}
    /\ boot \in {"read_head", "install", "up"}
    /\ pc \in [Procs -> {"idle", "begin", "asleep"} \cup InOp \cup Committing]
    /\ buf \in [Procs -> Blocks \cup {NoBlock}]
    /\ wrote \in [Procs -> SUBSET Blocks]
    /\ panicked \in BOOLEAN

\* log_write never runs out of log space, and end_op never meets a commit.
NoPanic == ~panicked

\* What begin_op reserves is there: every call in progress can still write all
\* its blocks without exceeding LOGSIZE.  A block that calls in progress have
\* written already counts in lh, not in the reservation.  And a transaction that
\* passed the test of log_write, which reads lh without the lock, fits in the
\* log area: write_log never writes past it.
SpaceReserved ==
    /\ Len(lh) + Cardinality(Active) * OpBlocks
          <= LOGSIZE + Cardinality(UNION {wrote[o] : o \in Active})
    /\ Len(lh) <= nlog - 1

\* When no call is in progress and no commit is running, everything that was
\* ever written is at home on disk: the caller of the last end_op can rely on
\* its data surviving a crash.
QuietIsDurable ==
    (boot = "up" /\ outstanding = 0 /\ ~committing) =>
        home = cache /\ dirty = {} /\ hdr = <<>> /\ lh = <<>>

\* What recovery would make of the disk.
Recovered ==
    [b \in Blocks |-> IF \E i \in 1 .. Len(hdr) : hdr[i] = b
                      THEN logd[CHOOSE i \in 1 .. Len(hdr) : hdr[i] = b]
                      ELSE home[b]]

\* The log implements atomic group transactions: whatever is interleaved and
\* wherever it crashes, also inside recovery, the disk recovers to the state
\* at the end of a whole group of calls.
Abs == INSTANCE Transactions WITH
    current <- IF boot = "up" THEN cache ELSE Recovered,
    durable <- Recovered,
    active  <- Active
AtomicTransactions == Abs!Spec

\* Every process that sleeps in begin_op is woken.
SleeperWoken == \A o \in Procs : (pc[o] = "asleep") ~> (pc[o] # "asleep")
=============================================================================
