------------------------------- MODULE MCDisk -------------------------------
(***************************************************************************)
(* The buffer cache over the disk queue, and the log over a disk that may  *)
(* crash, for TLC.  A behaviour plays in one scene, chosen at the start,   *)
(* and the other component rests.                                          *)
(***************************************************************************)
EXTENDS BufferCache

VARIABLES
    scene,
    home, logd, hdr, cache, ldirty, lh, outstanding, committing, tail, boot,
    pc, buf, wrote, panicked

Log == INSTANCE Log WITH
    Procs <- {"p1", "p2"}, Blocks <- {"b1", "b2"}, Values <- {0, 1},
    MAXOPBLOCKS <- 4, OpBlocks <- 2, LOGSIZE <- 8, nlog <- 8, dirty <- ldirty

logVars == <<home, logd, hdr, cache, ldirty, lh, outstanding, committing, tail, boot,
             pc, buf, wrote, panicked>>
allVars == <<scene, vars, logVars>>

\* The log rests on one disk: which one makes no difference to the cache.
MCInit ==
    /\ Init /\ Log!Init
    /\ \/ scene = "cache" /\ home = [b \in DOMAIN home |-> 0] /\ logd[1] = 0
       \/ scene = "log"

MCNext ==
    /\ UNCHANGED scene
    /\ \/ scene = "cache" /\ Next /\ UNCHANGED logVars
       \/ scene = "log" /\ Log!Next /\ UNCHANGED vars

\* The fairness of BufferCache, and that of FairSpec of Log.
InCache(A) == scene = "cache" /\ A /\ UNCHANGED <<scene, logVars>>
InLog(A)   == scene = "log" /\ ~panicked /\ A /\ UNCHANGED <<scene, vars>>
MCFairness ==
    /\ WF_allVars(InCache(Ideintr)) /\ \A p \in Users : WF_allVars(InCache(UserRest(p)))
    /\ \A o \in {"p1", "p2"} :
          /\ WF_allVars(InLog(Log!LogWriteCheck(o) \/ Log!LogWrite(o) \/ Log!CommitStep(o)))
          /\ SF_allVars(InLog(Log!EndOp(o)))

MCSpec == MCInit /\ [][MCNext]_allVars /\ MCFairness

\* Type correctness of the buffer cache and the log.
TypesOK == TypeOK /\ Log!TypeOK

\* Once the last end_op has returned, everything is at home on disk (Log).
QuietIsDurable == Log!QuietIsDurable

\* A crash leaves the state after a whole group of calls (Log).
AtomicTransactions == Log!AtomicTransactions

\* Whoever sleeps in begin_op is woken (Log).
SleeperWoken == Log!SleeperWoken
=============================================================================
