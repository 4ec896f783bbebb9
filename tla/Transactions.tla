---------------------------- MODULE Transactions ----------------------------
(***************************************************************************)
(* What the log promises to the file system (the comment at the head of    *)
(* xv6/log.c and its callers): between begin_op and end_op a call changes  *)
(* blocks in memory; the changes of a group of calls reach the disk all at *)
(* once, and only while none of them is still in progress; a crash takes   *)
(* the memory back to what had reached the disk.                           *)
(***************************************************************************)
CONSTANTS Procs, Blocks, Values

VARIABLES
    current,   \* the blocks as the running system sees them
    durable,   \* the blocks as they would be after a crash and recovery
    active     \* processes between begin_op and end_op

vars == <<current, durable, active>>

Init ==
    /\ current \in [Blocks -> Values]
    /\ durable = current
    /\ active = {}

Begin(o) ==
    /\ o \notin active
    /\ active' = active \cup {o}
    /\ UNCHANGED <<current, durable>>

Write(o, b, v) ==
    /\ o \in active
    /\ current' = [current EXCEPT ![b] = v]
    /\ UNCHANGED <<durable, active>>

End(o) ==
    /\ o \in active
    /\ active' = active \ {o}
    /\ UNCHANGED <<current, durable>>

Commit ==
    /\ active = {}
    /\ durable' = current
    /\ UNCHANGED <<current, active>>

Crash ==
    /\ current' = durable
    /\ active' = {}
    /\ UNCHANGED durable

Next ==
    \/ \E o \in Procs : \/ Begin(o) \/ End(o)
                        \/ \E b \in Blocks, v \in Values : Write(o, b, v)
    \/ Commit
    \/ Crash

Spec == Init /\ [][Next]_vars
=============================================================================
