----------------------------- MODULE ByteStream -----------------------------
(***************************************************************************)
(* What a pipe promises to the processes that hold its two ends: a bounded *)
(* first-in first-out stream of bytes.  Closing an end is final, and the   *)
(* bytes written before the last writer left stay readable.                *)
(***************************************************************************)
EXTENDS Naturals, Sequences

CONSTANTS Bytes, Capacity

VARIABLES
    stream,   \* bytes written and not yet read
    readers,  \* the read end is open
    writers   \* the write end is open

vars == <<stream, readers, writers>>

Init == stream = <<>> /\ readers = FALSE /\ writers = FALSE

Open ==
    /\ ~readers /\ ~writers
    /\ readers' = TRUE /\ writers' = TRUE
    /\ UNCHANGED stream

Write ==
    /\ writers
    /\ \E n \in 1 .. Capacity - Len(stream) : \E s \in [1 .. n -> Bytes] : stream' = stream \o s
    /\ UNCHANGED <<readers, writers>>

Read ==
    /\ readers
    /\ \E n \in 1 .. Len(stream) : stream' = SubSeq(stream, n + 1, Len(stream))
    /\ UNCHANGED <<readers, writers>>

\* With the second end the unread bytes go.
Close ==
    /\ \/ readers /\ readers' = FALSE /\ UNCHANGED writers
       \/ writers /\ writers' = FALSE /\ UNCHANGED readers
    /\ stream' = IF readers' \/ writers' THEN stream ELSE <<>>

Next == Open \/ Write \/ Read \/ Close

Spec == Init /\ [][Next]_vars
=============================================================================
