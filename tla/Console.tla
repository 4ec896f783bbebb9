------------------------------ MODULE Console -------------------------------
(***************************************************************************)
(* Console input, xv6/console.c: consoleintr and consoleread share a ring  *)
(* with a read, a write and an edit index.  Everything between an acquire  *)
(* of cons.lock and the next sleep or release is one action; consoleintr   *)
(* takes one key at a time, as it does when keys come slowly.  Output is   *)
(* left out.  Listing the processes (^P) changes nothing here, and a key   *)
(* of code 0 is ignored.                                                   *)
(***************************************************************************)
EXTENDS Integers, Sequences

CONSTANTS
    Readers,    \* processes that read the console
    INPUT_BUF,
    Wrap,       \* 2^w for the w-bit indices
    Sizes       \* sizes passed to read

VARIABLES
    buf, r, w, e,    \* the fields of input
    at,              \* where a reader is
    n, target,       \* its bytes still wanted, and wanted at first
    doomed           \* its p->killed

input == <<buf, r, w, e>>
vars  == <<input, at, n, target, doomed>>

Chars == {"a", "nl", "eof"}     \* any other character, '\n', C('D')

\* Indices count modulo Wrap, and the ring is reached modulo INPUT_BUF.
Between(i, j) == [k \in 1 .. (j - i) % Wrap |-> buf[(i + k - 1) % INPUT_BUF]]

\* Mutant: one reader is woken, the others sleep on.
WokenOne ==
    LET asleep == {p \in Readers : at[p] = "sleep"}
    IN  [p \in Readers |-> IF asleep # {} /\ p = CHOOSE q \in asleep : TRUE THEN "read" ELSE at[p]]

\* wakeup(&input.r)
Woken == [p \in Readers |-> IF at[p] = "sleep" THEN "read" ELSE at[p]]

\* The line becomes readable with c at the index e.
Completes(c) == c \in {"nl", "eof"} \/ (e + 1) % Wrap = (r + INPUT_BUF) % Wrap

\* The default case of consoleintr.  A carriage return counts as "nl".
Key(c) ==
    /\ (e - r) % Wrap < INPUT_BUF
    /\ buf' = [buf EXCEPT ![e % INPUT_BUF] = c]
    /\ e' = (e + 1) % Wrap
    /\ IF Completes(c) THEN w' = e' /\ at' = Woken ELSE UNCHANGED <<w, at>>
    /\ UNCHANGED <<r, n, target, doomed>>

\* Mutant: the line is erased up to the read index.
MayErasePast == e # r

\* input.e != input.w
MayErase == e # w

Backspace ==
    /\ MayErase
    /\ e' = (e - 1) % Wrap
    /\ UNCHANGED <<buf, r, w, at, n, target, doomed>>

\* ^U erases back to w, or to a '\n'.
KillLine ==
    /\ MayErase
    /\ LET typed == Between(w, e)
           stops == {k \in 1 .. Len(typed) : typed[k] = "nl"}
           keep  == IF stops = {} THEN 0 ELSE CHOOSE k \in stops : \A j \in stops : j <= k
       IN  e' = (w + keep) % Wrap
    /\ UNCHANGED <<buf, r, w, at, n, target, doomed>>

ConsoleRead(p, size) ==
    /\ at[p] = "user" /\ ~doomed[p]
    /\ at' = [at EXCEPT ![p] = "read"]
    /\ n' = [n EXCEPT ![p] = size]
    /\ target' = [target EXCEPT ![p] = size]
    /\ UNCHANGED <<input, doomed>>

\* The loop of consoleread, until it sleeps or returns.
ReadLoop(p) ==
    LET avail == Between(r, w)
        last(m) == m = n[p] \/ avail[m] \in {"nl", "eof"}
        ends  == {m \in 1 .. Len(avail) : last(m)}
        m     == CHOOSE x \in ends : \A y \in ends : x <= y
        taken == IF ends = {} THEN Len(avail)
                 ELSE IF avail[m] = "eof" /\ n[p] - (m - 1) < target[p]
                      THEN m - 1    \* "Save ^D for next time"
                      ELSE m
        back  == ends # {} \/ doomed[p]
    IN  /\ at[p] = "read"
        /\ r' = (r + taken) % Wrap
        /\ at' = [at EXCEPT ![p] = IF back THEN "user" ELSE "sleep"]
        /\ n' = [n EXCEPT ![p] = IF back THEN 0 ELSE @ - taken]
        /\ target' = [target EXCEPT ![p] = IF back THEN 0 ELSE @]
        /\ UNCHANGED <<buf, w, e, doomed>>

\* kill() makes a sleeper RUNNABLE.
KillReader(p) ==
    /\ ~doomed[p]
    /\ doomed' = [doomed EXCEPT ![p] = TRUE]
    /\ at' = [at EXCEPT ![p] = IF @ = "sleep" THEN "read" ELSE @]
    /\ UNCHANGED <<input, n, target>>

\* A killed process exits on its way to user space; another takes its place.
ExitReader(p) ==
    /\ at[p] = "user" /\ doomed[p]
    /\ doomed' = [doomed EXCEPT ![p] = FALSE]
    /\ UNCHANGED <<input, at, n, target>>

Init ==
    /\ buf = [i \in 0 .. INPUT_BUF - 1 |-> "a"] /\ r = 0 /\ w = 0 /\ e = 0
    /\ at = [p \in Readers |-> "user"]
    /\ n = [p \in Readers |-> 0] /\ target = [p \in Readers |-> 0]
    /\ doomed = [p \in Readers |-> FALSE]

Next ==
    \/ \E c \in Chars : Key(c)
    \/ Backspace
    \/ KillLine
    \/ \E p \in Readers : \/ \E size \in Sizes : ConsoleRead(p, size)
                          \/ ReadLoop(p) \/ KillReader(p) \/ ExitReader(p)

Spec == Init /\ [][Next]_vars

-----------------------------------------------------------------------------
\* Type correctness of the ring and of the readers.
TypeOK ==
    /\ buf \in [0 .. INPUT_BUF - 1 -> Chars] /\ {r, w, e} \subseteq 0 .. Wrap - 1
    /\ at \in [Readers -> {"user", "read", "sleep"}] /\ doomed \in [Readers -> BOOLEAN]
    /\ n \in [Readers -> Nat] /\ target \in [Readers -> Nat]

Lines == INSTANCE LineInput WITH
    Enders <- {"nl", "eof"}, Capacity <- INPUT_BUF,
    ready <- Between(r, w), line <- Between(w, e)

\* The ring with its three wrapping indices is an edited line behind completed
\* ones: erasing never reaches a completed line, a full ring becomes readable,
\* and nothing is overwritten before a reader took it.
ConsoleIsLineInput == Lines!Spec

\* A reader sleeps only while nothing is readable, also when a killed reader or
\* a short read left a part of a line; and a ring that accepts no more keys
\* always has something to read, so that it can be emptied.
ReadersAwake ==
    /\ \A p \in Readers : at[p] = "sleep" => r = w
    /\ r = w => (e - r) % Wrap < INPUT_BUF
=============================================================================
