------------------------------ MODULE MCStreams -----------------------------
(***************************************************************************)
(* Files and Console for TLC.  A behaviour plays in one scene, chosen at   *)
(* the start: processes that share files and pipes but do not read or      *)
(* write ("table"), processes at the two ends of a pipe ("ring"), or the   *)
(* console's readers ("console").                                          *)
(***************************************************************************)
EXTENDS Files

VARIABLES scene, buf, r, w, e, at, n, target, doomed

MCWrites == {<<0, 1, 0>>}

Table == INSTANCE Files WITH Calls <- Calls \ {"read", "write"}
Ring  == INSTANCE Files WITH Calls <- Calls \ {"open", "dup"}
Con   == INSTANCE Console WITH Readers <- {1, 2}, INPUT_BUF <- 2, Wrap <- 4, Sizes <- {1, 2}

conVars == <<buf, r, w, e, at, n, target, doomed>>
allVars == <<scene, vars, conVars>>

MCInit == Init /\ Con!Init /\ scene \in {"table", "ring", "console"}

MCNext ==
    /\ UNCHANGED scene
    /\ \/ scene = "table" /\ Table!Next /\ UNCHANGED conVars
       \/ scene = "ring" /\ Ring!Next /\ UNCHANGED conVars
       \/ scene = "console" /\ Con!Next /\ UNCHANGED vars

\* A call that is not asleep runs on, as in FairSpec of Files.
RingStep(p) == scene = "ring" /\ Ring!KernelStep(p) /\ UNCHANGED <<scene, conVars>>

MCSpec == MCInit /\ [][MCNext]_allVars /\ \A p \in Procs : WF_allVars(RingStep(p))

\* Type correctness of the file table, the pipes and the console's ring.
TypesOK == TypeOK /\ Con!TypeOK

\* The console's ring is an edited line behind completed ones (Console).
ConsoleIsLineInput == Con!ConsoleIsLineInput

\* No reader of the console misses a completed line (Console).
ReadersAwake == Con!ReadersAwake
=============================================================================
