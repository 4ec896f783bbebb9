------------------------------- MODULE MCProc -------------------------------
(***************************************************************************)
(* Proc for TLC on several CPUs.  A behaviour plays in one scene, chosen   *)
(* at the start: families of processes that only fork, exit and wait       *)
(* ("family"), or few processes that make every call ("calls").            *)
(***************************************************************************)
EXTENDS Proc

CONSTANT CallsMaxPid   \* bound on the pids of the scene "calls"

VARIABLE scene

Family == INSTANCE Proc WITH Calls <- {"fork", "exit", "wait"}, TickMod <- 1
Every  == INSTANCE Proc WITH MaxPid <- CallsMaxPid

MCInit == Init /\ scene \in {"family", "calls"}

MCNext ==
    \/ scene = "calls" /\ Every!Next /\ UNCHANGED scene
    \/ scene = "family" /\ Family!Next /\ UNCHANGED scene

MCSpec == MCInit /\ [][MCNext]_<<vars, scene>>
=============================================================================
