---------------------------- MODULE MCUThreadAny ----------------------------
(***************************************************************************)
(* UThread for TLC with ticks inside the scheduler.  A behaviour plays in  *)
(* one scene, chosen at the start: ticks only at the edges of the          *)
(* scheduler ("edge"), or at every instruction ("all").                    *)
(***************************************************************************)
EXTENDS MCUThread

CONSTANT EdgeTicksMax   \* bound on the ticks of the scene "edge"

VARIABLE scene

Edge == INSTANCE UThread WITH TickPoints <- EdgeTicks, MaxTicks <- EdgeTicksMax

AnyInit == Init /\ scene \in {"edge", "all"}

AnyNext ==
    /\ UNCHANGED scene
    /\ \/ scene = "edge" /\ Edge!Next
       \/ scene = "all" /\ Next

AnySpec == AnyInit /\ [][AnyNext]_<<vars, scene>>

\* Ticks that hit thread_schedule before it has chosen a thread, or after
\* thread_switch has restored one, and ticks between the comparison and the
\* branch of mythread's loop, damage no thread's context: the running thread
\* is the current one on its own stack, the saved pointers are on their own
\* stacks, no thread comes back from thread_exit, and only a full stack leads
\* to undefined behaviour.
EdgeTicksSafe ==
    scene = "edge" =>
        CurrentOwnsCpu /\ SavedOnOwnStack /\ ThreadExitIsFinal /\ WildOnlyByOverflow
=============================================================================
