----------------------------- MODULE MCUThread -----------------------------
(* Instances of UThread: where the timer interrupts may arrive.            *)
EXTENDS UThread

SafeTicks == SafePoints
EdgeTicks == UserPoints \cup EdgePoints
AllTicks  == Labels
=============================================================================
