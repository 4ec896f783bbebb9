----------------------------- MODULE LineInput ------------------------------
(***************************************************************************)
(* What the console promises to its readers: a line that is edited while   *)
(* it is typed, and completed lines that are only ever taken from the      *)
(* front.  Typed characters wait for room; completed ones stay.            *)
(***************************************************************************)
EXTENDS Naturals, Sequences

CONSTANTS Chars, Enders, Capacity   \* Enders complete a line

VARIABLES ready, line               \* completed and unread; being edited

vars == <<ready, line>>

Init == ready = <<>> /\ line = <<>>

Type ==
    /\ Len(ready) + Len(line) < Capacity
    /\ \E c \in Chars :
          IF c \in Enders \/ Len(ready) + Len(line) + 1 = Capacity
          THEN ready' = ready \o Append(line, c) /\ line' = <<>>
          ELSE line' = Append(line, c) /\ UNCHANGED ready

Erase ==
    /\ line # <<>>
    /\ line' \in {SubSeq(line, 1, Len(line) - 1), <<>>}
    /\ UNCHANGED ready

Take ==
    /\ \E n \in 1 .. Len(ready) : ready' = SubSeq(ready, n + 1, Len(ready))
    /\ UNCHANGED line

Next == Type \/ Erase \/ Take

Spec == Init /\ [][Next]_vars
=============================================================================
