----------------------------- MODULE BlockStore -----------------------------
(***************************************************************************)
(* What the buffer cache promises to the file system: a block has one      *)
(* content, whether it is cached or not, and one user at a time.           *)
(***************************************************************************)
CONSTANTS Users, Blocks, Values, Nobody

VARIABLES content, user

vars == <<content, user>>

Init == content \in [Blocks -> Values] /\ user = [k \in Blocks |-> Nobody]

Bread(p, k) == user[k] = Nobody /\ user' = [user EXCEPT ![k] = p] /\ UNCHANGED content

Change(p, k, v) == user[k] = p /\ content' = [content EXCEPT ![k] = v] /\ UNCHANGED user

Brelse(p, k) == user[k] = p /\ user' = [user EXCEPT ![k] = Nobody] /\ UNCHANGED content

Next == \E p \in Users, k \in Blocks :
            Bread(p, k) \/ Brelse(p, k) \/ \E v \in Values : Change(p, k, v)

Spec == Init /\ [][Next]_vars
=============================================================================
