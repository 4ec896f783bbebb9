------------------------------ MODULE MCStorage -----------------------------
(***************************************************************************)
(* Inodes, Memory and the log's reservation of space for TLC.  A behaviour *)
(* plays in one scene, chosen at the start, and the other components rest. *)
(***************************************************************************)
EXTENDS Log

VARIABLES
    scene,
    dtype, dnlink, dir, rootlock, inum, ref, valid, nlink, lock,
    iat, dput, ip, put, then, new, opened,
    free, space, sz, draft, kstack, mat, goal, mem, child, lost

Ino == INSTANCE Inodes WITH
    Procs <- {1, 2}, Inums <- {1, 2}, Names <- {1, 2}, NINODE <- 2, at <- iat
Mem == INSTANCE Memory WITH
    Slots <- {1, 2, 3}, First <- 1, NFRAMES <- 14, MaxPages <- 3, PerTable <- 2, at <- mat

inoVars == <<dtype, dnlink, dir, rootlock, inum, ref, valid, nlink, lock,
             iat, dput, ip, put, then, new, opened>>
memVars == <<free, space, sz, draft, kstack, mat, goal, mem, child, lost>>
allVars == <<scene, vars, inoVars, memVars>>

MCInit == Init /\ Ino!Init /\ Mem!Init /\ scene \in {"inodes", "memory", "log"}

MCNext ==
    /\ UNCHANGED scene
    /\ \/ scene = "inodes" /\ Ino!Next /\ UNCHANGED <<vars, memVars>>
       \/ scene = "memory" /\ Mem!Next /\ UNCHANGED <<vars, inoVars>>
       \/ scene = "log" /\ Next /\ UNCHANGED <<inoVars, memVars>>

MCSpec == MCInit /\ [][MCNext]_allVars

\* Type correctness of the three components.
TypesOK == TypeOK /\ Ino!TypeOK /\ Mem!TypeOK

\* Names and open files refer to allocated inodes (Inodes).
ReferencedIsAllocated == Ino!ReferencedIsAllocated

\* Link counts agree with the directory, the cache with the disk (Inodes).
LinksExact == Ino!LinksExact

\* A wait for the sleep lock of an inode ends, but in the one circle (Inodes).
LocksEnd == Ino!LocksEnd

\* No page is lost or freed twice, and sizes agree with mappings (Memory).
PagesAccounted == Mem!PagesAccounted
=============================================================================
