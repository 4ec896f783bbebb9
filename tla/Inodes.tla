------------------------------ MODULE Inodes --------------------------------
(***************************************************************************)
(* The inode cache against the calls that make, find, link and unlink      *)
(* files: ialloc, iget, ilock, iunlock, iput, dirlookup and dirlink of     *)
(* xv6/fs.c under open, close, link and unlink of xv6/sysfile.c.           *)
(*                                                                         *)
(* Files live in one directory, the root, which is always referenced; its  *)
(* sleep lock is rootlock.  A section under a sleep lock that touches only *)
(* what the lock protects is one action; acquiring a sleep lock, and every *)
(* use of icache.lock, can fall between the steps of another process.  The *)
(* disk here is what the calls see through the cache and the log, so a     *)
(* crash is Log's concern.  A panic stops its process.                     *)
(***************************************************************************)
EXTENDS Integers, FiniteSets

CONSTANTS
    Procs,
    Inums,    \* inodes on the disk other than the root's
    Names,    \* names in the directory
    NINODE    \* entries of the cache

Entries == 1 .. NINODE
None    == 0               \* no process, no inode, no entry

VARIABLES
    dtype, dnlink,                   \* on disk: type # 0, nlink
    dir, rootlock,                   \* the directory
    inum, ref, valid, nlink, lock,   \* the fields of a cached inode
    at,                              \* where a process is
    dput,                            \* processes with an iput(dp) still to do
    ip,                              \* the entry its call works on
    put, then,                       \* the entry iput drops, and what follows
    new,                             \* the inode ialloc found, the name to link
    opened                           \* the entry of its open file

disk  == <<dtype, dnlink>>
cache == <<inum, ref, valid, nlink, lock>>
vars  == <<disk, dir, rootlock, cache, at, dput, ip, put, then, new, opened>>

Set(f, x, v) == [f EXCEPT ![x] = v]
Lowest(S)    == CHOOSE x \in S : \A y \in S : x <= y
Goto(p, l)   == at' = Set(at, p, l)

\* The process is at l, and not in an iput(dp) before it.
At(p, l) == at[p] = l /\ p \notin dput

-----------------------------------------------------------------------------
InUse(i) == {e \in Entries : ref[e] > 0 /\ inum[e] = i}
Empty    == {e \in Entries : ref[e] = 0}

\* The entry iget returns for inode i.
Found(i) == IF InUse(i) # {} THEN Lowest(InUse(i)) ELSE Lowest(Empty)

\* Mutant: a recycled entry keeps what it knew of another inode.
RecycledStale(e) == valid

\* ip->valid = 0 in a recycled entry
Recycled(e) == Set(valid, e, FALSE)

\* iget(dev, i); the caller's entry is Found(i).  A cache as large as Inums is
\* never full, so the panic "iget: no inodes" is out of reach here.
Iget(i) ==
    /\ InUse(i) # {} \/ Empty # {}
    /\ ref' = [ref EXCEPT ![Found(i)] = @ + 1]
    /\ inum' = Set(inum, Found(i), i)
    /\ valid' = IF InUse(i) = {} THEN Recycled(Found(i)) ELSE valid
    /\ UNCHANGED <<nlink, lock>>

\* What ilock finds in e, reading it from the disk if need be.
LinksSeen(e) == IF valid[e] THEN nlink[e] ELSE dnlink[inum[e]]
NoType(e)    == ~valid[e] /\ ~dtype[inum[e]]

\* The inode read by ilock(e) with ip->nlink = n, and iupdate.
SetLinks(e, n) ==
    /\ valid' = Set(valid, e, TRUE)
    /\ nlink' = Set(nlink, e, n)
    /\ dnlink' = Set(dnlink, inum[e], n)
    /\ UNCHANGED <<inum, ref, dtype>>

\* Mutant: the call returns with the lock.
KeepsLock(e) == lock

\* iunlock(e)
Unlocked(e) == Set(lock, e, None)

\* The process goes on with iput(e) and then at l.
GoPut(p, e, l) == put' = Set(put, p, e) /\ then' = Set(then, p, l) /\ Goto(p, "iput")

\* iunlockput(dp) has dropped the directory's lock; the iput in it takes the
\* lock again before the call goes on at l.
GoDirPut(p, l) == dput' = dput \cup {p} /\ Goto(p, l)

-----------------------------------------------------------------------------
\* The iput(dp) of iunlockput(dp): it takes the directory's lock, finds that the
\* directory has links and releases it.
DirPut(p) ==
    /\ p \in dput /\ rootlock = None
    /\ dput' = dput \ {p}
    /\ UNCHANGED <<disk, dir, rootlock, cache, at, ip, put, then, new, opened>>

\* namei, or the case of create that finds the name: ilock(dp), dirlookup,
\* iunlock(dp).
Open(p, n) ==
    /\ At(p, "user") /\ opened[p] = None /\ rootlock = None /\ dir[n] # None
    /\ Iget(dir[n])
    /\ ip' = Set(ip, p, Found(dir[n]))
    /\ GoDirPut(p, "open")
    /\ UNCHANGED <<disk, dir, rootlock, put, then, new, opened>>

\* The ilock of sys_open or create; the call keeps the lock.
OpenIlock(p) ==
    LET e == ip[p]
    IN  /\ At(p, "open") /\ lock[e] = None
        /\ lock' = Set(lock, e, p)
        /\ valid' = Set(valid, e, TRUE)
        /\ nlink' = Set(nlink, e, LinksSeen(e))
        /\ Goto(p, IF NoType(e) THEN "panic" ELSE "open_locked")
        /\ UNCHANGED <<disk, dir, rootlock, inum, ref, dput, ip, put, then, new, opened>>

\* sys_open returns a descriptor, or has none and puts the inode.
OpenDone(p) ==
    LET e == ip[p]
    IN  /\ At(p, "open_locked")
        /\ lock' = Unlocked(e)
        /\ ip' = Set(ip, p, None)
        /\ \/ opened' = Set(opened, p, e) /\ Goto(p, "user") /\ UNCHANGED <<put, then>>
           \/ GoPut(p, e, "user") /\ UNCHANGED opened
        /\ UNCHANGED <<disk, dir, rootlock, inum, ref, valid, nlink, dput, new>>

\* create does not find the name: ialloc marks a free inode.
Create(p, n) ==
    LET free == {i \in Inums : ~dtype[i]}
    IN  /\ At(p, "user") /\ opened[p] = None /\ rootlock = None
        /\ dir[n] = None /\ free # {}
        /\ rootlock' = p
        /\ dtype' = Set(dtype, Lowest(free), TRUE)
        /\ dnlink' = Set(dnlink, Lowest(free), 0)
        /\ new' = Set(new, p, [inum |-> Lowest(free), name |-> n])
        /\ Goto(p, "ialloc")
        /\ UNCHANGED <<dir, cache, dput, ip, put, then, opened>>

\* The iget of ialloc.
IallocIget(p) ==
    /\ At(p, "ialloc")
    /\ Iget(new[p].inum)
    /\ ip' = Set(ip, p, Found(new[p].inum))
    /\ Goto(p, "create")
    /\ UNCHANGED <<disk, dir, rootlock, dput, put, then, new, opened>>

\* The ilock of the new inode, dirlink and the unlock of the directory; create
\* keeps the new inode's lock from here until it returns.
CreateLink(p) ==
    LET e == ip[p]
    IN  /\ At(p, "create") /\ lock[e] = None
        /\ IF NoType(e)
           THEN Goto(p, "panic") /\ UNCHANGED <<disk, cache, dir, rootlock, dput, new>>
           ELSE /\ SetLinks(e, 1)
                /\ lock' = Set(lock, e, p)
                /\ dir' = Set(dir, new[p].name, inum[e])
                /\ rootlock' = None
                /\ new' = Set(new, p, [inum |-> None, name |-> None])
                /\ GoDirPut(p, "open_locked")
        /\ UNCHANGED <<ip, put, then, opened>>

\* The last fileclose of an inode's file.
Close(p) ==
    /\ At(p, "user") /\ opened[p] # None
    /\ opened' = Set(opened, p, None)
    /\ GoPut(p, opened[p], "user")
    /\ UNCHANGED <<disk, dir, rootlock, cache, dput, ip, new>>

\* sys_unlink up to the ilock of the file.
Unlink(p, n) ==
    /\ At(p, "user") /\ rootlock = None /\ dir[n] # None
    /\ rootlock' = p
    /\ Iget(dir[n])
    /\ ip' = Set(ip, p, Found(dir[n]))
    /\ new' = Set(new, p, [inum |-> None, name |-> n])
    /\ Goto(p, "unlink")
    /\ UNCHANGED <<disk, dir, dput, put, then, opened>>

\* The ilock of the file, the name removed and the directory unlocked; unlink
\* keeps the file's lock until it has counted.
UnlinkName(p) ==
    LET e == ip[p]
    IN  /\ At(p, "unlink") /\ lock[e] = None
        /\ IF NoType(e) \/ LinksSeen(e) < 1
           THEN Goto(p, "panic") /\ UNCHANGED <<disk, cache, dir, rootlock, dput, new>>
           ELSE /\ SetLinks(e, LinksSeen(e))
                /\ lock' = Set(lock, e, p)
                /\ dir' = Set(dir, new[p].name, None)
                /\ rootlock' = None
                /\ new' = Set(new, p, [inum |-> None, name |-> None])
                /\ GoDirPut(p, "unlink_count")
        /\ UNCHANGED <<ip, put, then, opened>>

\* ip->nlink--, iupdate and iunlock, up to the iput of the file.
UnlinkCount(p) ==
    LET e == ip[p]
    IN  /\ At(p, "unlink_count")
        /\ SetLinks(e, nlink[e] - 1)
        /\ lock' = Unlocked(e)
        /\ ip' = Set(ip, p, None)
        /\ GoPut(p, e, "user")
        /\ UNCHANGED <<dir, rootlock, dput, new, opened>>

\* sys_link has found the old name.
Link(p, n, m) ==
    /\ At(p, "user") /\ rootlock = None /\ dir[n] # None
    /\ Iget(dir[n])
    /\ ip' = Set(ip, p, Found(dir[n]))
    /\ new' = Set(new, p, [inum |-> None, name |-> m])
    /\ GoDirPut(p, "link")
    /\ UNCHANGED <<disk, dir, rootlock, put, then, opened>>

\* ip->nlink++ of sys_link, and ip->nlink-- of its error path.
LinkCount(p) ==
    LET e == ip[p]
        up == at[p] = "link"
    IN  /\ (At(p, "link") \/ At(p, "link_bad")) /\ lock[e] = None
        /\ IF NoType(e)
           THEN Goto(p, "panic") /\ UNCHANGED <<disk, cache, ip, put, then>>
           ELSE /\ SetLinks(e, LinksSeen(e) + IF up THEN 1 ELSE -1) /\ UNCHANGED lock
                /\ IF up THEN Goto(p, "link_dir") /\ UNCHANGED <<ip, put, then>>
                   ELSE GoPut(p, e, "user") /\ ip' = Set(ip, p, None)
        /\ new' = IF up THEN new ELSE Set(new, p, [inum |-> None, name |-> None])
        /\ UNCHANGED <<dir, rootlock, dput, opened>>

\* dirlink of sys_link, and the puts of the directory and of the file.  When the
\* new name exists dirlink puts the inode found, with the directory locked.
LinkDir(p) ==
    LET m == new[p].name
    IN  /\ At(p, "link_dir") /\ rootlock = None
        /\ IF dir[m] = None
           THEN /\ dir' = Set(dir, m, inum[ip[p]])
                /\ GoPut(p, ip[p], "user") /\ dput' = dput \cup {p}
                /\ ip' = Set(ip, p, None)
                /\ new' = Set(new, p, [inum |-> None, name |-> None])
                /\ UNCHANGED <<cache, rootlock>>
           ELSE /\ rootlock' = p
                /\ Iget(dir[m])
                /\ GoPut(p, Found(dir[m]), "link_bad")
                /\ UNCHANGED <<dir, dput, ip, new>>
        /\ UNCHANGED <<disk, opened>>

-----------------------------------------------------------------------------
\* Mutant: the file is freed whoever else refers to it.
MayFreeShared(e) == valid[e] /\ nlink[e] = 0

\* No links and no other references.
MayFree(e) == valid[e] /\ nlink[e] = 0 /\ ref[e] = 1

\* iput takes the lock and decides.
Iput(p) ==
    LET e == put[p]
    IN  /\ At(p, "iput") /\ lock[e] = None
        /\ IF MayFree(e) THEN lock' = Set(lock, e, p) /\ Goto(p, "itrunc")
           ELSE Goto(p, "iput_ref") /\ UNCHANGED lock
        /\ UNCHANGED <<disk, dir, rootlock, inum, ref, valid, nlink, dput, ip, put, then, new, opened>>

\* itrunc, ip->type = 0, iupdate: from now on ialloc may take the inode.
Itrunc(p) ==
    /\ At(p, "itrunc")
    /\ dtype' = Set(dtype, inum[put[p]], FALSE)
    /\ Goto(p, "iput_free")
    /\ UNCHANGED <<dnlink, dir, rootlock, cache, dput, ip, put, then, new, opened>>

\* ip->valid = 0
Freed(e) == Set(valid, e, FALSE)

IputUnlock(p) ==
    LET e == put[p]
    IN  /\ At(p, "iput_free")
        /\ valid' = Freed(e)
        /\ lock' = Unlocked(e)
        /\ Goto(p, "iput_ref")
        /\ UNCHANGED <<disk, dir, rootlock, inum, ref, nlink, dput, ip, put, then, new, opened>>

\* ip->ref--, and the end of the call, or of the dirlink that fails: sys_link
\* goes on with iunlockput(dp).
IputRef(p) ==
    LET e == put[p]
    IN  /\ At(p, "iput_ref")
        /\ ref' = [ref EXCEPT ![e] = @ - 1]
        /\ put' = Set(put, p, None) /\ then' = Set(then, p, "user")
        /\ IF rootlock = p THEN rootlock' = None /\ GoDirPut(p, then[p])
           ELSE Goto(p, then[p]) /\ UNCHANGED <<rootlock, dput>>
        /\ UNCHANGED <<disk, dir, inum, valid, nlink, lock, ip, new, opened>>

-----------------------------------------------------------------------------
Init ==
    /\ dtype = [i \in Inums |-> FALSE] /\ dnlink = [i \in Inums |-> 0]
    /\ dir = [n \in Names |-> None] /\ rootlock = None
    /\ inum = [e \in Entries |-> None] /\ ref = [e \in Entries |-> 0]
    /\ valid = [e \in Entries |-> FALSE] /\ nlink = [e \in Entries |-> 0]
    /\ lock = [e \in Entries |-> None]
    /\ at = [p \in Procs |-> "user"] /\ dput = {} /\ ip = [p \in Procs |-> None]
    /\ put = [p \in Procs |-> None] /\ then = [p \in Procs |-> "user"]
    /\ new = [p \in Procs |-> [inum |-> None, name |-> None]]
    /\ opened = [p \in Procs |-> None]

Step(p) ==
    \/ \E n \in Names : Open(p, n) \/ Create(p, n) \/ Unlink(p, n)
    \/ \E n, m \in Names : Link(p, n, m)
    \/ OpenIlock(p) \/ OpenDone(p) \/ IallocIget(p) \/ CreateLink(p) \/ Close(p)
    \/ UnlinkName(p) \/ UnlinkCount(p) \/ LinkCount(p) \/ LinkDir(p) \/ DirPut(p)
    \/ Iput(p) \/ Itrunc(p) \/ IputUnlock(p) \/ IputRef(p)

Next == \E p \in Procs : Step(p)

Spec == Init /\ [][Next]_vars

-----------------------------------------------------------------------------
\* Type correctness of the disk, the cache and the calls.
TypeOK ==
    /\ dtype \in [Inums -> BOOLEAN] /\ dnlink \in [Inums -> Nat]
    /\ dir \in [Names -> Inums \cup {None}] /\ rootlock \in Procs \cup {None}
    /\ inum \in [Entries -> Inums \cup {None}] /\ ref \in [Entries -> Nat]
    /\ valid \in [Entries -> BOOLEAN] /\ nlink \in [Entries -> Nat]
    /\ lock \in [Entries -> Procs \cup {None}] /\ dput \subseteq Procs
    /\ \A f \in {ip, put, opened} : f \in [Procs -> Entries \cup {None}]

Pointers(e) == UNION {{<<p, "call">> : p \in {q \in Procs : ip[q] = e}},
                   {<<p, "iput">> : p \in {q \in Procs : put[q] = e}},
                   {<<p, "file">> : p \in {q \in Procs : opened[q] = e}}}

\* What is referred to is there: an entry has one reference for each pointer to
\* it, an inode has one entry, a name or an open file never names an inode that
\* iput has freed, and no call panics on one, although iput looks at the
\* reference count before it frees and drops its own only afterwards.
ReferencedIsAllocated ==
    /\ \A e \in Entries : ref[e] = Cardinality(Pointers(e))
    /\ \A i \in Inums : Cardinality(InUse(i)) <= 1
    /\ \A n \in Names : dir[n] # None => dtype[dir[n]]
    /\ \A p \in Procs : opened[p] # None => dtype[inum[opened[p]]]
    /\ \A p \in Procs : at[p] # "panic"

\* The calls between their change of the count and their change of the name.
Counting(i) == {p \in Procs : \/ at[p] \in {"link_dir", "link_bad", "unlink_count"} /\ inum[ip[p]] = i
                              \/ then[p] = "link_bad" /\ inum[ip[p]] = i}

\* The link count on disk is the number of names, and one more for each link or
\* unlink that is between the count and the name, with the directory unlocked; a
\* cached inode that is valid and not locked agrees with the disk, also after
\* its entry or its number was used again.
LinksExact ==
    /\ \A i \in Inums : dtype[i] =>
          dnlink[i] = Cardinality({n \in Names : dir[n] = i}) + Cardinality(Counting(i))
    /\ \A e \in Entries : ref[e] > 0 /\ valid[e] /\ lock[e] = None =>
          dtype[inum[e]] /\ nlink[e] = dnlink[inum[e]]

\* "iput() frees if the reference and link counts have fallen to zero": an
\* allocated inode has a link or a reference, or a create is about to refer
\* to it.
NoInodeLost ==
    \A i \in Inums :
        dtype[i] => dnlink[i] > 0 \/ InUse(i) # {} \/ \E p \in Procs : new[p].inum = i

\* The process whose lock p waits for, if any.
Needs(p) ==
    CASE p \in dput \/ at[p] = "link_dir" -> rootlock
      [] \E l \in {"open", "create", "unlink", "link", "link_bad"} : At(p, l) -> lock[ip[p]]
      [] At(p, "iput") -> lock[put[p]]
      [] OTHER -> None
Releases(p) == at[p] # "user" /\ Needs(p) = None

\* Two processes that wait for each other: q has the directory and needs a
\* file, and p has the file and needs the directory, to put it.
Circle == \E p, q \in Procs : p \in dput /\ rootlock = q /\ Needs(q) = p

\* "another concurrent link/unlink/create test, to look for deadlocks": no two
\* calls wait for each other.
NoCircle == ~Circle

\* Except in that circle nobody waits for ever: a process that needs a lock finds
\* it free, or its holder, or who that one waits for, or who that one waits for
\* in its turn, is in a call that goes on and gives its lock back.
LocksEnd ==
    \/ Circle
    \/ \A p \in Procs :
          LET h1 == Needs(p)  h2 == Needs(h1)  h3 == Needs(h2)
          IN  h1 # None => \/ Releases(h1)
                           \/ h2 # None /\ (Releases(h2) \/ (h3 # None /\ Releases(h3)))
=============================================================================
