------------------------------- MODULE Files --------------------------------
(***************************************************************************)
(* Open files and pipes: xv6/file.c, xv6/pipe.c, the descriptor calls of   *)
(* xv6/sysfile.c, and what fork and exit do to descriptors.                *)
(*                                                                         *)
(* A critical section under ftable.lock or a pipe's lock is one action.    *)
(* fileclose drops the table lock before it closes the pipe or puts the    *)
(* inode, so its second half is an action of its own, and what it copied   *)
(* from the file waits in ff.  held are the files a call has in its local  *)
(* variables.  An inode is a count of references; a read or write of one   *)
(* is in Inodes.  A panic of filedup or fileclose would need a file with a *)
(* holder and no reference, which RefsExact excludes.                      *)
(***************************************************************************)
EXTENDS Integers, Sequences, FiniteSets

CONSTANTS
    Procs,     \* process slots
    InitProc,  \* the process that runs first and never exits
    NFILE,     \* files in ftable
    NOFILE,    \* descriptors of a process
    Pages,     \* physical pages a pipe may get
    PIPESIZE,
    Wrap,      \* 2^w for the w-bit counters nread and nwrite
    Bytes,
    Writes,    \* the byte sequences passed to write
    Reads,     \* the sizes passed to read
    Calls      \* the system calls the processes make

ASSUME FilesAssumption ==
    /\ InitProc \in Procs /\ IsFiniteSet(Procs) /\ NFILE \in Nat /\ NOFILE \in Nat
    /\ PIPESIZE \in Nat \ {0} /\ Wrap \in Nat /\ Wrap > PIPESIZE /\ Wrap % PIPESIZE = 0
    /\ Bytes # {} /\ Writes \subseteq Seq(Bytes) \ {<<>>} /\ Reads \subseteq Nat \ {0}
    /\ 0 \notin Procs /\ 0 \notin Pages

FileIds == 1 .. NFILE
Fds     == 1 .. NOFILE
None    == 0                  \* no file, no page, no process

VARIABLES
    ref, type, writable, page,                  \* the fields of a struct file
    ofile,                                      \* p->ofile
    pages,                                      \* pages in use as pipes
    data, nread, nwrite, readopen, writeopen,   \* the fields of a struct pipe
    iref,                                       \* references to inodes
    pc,                                         \* where a process is
    on,                                         \* the pipe it reads or writes
    todo,                                       \* what it still has to write
    held, ff,                                   \* files to close, a file half closed
    child,                                      \* the process a fork is making
    killed

ftable == <<ref, type, writable, page>>
pipe   == <<pages, data, nread, nwrite, readopen, writeopen>>
io     == <<on, todo>>
closes == <<held, ff>>
vars   == <<ftable, ofile, pipe, iref, pc, io, closes, child, killed>>

First(S)    == CHOOSE x \in S : \A y \in S : x <= y
Smaller(x, y) == IF x < y THEN x ELSE y
NoFile      == [type |-> "NONE", writable |-> FALSE, page |-> None]
InodeFile   == [type |-> "INODE", writable |-> FALSE, page |-> None]
Free        == {f \in FileIds : ref[f] = 0}
FreeFds(p)  == {fd \in Fds : ofile[p][fd] = None}
OpenFds(p)  == {fd \in Fds : ofile[p][fd] # None}
Calling(p)  == pc[p] = "user" /\ ~killed[p]
Goto(p, label) == pc' = [pc EXCEPT ![p] = label]

-----------------------------------------------------------------------------
(***************************************************************************)
(* The file table and the descriptors.                                     *)
(***************************************************************************)

\* sys_pipe calls pipealloc.
SysPipe(p) ==
    /\ Calling(p)
    /\ Goto(p, "pipealloc")
    /\ UNCHANGED <<ftable, ofile, pipe, iref, io, closes, child, killed>>

\* One of the two filealloc of pipealloc.
FileAlloc(p) ==
    /\ pc[p] = "pipealloc" /\ Len(held[p]) < 2
    /\ IF Free = {}
       THEN Goto(p, IF held[p] = <<>> THEN "user" ELSE "closing") /\ UNCHANGED <<ref, held>>
       ELSE /\ ref' = [ref EXCEPT ![First(Free)] = 1]
            /\ held' = [held EXCEPT ![p] = Append(@, First(Free))]
            /\ UNCHANGED pc
    /\ UNCHANGED <<type, writable, page, ofile, pipe, iref, io, ff, child, killed>>

\* kalloc fails: "goto bad".
PipeNoMemory(p) ==
    /\ pc[p] = "pipealloc" /\ Len(held[p]) = 2
    /\ Goto(p, "closing")
    /\ UNCHANGED <<ftable, ofile, pipe, iref, io, closes, child, killed>>

\* The rest of pipealloc, and sys_pipe up to its return or its fileclose.
PipeAlloc(p, g) ==
    LET rf == held[p][1]  wf == held[p][2]
        fd0 == First(FreeFds(p))  fd1 == First(FreeFds(p) \ {fd0})
    IN  /\ pc[p] = "pipealloc" /\ Len(held[p]) = 2 /\ g \notin pages
        /\ pages' = pages \cup {g}
        /\ readopen' = [readopen EXCEPT ![g] = TRUE]
        /\ writeopen' = [writeopen EXCEPT ![g] = TRUE]
        /\ nread' = [nread EXCEPT ![g] = 0]
        /\ nwrite' = [nwrite EXCEPT ![g] = 0]
        /\ type' = [type EXCEPT ![rf] = "PIPE", ![wf] = "PIPE"]
        /\ writable' = [writable EXCEPT ![rf] = FALSE, ![wf] = TRUE]
        /\ page' = [page EXCEPT ![rf] = g, ![wf] = g]
        /\ IF Cardinality(FreeFds(p)) >= 2
           THEN /\ ofile' = [ofile EXCEPT ![p][fd0] = rf, ![p][fd1] = wf]
                /\ held' = [held EXCEPT ![p] = <<>>]
                /\ Goto(p, "user")
           ELSE Goto(p, "closing") /\ UNCHANGED <<ofile, held>>
        /\ UNCHANGED <<ref, data, iref, io, ff, child, killed>>

\* sys_open has found or made its inode.
SysOpen(p) ==
    /\ Calling(p)
    /\ iref' = iref + 1
    /\ Goto(p, "open")
    /\ UNCHANGED <<ftable, ofile, pipe, io, closes, child, killed>>

\* filealloc and fdalloc of sys_open.  Without a file the inode is put at
\* once; without a descriptor the file is closed first.
OpenFile(p) ==
    LET f == First(Free)
    IN  /\ pc[p] = "open"
        /\ IF Free = {}
           THEN /\ ff' = [ff EXCEPT ![p] = InodeFile]
                /\ Goto(p, "closing")
                /\ UNCHANGED <<ref, type, ofile, held>>
           ELSE /\ ref' = [ref EXCEPT ![f] = 1]
                /\ IF FreeFds(p) = {}
                   THEN /\ held' = [held EXCEPT ![p] = <<f>>]
                        /\ Goto(p, "open_bad")
                        /\ UNCHANGED <<type, ofile>>
                   ELSE /\ type' = [type EXCEPT ![f] = "INODE"]
                        /\ ofile' = [ofile EXCEPT ![p][First(FreeFds(p))] = f]
                        /\ Goto(p, "user")
                        /\ UNCHANGED held
                /\ UNCHANGED ff
        /\ UNCHANGED <<writable, page, pipe, iref, io, child, killed>>

\* fdalloc and filedup.
SysDup(p, fd) ==
    /\ Calling(p) /\ ofile[p][fd] # None /\ FreeFds(p) # {}
    /\ ofile' = [ofile EXCEPT ![p][First(FreeFds(p))] = ofile[p][fd]]
    /\ ref' = [ref EXCEPT ![ofile[p][fd]] = @ + 1]
    /\ UNCHANGED <<type, writable, page, pipe, iref, pc, io, closes, child, killed>>

SysClose(p, fd) ==
    /\ Calling(p) /\ ofile[p][fd] # None
    /\ ofile' = [ofile EXCEPT ![p][fd] = None]
    /\ held' = [held EXCEPT ![p] = <<ofile[p][fd]>>]
    /\ Goto(p, "closing")
    /\ UNCHANGED <<ftable, pipe, iref, io, ff, child, killed>>

\* Where p goes on when h is left to close and c is half closed.
AfterClose(p, h, c) ==
    IF pc[p] = "exiting" THEN "exiting"
    ELSE IF h # <<>> \/ c # NoFile THEN "closing" ELSE "user"

Closed(p, h, c) ==
    /\ held' = [held EXCEPT ![p] = h]
    /\ ff' = [ff EXCEPT ![p] = c]
    /\ Goto(p, AfterClose(p, h, c))

\* Mutant: the file is closed although others still hold it.
LastRefAlways(f) == TRUE

\* --f->ref == 0
LastRef(f) == ref[f] = 1

\* fileclose of f up to the release of ftable.lock.  The other fields of a file
\* without a type are not read before they are set again.
PutFile(f) ==
    /\ ref' = [ref EXCEPT ![f] = @ - 1]
    /\ type' = [type EXCEPT ![f] = IF LastRef(f) THEN "NONE" ELSE @]
    /\ writable' = [writable EXCEPT ![f] = @ /\ ~LastRef(f)]
    /\ page' = [page EXCEPT ![f] = IF LastRef(f) THEN None ELSE @]

\* ff = *f, where there is something left to do with it.
Copy(f) ==
    IF LastRef(f) /\ type[f] # "NONE"
    THEN [type |-> type[f], writable |-> writable[f], page |-> page[f]]
    ELSE NoFile

\* A fileclose of sys_close, or of an error path of sys_pipe or sys_open; the
\* latter has its inode to put besides.
FileClose(p) ==
    LET f == Head(held[p])
    IN  /\ pc[p] \in {"closing", "open_bad"} /\ ff[p] = NoFile /\ held[p] # <<>>
        /\ PutFile(f)
        /\ Closed(p, Tail(held[p]), IF pc[p] = "open_bad" THEN InodeFile ELSE Copy(f))
        /\ UNCHANGED <<ofile, pipe, iref, io, child, killed>>

\* The iput of fileclose, or that of sys_open's error path.
FileIput(p) ==
    /\ ff[p].type = "INODE"
    /\ iref' = iref - 1
    /\ Closed(p, held[p], NoFile)
    /\ UNCHANGED <<ftable, ofile, pipe, io, child, killed>>

\* fork has its process from allocproc.
Fork(p, c) ==
    /\ Calling(p) /\ pc[c] = "dead"
    /\ child' = [child EXCEPT ![p] = c]
    /\ pc' = [pc EXCEPT ![p] = "fork", ![c] = "embryo"]
    /\ killed' = [killed EXCEPT ![c] = FALSE]
    /\ UNCHANGED <<ftable, ofile, pipe, iref, io, closes>>

ToDup(p) == {fd \in Fds : ofile[p][fd] # None /\ ofile[child[p]][fd] = None}

\* Mutant: the child shares the file without a reference of its own.
DupUncounted(f) == ref

\* f->ref++
Dup(f) == [ref EXCEPT ![f] = @ + 1]

\* One filedup of fork's loop.
ForkDup(p) ==
    LET fd == First(ToDup(p))
    IN  /\ pc[p] = "fork" /\ ToDup(p) # {}
        /\ ofile' = [ofile EXCEPT ![child[p]][fd] = ofile[p][fd]]
        /\ ref' = Dup(ofile[p][fd])
        /\ UNCHANGED <<type, writable, page, pipe, iref, pc, io, closes, child, killed>>

\* np->state = RUNNABLE
ForkRun(p) ==
    /\ pc[p] = "fork" /\ ToDup(p) = {}
    /\ pc' = [pc EXCEPT ![p] = "user", ![child[p]] = "user"]
    /\ child' = [child EXCEPT ![p] = None]
    /\ UNCHANGED <<ftable, ofile, pipe, iref, io, closes, killed>>

\* exit, called or forced by trap() on a killed process.
Exit(p) ==
    /\ pc[p] = "user" /\ p # InitProc
    /\ Goto(p, "exiting")
    /\ UNCHANGED <<ftable, ofile, pipe, iref, io, closes, child, killed>>

\* A turn of exit's loop: fileclose of the next descriptor, which nobody but p
\* can see and which is therefore cleared at once.
ExitClose(p) ==
    LET fd == First(OpenFds(p))
    IN  /\ pc[p] = "exiting" /\ ff[p] = NoFile /\ OpenFds(p) # {}
        /\ PutFile(ofile[p][fd])
        /\ ofile' = [ofile EXCEPT ![p][fd] = None]
        /\ ff' = [ff EXCEPT ![p] = Copy(ofile[p][fd])]
        /\ UNCHANGED <<pipe, iref, pc, io, held, child, killed>>

\* The loop is over; exit ends as a zombie.
ExitEnd(p) ==
    /\ pc[p] = "exiting" /\ ff[p] = NoFile /\ OpenFds(p) = {}
    /\ Goto(p, "dead")
    /\ UNCHANGED <<ftable, ofile, pipe, iref, io, closes, child, killed>>

\* kill() of a process that reads or writes; a sleeper becomes RUNNABLE.  At
\* any other point a kill only makes the process exit, as Exit lets it.
Kill(p) ==
    /\ on[p] # None /\ p # InitProc /\ ~killed[p]
    /\ killed' = [killed EXCEPT ![p] = TRUE]
    /\ Goto(p, CASE pc[p] = "rsleep" -> "piperead"
                 [] pc[p] = "wsleep" -> "pipewrite"
                 [] OTHER -> pc[p])
    /\ UNCHANGED <<ftable, ofile, pipe, iref, io, closes, child>>

-----------------------------------------------------------------------------
(***************************************************************************)
(* Pipes.                                                                  *)
(***************************************************************************)

\* Bytes in the pipe, and the bytes themselves, oldest first.
Count(g)  == (nwrite[g] - nread[g]) % Wrap
Unread(g) == [i \in 1 .. Count(g) |-> data[g][(nread[g] + i - 1) % PIPESIZE]]

\* wakeup(&p->nread) and wakeup(&p->nwrite) on the program counters at.
WakeReaders(g, at) ==
    [q \in Procs |-> IF at[q] = "rsleep" /\ on[q] = g THEN "piperead" ELSE at[q]]
WakeWriters(g, at) ==
    [q \in Procs |-> IF at[q] = "wsleep" /\ on[q] = g THEN "pipewrite" ELSE at[q]]

\* Mutant: the reader wakes nobody.
WakeNobody(g, at) == at

\* The wakeup at the end of piperead.
ReadWakes(g, at) == WakeWriters(g, at)

\* fileread of a pipe's read end.
SysRead(p, fd) ==
    LET f == ofile[p][fd]
    IN  /\ Calling(p) /\ f # None /\ type[f] = "PIPE" /\ ~writable[f]
        /\ on' = [on EXCEPT ![p] = page[f]]
        /\ Goto(p, "piperead")
        /\ UNCHANGED <<ftable, ofile, pipe, iref, todo, closes, child, killed>>

\* piperead finds an empty pipe with a writer.
PipeReadWait(p) ==
    LET g == on[p]
    IN  /\ pc[p] = "piperead" /\ nread[g] = nwrite[g] /\ writeopen[g]
        /\ Goto(p, IF killed[p] THEN "user" ELSE "rsleep")
        /\ on' = [on EXCEPT ![p] = IF killed[p] THEN None ELSE g]
        /\ UNCHANGED <<ftable, ofile, pipe, iref, todo, closes, child, killed>>

\* The loop of piperead ends: there is something, or there are no writers.
MayRead(g) == nread[g] # nwrite[g] \/ ~writeopen[g]

\* piperead copies up to n bytes.
PipeRead(p, n) ==
    LET g == on[p]
    IN  /\ pc[p] = "piperead" /\ MayRead(g)
        /\ nread' = [nread EXCEPT ![g] = (@ + Smaller(n, Count(g))) % Wrap]
        /\ pc' = ReadWakes(g, [pc EXCEPT ![p] = "user"])
        /\ on' = [on EXCEPT ![p] = None]
        /\ UNCHANGED <<ftable, ofile, pages, data, nwrite, readopen, writeopen, iref, todo,
                       closes, child, killed>>

\* filewrite of a pipe's write end.
SysWrite(p, fd, s) ==
    LET f == ofile[p][fd]
    IN  /\ Calling(p) /\ f # None /\ type[f] = "PIPE" /\ writable[f]
        /\ on' = [on EXCEPT ![p] = page[f]]
        /\ todo' = [todo EXCEPT ![p] = s]
        /\ Goto(p, "pipewrite")
        /\ UNCHANGED <<ftable, ofile, pipe, iref, closes, child, killed>>

\* Mutant: the ring is taken for one larger than it is.
RoomPlusOne(g) == PIPESIZE + 1 - Count(g)

\* Bytes that fit before nwrite == nread + PIPESIZE.
Room(g) == PIPESIZE - Count(g)

\* The bytes s go into the ring from nwrite on.
Stored(g, s) ==
    [i \in 0 .. PIPESIZE - 1 |->
        LET k == (i - nwrite[g]) % PIPESIZE IN IF k < Len(s) THEN s[k + 1] ELSE data[g][i]]

\* pipewrite from the acquire, or from the return of sleep, to its next sleep
\* or its return.  The early return wakes no reader.
PipeWrite(p) ==
    LET g == on[p]
        k == Smaller(Len(todo[p]), Room(g))
        done == k = Len(todo[p])
        fails == ~done /\ (~readopen[g] \/ killed[p])
    IN  /\ pc[p] = "pipewrite"
        /\ data' = [data EXCEPT ![g] = Stored(g, SubSeq(todo[p], 1, k))]
        /\ nwrite' = [nwrite EXCEPT ![g] = (@ + k) % Wrap]
        /\ pc' = IF fails THEN [pc EXCEPT ![p] = "user"]
                 ELSE WakeReaders(g, [pc EXCEPT ![p] = IF done THEN "user" ELSE "wsleep"])
        /\ on' = [on EXCEPT ![p] = IF done \/ fails THEN None ELSE g]
        /\ todo' = [todo EXCEPT ![p] =
                      IF done \/ fails THEN <<>> ELSE SubSeq(@, k + 1, Len(@))]
        /\ UNCHANGED <<ftable, ofile, pages, nread, readopen, writeopen, iref, closes, child, killed>>

\* Mutant: the end that was closed is woken, not the other one.
CloseWakesOwn(g, w, at) == IF w THEN WakeWriters(g, at) ELSE WakeReaders(g, at)

\* The wakeup of pipeclose, w says whether the write end is closed.
CloseWakes(g, w, at) == IF w THEN WakeReaders(g, at) ELSE WakeWriters(g, at)

Junk == [i \in 0 .. PIPESIZE - 1 |-> CHOOSE b \in Bytes : TRUE]

\* p->readopen == 0 && p->writeopen == 0
LastEnd(g) == ~readopen'[g] /\ ~writeopen'[g]

\* pipeclose; kfree fills the page with junk.
PipeClose(p) ==
    LET g == ff[p].page
    IN  /\ ff[p].type = "PIPE"
        /\ writeopen' = [writeopen EXCEPT ![g] = @ /\ ~ff[p].writable]
        /\ readopen' = [readopen EXCEPT ![g] = @ /\ ff[p].writable]
        /\ pc' = CloseWakes(g, ff[p].writable, [pc EXCEPT ![p] = AfterClose(p, held[p], NoFile)])
        /\ IF LastEnd(g)
           THEN /\ pages' = pages \ {g}
                /\ data' = [data EXCEPT ![g] = Junk]
                /\ nread' = [nread EXCEPT ![g] = 0] /\ nwrite' = [nwrite EXCEPT ![g] = 0]
           ELSE UNCHANGED <<pages, data, nread, nwrite>>
        /\ ff' = [ff EXCEPT ![p] = NoFile]
        /\ UNCHANGED <<ftable, ofile, iref, io, held, child, killed>>

-----------------------------------------------------------------------------
Init ==
    /\ ref = [f \in FileIds |-> 0]
    /\ type = [f \in FileIds |-> "NONE"]
    /\ writable = [f \in FileIds |-> FALSE]
    /\ page = [f \in FileIds |-> None]
    /\ ofile = [p \in Procs |-> [fd \in Fds |-> None]]
    /\ pages = {}
    /\ data = [g \in Pages |-> Junk]
    /\ nread = [g \in Pages |-> 0]
    /\ nwrite = [g \in Pages |-> 0]
    /\ readopen = [g \in Pages |-> FALSE]
    /\ writeopen = [g \in Pages |-> FALSE]
    /\ iref = 0
    /\ pc = [p \in Procs |-> IF p = InitProc THEN "user" ELSE "dead"]
    /\ on = [p \in Procs |-> None]
    /\ todo = [p \in Procs |-> <<>>]
    /\ held = [p \in Procs |-> <<>>]
    /\ ff = [p \in Procs |-> NoFile]
    /\ child = [p \in Procs |-> None]
    /\ killed = [p \in Procs |-> FALSE]

\* What user code may do next.
UserStep(p) ==
    \/ "pipe" \in Calls /\ SysPipe(p)
    \/ "open" \in Calls /\ SysOpen(p)
    \/ \E fd \in Fds : \/ "dup" \in Calls /\ SysDup(p, fd)
                       \/ "close" \in Calls /\ SysClose(p, fd)
                       \/ "read" \in Calls /\ SysRead(p, fd)
                       \/ \E s \in Writes : "write" \in Calls /\ SysWrite(p, fd, s)
    \/ \E c \in Procs : "fork" \in Calls /\ Fork(p, c)
    \/ Exit(p)

\* The rest of a call in progress.
KernelStep(p) ==
    \/ FileAlloc(p) \/ PipeNoMemory(p) \/ (\E g \in Pages : PipeAlloc(p, g))
    \/ OpenFile(p) \/ FileClose(p) \/ FileIput(p) \/ PipeClose(p)
    \/ ForkDup(p) \/ ForkRun(p) \/ ExitClose(p) \/ ExitEnd(p)
    \/ PipeReadWait(p) \/ (\E n \in Reads : PipeRead(p, n)) \/ PipeWrite(p)

Next == \E p \in Procs : UserStep(p) \/ KernelStep(p) \/ ("kill" \in Calls /\ Kill(p))

Spec == Init /\ [][Next]_vars

\* A call that is not asleep runs on; user code owes nothing.
FairSpec == Spec /\ \A p \in Procs : WF_vars(KernelStep(p))

-----------------------------------------------------------------------------
(***************************************************************************)
(* Properties.                                                             *)
(***************************************************************************)

\* Type correctness of the file table, the pipes and the calls in progress.
TypeOK ==
    /\ ref \in [FileIds -> Nat] /\ type \in [FileIds -> {"NONE", "PIPE", "INODE"}]
    /\ writable \in [FileIds -> BOOLEAN] /\ page \in [FileIds -> Pages \cup {None}]
    /\ ofile \in [Procs -> [Fds -> FileIds \cup {None}]]
    /\ pages \subseteq Pages /\ data \in [Pages -> [0 .. PIPESIZE - 1 -> Bytes]]
    /\ nread \in [Pages -> 0 .. Wrap - 1] /\ nwrite \in [Pages -> 0 .. Wrap - 1]
    /\ readopen \in [Pages -> BOOLEAN] /\ writeopen \in [Pages -> BOOLEAN]
    /\ iref \in Nat /\ on \in [Procs -> Pages \cup {None}]
    /\ pc \in [Procs -> {"user", "dead", "embryo", "fork", "pipealloc", "open", "open_bad",
                          "closing", "exiting", "piperead", "rsleep", "pipewrite", "wsleep"}]
    /\ todo \in [Procs -> Seq(Bytes)] /\ held \in [Procs -> Seq(FileIds)]
    /\ child \in [Procs -> Procs \cup {None}] /\ killed \in [Procs -> BOOLEAN]

Descriptors(f) == {d \in Procs \X Fds : ofile[d[1]][d[2]] = f}
Locals(f)      == {h \in Procs \X (1 .. 2) : h[2] <= Len(held[h[1]]) /\ held[h[1]][h[2]] = f}
Opened(t)      == {f \in FileIds : ref[f] > 0 /\ type[f] = t}
HalfClosed(t)  == {p \in Procs : ff[p].type = t}

\* The reference counts that filealloc, filedup and fileclose keep are exact:
\* a file has one reference for each descriptor of a process, of one that
\* fork is still making too, and for each call that holds it in a variable;
\* an inode has one for each open file, and for each open or close under way.
RefsExact ==
    /\ \A f \in FileIds : ref[f] = Cardinality(Descriptors(f)) + Cardinality(Locals(f))
    /\ iref = Cardinality(Opened("INODE")) + Cardinality(HalfClosed("INODE"))
              + Cardinality({p \in Procs : pc[p] \in {"open", "open_bad"}})

\* The files, and the calls of fileclose under way, that stand for an end of g.
Ends(g, w) ==
    {<<"file", f>> : f \in {x \in Opened("PIPE") : page[x] = g /\ writable[x] = w}}
    \cup {<<"closing", p>> : p \in {q \in HalfClosed("PIPE") : ff[q].page = g /\ ff[q].writable = w}}

\* A pipe's page lives exactly as long as one of its ends: an end is open while
\* one file, or one fileclose that has dropped the table lock, stands for it,
\* and nobody works on, sleeps on or is about to close a page that pipeclose
\* has freed or that belongs to another pipe by now.
PipeLife ==
    /\ \A g \in Pages :
          /\ g \in pages <=> readopen[g] \/ writeopen[g]
          /\ Cardinality(Ends(g, FALSE)) = IF readopen[g] THEN 1 ELSE 0
          /\ Cardinality(Ends(g, TRUE)) = IF writeopen[g] THEN 1 ELSE 0
    /\ \A p \in Procs : on[p] # None =>
          \E fd \in Fds : LET f == ofile[p][fd]
                          IN  f # None /\ type[f] = "PIPE" /\ page[f] = on[p]
                              /\ writable[f] = (pc[p] \in {"pipewrite", "wsleep"})
    /\ \A p \in Procs, fd \in Fds : ofile[p][fd] # None => type[ofile[p][fd]] # "NONE"

Pipe(g) == INSTANCE ByteStream WITH
    Capacity <- PIPESIZE, stream <- IF g \in pages THEN Unread(g) ELSE <<>>,
    readers <- readopen[g], writers <- writeopen[g]

\* p returns from piperead with nothing, and is not killed.
AtEof(p) == pc[p] = "piperead" /\ pc'[p] = "user" /\ ~killed[p] /\ Count(on[p]) = 0

\* The ring with its wrapping counters nread and nwrite is a bounded
\* first-in first-out stream, whoever reads, writes, closes or is killed; and
\* piperead reports its end only when no file and no call is left that stands
\* for the write end.
PipeIsByteStream ==
    /\ \A g \in Pages : Pipe(g)!Init
    /\ [][/\ \A g \in Pages : Pipe(g)!Next \/ UNCHANGED Pipe(g)!vars
          /\ \A p \in Procs : AtEof(p) => Ends(on[p], TRUE) = {}]_vars

Asleep(g, how) == {p \in Procs : pc[p] = how /\ on[p] = g}

\* A writer that gives up because it was killed.
GaveUp(g) == \E p \in Procs : killed[p] /\ pc[p] = "pipewrite" /\ on[p] = g /\ pc'[p] = "user"

\* A step that makes a pipe readable leaves no reader of it asleep, and one
\* that makes it writable leaves no writer asleep; the exception is a killed
\* writer's early return, after which a reader may sleep beside a full pipe.
WakeupsComplete ==
    [][\A g \in Pages :
        /\ \/ Count(g)' > Count(g) /\ ~GaveUp(g)
           \/ writeopen[g] /\ ~writeopen'[g]
           => Asleep(g, "rsleep")' = {}
        /\ \/ g \in pages /\ Count(g)' < Count(g)
           \/ readopen[g] /\ ~readopen'[g]
           => Asleep(g, "wsleep")' = {}]_vars

\* A reader whose writers are all gone and a writer whose readers are all gone
\* return, asleep or not, when the calls under way go on.
BlockedReturns ==
    \A p \in Procs :
        (\/ pc[p] \in {"piperead", "rsleep"} /\ ~writeopen[on[p]]
         \/ pc[p] \in {"pipewrite", "wsleep"} /\ ~readopen[on[p]]) ~> (on[p] = None)
=============================================================================
