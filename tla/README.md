# A verification project for OS_Uthread_HW2

The repository is an xv6 kernel (booted through UEFI, `go.sh` builds
`kernelmemfs`, `run.sh` starts it with one CPU) extended with **user-level
threads that are preempted by the kernel**: `uthread_init` registers a
scheduler function with the kernel, and the timer trap redirects a process that
has one to that function instead of letting it go on. This directory holds TLA+
modules of the parts of that system that carry its own logic, TLC
configurations that check them on small instances, and proofs checked by TLAPS.

Source lines are given as `file:line` relative to `src/xv6/`.

## 1. Inventory

| part | state it keeps | operations | module |
|---|---|---|---|
| thread library (`uthread1.c`, `uthread_switch.S`) | `all_thread[].{state, sp, stack}`, `current_thread`, `next_thread`, the registers | `thread_init`, `thread_create`, `thread_schedule`, `thread_switch`, `thread_exit`, `mythread`, `main` | `UThread` |
| timer upcall (`trap.c` 60-90, `sysproc.c` 93-111) | `p->scheduler`, the trap frame | upcall, `uthread_init` | `UThread`, `Proc` |
| process table, scheduler (`proc.c`) | `ptable`, `nextpid`, `cpus[].proc`, contexts | `fork`, `exit`, `wait`, `kill`, `sleep`, `wakeup`, `yield`, `sched`, `scheduler`, `forkret` | `Proc` |
| traps (`trap.c`, `sysproc.c`) | `ticks`, the locks, `killed` checks | timer trap, faults, `sys_sleep`, ... | `Proc` |
| file-system log (`log.c`) | `log.lh`, `log.outstanding`, `log.committing`, the log area on disk | `begin_op`, `log_write`, `end_op`, `commit`, `initlog` | `Log`, `Transactions` |
| buffer cache, sleep locks, disk queue (`bio.c`, `sleeplock.c`, `ide.c`) | buffers with flags, reference counts and locks, the LRU list, `idequeue` | `bread`, `bwrite`, `brelse`, `acquiresleep`, `releasesleep`, `iderw`, `ideintr` | `BufferCache`, `BlockStore` |
| inode cache and directory (`fs.c`, half of `sysfile.c`) | `icache`, the inodes and names on disk | `ialloc`, `iget`, `ilock`, `iput`, `dirlookup`, `dirlink`, under `open`, `close`, `link`, `unlink` | `Inodes` |
| file table, pipes (`file.c`, `pipe.c`, half of `sysfile.c`) | `ftable`, `p->ofile`, the rings | `pipe`, `open`, `dup`, `close`, `read`, `write`, `fork`, `exit` | `Files`, `ByteStream` |
| console input (`console.c`) | the ring `input` with its three indices | `consoleintr`, `consoleread` | `Console`, `LineInput` |
| pages and address spaces (`kalloc.c`, `vm.c`, `exec.c`) | the free list, page directories, `p->sz` | `kalloc`, `kfree`, `sbrk`, `fork`, `exec`, `wait` | `Memory` |
| user library, network, boot, drivers' registers | | | left out, see 7 |

How they interact. The thread library and the kernel share the user stack and
`p->scheduler`: the kernel pushes the interrupted `eip` and jumps, the library
returns through what was pushed. The kernel's parts share `ptable.lock`:
`sleep` and `wakeup` are how the log, pipes, sleep locks, the console and the
disk driver wait, and the lock is handed from one kernel stack to another
across `swtch`. File-system calls reach the disk only between `begin_op` and
`end_op`, through buffers the log pins with `B_DIRTY`.

What is hard in this code, and what the properties are aimed at:

* the thread scheduler is its own interrupt handler and is not re-entrant;
* an upcall saves `eip` only, so what is in scratch registers and flags is lost;
* ticks between any two instructions, on stacks of limited depth;
* processes that change their state while they still run on their stack;
* sleep against wakeup, exit against wait, kill against everything;
* fork and upcalls that fail half way;
* power loss between any two block writes, also during recovery;
* a log space reservation that is tested without its lock;
* counts of shared things (files, inodes, buffers, pages) that several calls
  raise and drop in sections of their own, with decisions in between;
* rings with wrapping counters whose two sides sleep on different channels;
* allocations that fail in the middle of a call.

`PROJECT.json` lists these hazards with the line where each bites.

## 2. The modules

### UThread: the thread library under upcalls

One process. `pc` is the label of the next instruction; the labels of main and
of `mythread` are at C statements, and also between the load of `current_thread`
or `t` into a register and the store through it (`StoreLabels`) and between the
loop's comparison and its branch (`body_test`); those of `thread_schedule` are at
its accesses to shared variables, and those of `thread_switch` at its
instructions. Inside other statements, `printf` for one, a tick with a live
register has the same effect as at these labels and has none of its own. Stacks are
memory: `stack[s][d]` is a cell, `esp` a stack and an index, and a pop leaves
the cell in place, so stale frames and overwritten frames can be returned
through. A cell is a return label with the frame it returns into. `eax` stands
for all the registers and flags neither the upcall nor `thread_switch` keeps; an
upcall turns it into garbage when the interrupted code is resumed.

`Upcall` is `trap.c` 60-90: enabled at a label in `TickPoints` once
`uthread_init` has run, it pushes the label at `esp` and continues in
`thread_schedule`. A return through a cell that was never written, a store
through a lost register, or a push on a full stack makes the process "wild":
the code's undefined behaviour, from which nothing is claimed.

`TickPoints` is the parameter by which the runs differ:

* `SafePoints`: the labels of main and `mythread` where nothing is live that an
  upcall loses, `thread_init` and the window before it has set up slot 0 included;
* `UserPoints`: also `body_test`, where the flags are live: a tick there makes a
  thread end early or late, but hurts no stack;
* `UserPoints` and `EdgePoints`: also in the scheduler before it has chosen a
  thread and after it has restored one;
* every label.

Nothing in `trap.c` keeps ticks to any of the first three; they say from where on
the code goes wrong.

### Proc: processes, CPUs and the timer trap

A CPU executes on a kernel stack (`ctx`), its scheduler's or a process's.
`swtch` is an action, and `ptable.lock` is a variable that stays held across it
as in the code, so the steps of another CPU fall between "state set", "stack
left" and "lock released on the other side". A critical section that does not
switch is one action. `pc[p]` is where a process is, or will continue.

| code | actions |
|---|---|
| `fork`, `allocproc` | `ForkAlloc`, `ForkKalloc`, `ForkCopy`, `ForkRun`; the table may be full, the allocation of the stack and the copy may fail |
| `exit` | `ExitCall`, `ExitBegin`, `ExitLock`, then `Sched` |
| `wait` | `WaitCall`, `WaitScan`, `WaitWoken` |
| `sys_sleep`, `sleep` | `SleepCall`, `SleepCheck`, `SleepLock`, `SleepWoken`, `SleepRelock` |
| `kill`, faults, `uthread_init` | `KillCall`, `Fault`, `UthreadInit` |
| `sched`, `scheduler`, `forkret`, `yield` | `Sched` with its assertions, `SchedulerLock`, `SchedulerSwitch`, `SchedulerBack`, `SchedulerUnlock`, `Forkret`, `Yield`, `YieldBack` |
| `trap`, timer case | `TimerIrq`, `TickCount`, `TickWakeup`, `TrapDispatch` (upcall, failing upcall, or yield), `TrapCheck`; both yields are there |
| `trap`, system calls | `SysReturn`, `KilledCall` and the guard `Calling` |

User code, the first process included, makes any of the calls in `Calls` at any
time. The first process does call `exit`: `init.c:25-27` when `fork` fails,
`initcode.S` when `exec` does. `copyout` of an upcall either succeeds or fails; that
it dereferences a null pointer for an `esp` without a page table (`vm.c:361`) is a
listed hazard outside the model, so "no other panic" is a claim about the rest. Ticks arrive wherever
interrupts are enabled (`Interruptible`). A panic sets `panicked` and stops the
system. `named` and `upcalled` are history variables that two of the properties
need. What `exit` does to files, what `fork` does to memory, and the file-system
initialisation in the first `forkret` are left out: they change nothing here,
though the code may sleep in them.

### Log and Transactions: the file-system log

`Log` has the disk (`home`, `logd`, `hdr`), the buffers (`cache`, `dirty`), the
fields of `log`, and a program counter for every process. Every disk write is an
action: a turn of `write_log` or `install_trans`, each `write_head`, and the same
steps in the recovery at boot. BSIZE is one sector, so a block write is atomic.
mkfs zeroes the log area, and `Init` says so.
`Crash` can happen at any time and keeps only the disk. `LogWriteCheck` is the
test `log_write` makes before it takes the lock; `Evict` is `bget` recycling a
clean buffer; `KillWakes` is a `kill` that ends a sleep in `begin_op`.

`Transactions` is what the callers rely on, in three variables: what the running
system sees, what would survive a crash, and who is inside a call. `Log`
implements it (`AtomicTransactions`) under the mapping

    durable <- what recovery would make of the disk (Recovered)
    current <- the cache, and Recovered while initlog runs
    active  <- the processes between begin_op and end_op

so that `write_head` is the step that commits. The model is of the kernel with
`ide.c`; with `memide.c` (`kernelmemfs`) the disk is lost with the memory and only
the concurrency part applies.

### Files and ByteStream: open files and pipes

A critical section under `ftable.lock` or a pipe's lock is one action, and
processes run between any two. `fileclose` is two of them: it copies the file
into `ff`, gives the slot back, and only then closes the pipe (`PipeClose`) or
puts the inode (`FileIput`). `held` are files a call keeps in its variables: the
two of `pipealloc` before they have descriptors, those an error path still has to
close. `exit` closes its descriptors in a loop (`ExitClose`), between the turns of
which others run, and is over with `ExitEnd`. `FileAlloc`, `PipeAlloc` and `OpenFile` have every failure:
no file, no memory, no descriptor. `fork` copies descriptors one `filedup` at a
time. The ring is `data` with counters modulo `Wrap`, reached modulo `PIPESIZE`
as in the code; `PipeRead`, `PipeReadWait` and `PipeWrite` run from an acquire, or
from the return of `sleep`, to the next sleep or the return. `ByteStream` is the
promise to user programs: a bounded sequence that only grows at one end and
shrinks at the other, and whose ends close once.

### Console and LineInput

`Key`, `Backspace` and `KillLine` are the cases of `consoleintr`; `ConsoleRead` and
`ReadLoop` are `consoleread`, which may be left half done at a sleep and comes back
with `n` and `target` as they were. `LineInput` is the promise: completed lines
that can only be read, and behind them a line that can only be edited.

### BufferCache and BlockStore

`bget` (`BgetHit`, `BgetMiss` with the least recently used victim, and the panic
without one), `acquiresleep` with its sleep, `bwrite`, the pin of `log_write`,
`brelse` in its two sections, and the disk: `Iderw` appends to `idequeue` and
starts an idle disk, `Ideintr` finishes the head and starts the next one. `busy`
says that a request was started; an interrupt comes for nothing else. `BlockStore`
is the promise to the file system: a block has one content and at most one
user, who alone changes it.

### Inodes

Files in one directory. `open` (of a name, or with O_CREATE), `close`, `link` and
`unlink` are cut where they take or drop a lock: the directory's sleep lock, an
inode's sleep lock, `icache.lock`. `iput` is four actions, since the reference
count it decides on is read before the inode is freed and dropped after. `put`
and `then` say which entry is put and where the call goes on. `iunlockput(dp)` drops
the directory's lock and takes it once more in the `iput`: a call in `dput` has
this acquire before it (`DirPut`), and `create` and `unlink` make it with the file's
lock held. So `unlink` is `Unlink`, `UnlinkName`, `DirPut` and `UnlinkCount`: the
name goes before the count does, with the directory unlocked in between.

### Memory

Address spaces as sets of places that hold a page (directory, kernel tables, a
table for `PerTable` pages, the user pages), and the free list as a number. Every
`kalloc` is an action that may fail; `Fail` is what the call then gives back.
`lost` counts the pages that nobody knows of any more; see section 5.

## 3. The runs

| run | instance | what it shows |
|---|---|---|
| `uthread_safe_ticks` | 4 slots, 4 creations (one fails), 2 iterations, 6 ticks at `SafePoints` | one RUNNING thread, on its own stack; every waiting context intact and untouched; no thread ends early; the process ends |
| `uthread_any_tick` | 2 threads, stacks of 4 cells; scene "edge": 5 ticks at `UserPoints` and `EdgePoints`; scene "all": 3 ticks anywhere | upcalls at the edges of the scheduler nest without damage until a stack is full, which is then the only way to undefined behaviour; with ticks anywhere each function still runs on the stack it was started on |
| `uthread_reentrant` | 2 threads, 3 ticks anywhere | **violated**: an upcall inside `thread_switch` saves one thread's stack pointer in another's slot |
| `proc_smp` | 3 slots, 2 CPUs, ticks; scene "family": `fork`, `exit`, `wait`; scene "calls": two processes and every call, a tick counter that wraps | no stack shared or freed in use, no lost wakeup, no orphan, unique pids, a zombie is final, `sched`'s assertions hold |
| `proc_fair` | 3 slots, 1 CPU, `fork`, `exit`, `wait`, `kill` | no starvation, a killed process dies, init reaps its zombies |
| `proc_kill_unused` | 2 slots, `kill(0)` | **violated**: a process is born killed in a slot that was killed while free |
| `proc_upcall_yields` | one process | **violated**: an upcall is followed by a kernel yield all the same |
| `disk` | scenes "cache" (2 users, 2 buffers, 3 blocks, 1 pinned), "log" (2 processes, 2 blocks, crashes anywhere) | the cache is a block store with exact counts and finishes requests; atomic transactions, durability when the system is quiet, every sleeper woken |
| `streams` | 2 processes, 3 files, 2 descriptors, 1 page, a ring of 2 bytes; scenes "table" (everything but read and write), "ring" (pipes only), "console" (2 readers, a ring of 2) | exact reference counts, a pipe's page freed once and by the last end, the rings are a byte stream and edited lines, wakeups complete, blocked calls return when the other side is gone |
| `storage` | scenes "inodes" (2 processes, 2 inodes, 2 names), "memory" (3 slots, 14 pages), "log" (2 processes, 4 blocks, LOGSIZE = nlog = 2 * MAXOPBLOCKS) | counts of inodes, links and pages are exact; the wait for an inode's or the directory's lock ends, except in the circle below; the reservation of `begin_op` holds and fits the log area |
| `inode_leak` | the scene "inodes" alone | **violated**: two overlapping `iput`s of one file both leave the freeing to the other |
| `inode_deadlock` | the scene "inodes" alone | **violated**: a `create` that puts the directory and an `unlink` that locks the new file wait for each other |

A run with scenes (`MCUThreadAny`, `MCProc`, `MCDisk`, `MCStreams`, `MCStorage`) picks one at
the start and keeps it; the variables of the other components stay as they
are. The scenes share nothing, so this is several instances in one run, and a
property of one component is checked where that component moves.

Each property of a passing run has a mutant in `PROJECT.json`: a plausible
mistake in one definition under which TLC finds that property violated.

Why the bounds are enough. `uthread_safe_ticks` has three threads besides main,
so that a third one waits while two switch, creation fails once, and six ticks
exceed the number of switches a run makes without them. The scene "edge" is
limited by stack depth, not by ticks: four cells hold one full switch and one
nested upcall, and the fifth push overflows. Three process slots are the first
size with a grandchild, two CPUs the first with concurrency; two processes
already share the channel of `sys_sleep`. `MaxPid` bounds the forks of
a behaviour, `TickMod` makes `ticks` wrap. In the scene "log" of `disk` a call writes two
blocks of a budget of MAXOPBLOCKS = 4, with LOGSIZE = nlog = 8: two blocks are the
smallest write that can be torn, and calls that stay within `nlog` even though the
header is counted in it satisfy `CallsFit` (section 4). Nothing bounds the number
of crashes or calls. The scene "log" of `storage` uses calls that write fewer blocks than
MAXOPBLOCKS, as all those in `fs.c`, `file.c` and `sysfile.c` do. In `streams` a pipe
takes two of three files, so that a second pipe or a third open fails; a write of
three bytes into a ring of two must sleep; one page means that a new pipe gets
the page of the last one, which is where a stale pointer would show; counters
wrap at twice the ring. In `disk` three blocks compete for two buffers, so
every miss recycles, and a pinned one leaves a single victim; in `storage` two names and two
inodes are enough for a second link, a number used again and an entry used
again; 14 pages are less than three full processes need, and a table maps two
pages, so each allocation, those of tables included, can be the one that fails.
The deadlock check is off in `streams`, `disk` and `storage`, because processes of
the model may wait for ever: a reader for a writer that never writes, everybody
after a panic, and the two calls of the circle above.

Fairness. In `UThread` the process executes instructions and `MaxTicks` bounds
the ticks. `Proc!FairSpec` is for one CPU: traps and switches run to their end; a
pending tick is delivered once interrupts are on, because the interrupt
controller holds it; between two ticks the interrupted code makes progress,
because a tick's period is much longer than its handler; the loop of `init.c`
keeps calling `wait`. User code is otherwise free to do nothing; in particular a
killed process is never made to call the kernel (`KilledCall` has no fairness), and
`KilledDies` rests on the check at the end of the timer trap. Spinlocks are
not fair, so nothing is claimed for the liveness of several CPUs. `Log!FairSpec`:
a call in progress comes to its `end_op` and the commit code runs on. `Files`: a
call that is not asleep runs on; whether anybody reads, writes or closes is up to
user code, so only a blocked call whose other side is gone is claimed to return.
`BufferCache`: the disk answers a request it was given, and a call that is not
asleep runs on; nobody is made to release a buffer, and `RequestsFinish` does not
need it.

## 4. What is proved

Eight of the components have theorems that hold for every value of the
constants. Each `...Proofs` module states one inductive invariant `IInv` (or a
named one), proves it action by action, and reads the properties of the runs off
it. None of the properties is inductive as it stands; what had to be added is
said below, since it is what the code relies on.

### UThreadProofs

For every number of slots, created threads, iterations, stack cells and ticks:

* `SafeTicksNeverWild`: no undefined behaviour, and every variable but the loop
  counters has its type;
* `SafeTicksWaitersResumable`: every waiting thread can be resumed, its context in
  one of two shapes;
* `EdgeTicksCurrentOwnsCpu`: one RUNNING thread, on its own stack;
* `EdgeTicksExitIsFinal`: an exited thread never continues;
* `EdgeTicksThreadsFinish`: a slot is freed only after its thread's work, and the
  loop counters have their type too;
* `EdgeTicksHarmless`: a waiting thread's saved pointer is on its own stack, and a
  full stack is the only way to undefined behaviour;
* `EdgeTicksSuspendedUntouched`: nobody writes the stack or the saved pointer of
  a suspended thread (`SuspendedUntouched`);
* `CodeStaysOnItsStack`: wherever ticks arrive, main's code runs on the process's
  stack only and `mythread`'s on a stack made by `thread_create` only.

All but the last assume the constants' types (`UThreadAssumption`) and a
hypothesis on where ticks fall:

* `TicksAreSafe`, for the two `SafeTicks` theorems: at `UserPoints` only, and two
  cells in a stack; with nested ticks a stack may fill up and a waiting thread has
  more than two shapes;
* `TicksAtEdges`, for the `EdgeTicks` theorems: at `UserPoints` and `EdgePoints`, so also
  in `thread_schedule` before it has chosen a thread and after `thread_switch` has
  restored one, at every depth of nesting;
* `FlagsKept`, for `EdgeTicksThreadsFinish` in addition: none at `body_test`. With one
  there the loop may be left early, or go on below zero.

All three exclude the `StoreLabels`, where a tick makes thread code store through
a lost pointer, and the middle of a switch, where `uthread_reentrant` shows what
happens. `trap.c` guarantees none of the three: it would have to mask upcalls while
the library switches, and save the scratch registers and the flags.

The properties speak of moments when thread code runs, and a switch breaks them
for a dozen steps. `IInv` says, for every label of `thread_schedule` and
`thread_switch`, how far the switch has got: on whose stack the CPU is
(`AtUser`, `AtSched`, `AtRestore`), what `eax`, `save`, `found` and `next_thread`
hold at the labels that use them, which threads are RUNNING in between (`Chosen`,
`Requeued`), and for every other thread that its context can be restored (`Saved`).
A tick in the scheduler puts one more frame on the stack, so a stack in use is a
`Chain`: the return address of the thread's own code, and above it frames of the
scheduler, each interrupted at an edge, whose local `current_save`, where it will
still be read, is that same thread (`Inner`). This is why the edges are harmless:
an interrupted `thread_schedule` still has the whole scan before it, or has only
its own thread's state left to read, which is RUNNING again when it goes on, or
reads nothing any more. Before `thread_init` is finished `Booting` takes the place
of all this. The proof has one lemma per action; stack lemmas (`PushWrites`,
`ChainPush`, `HomeStackInjective`, `SavedStable`) say that a push changes one cell of
one stack. TLC checked the same invariant with 3 threads, stacks of 4 cells and
7 ticks before it was proved.

`CodeStaysOnItsStack` makes no assumption about ticks, so nothing of that
survives. What does is `Placed`: every cell of every stack, stale ones included,
returns into code that belongs on that stack or into the scheduler. Even with
the wrong stack pointer a `ret` cannot bring a function onto another stack.

### ProcProofs

For every number of slots, CPUs, pids and ticks, with every call, from
`ProcAssumption` alone:

* `ProcTypes`;
* `ProcStacksSafe`: across `swtch` no two CPUs are on one kernel stack, and
  `wait` frees none that is in use;
* `ProcNoLostWakeup`: nobody sleeps in `wait` or `sys_sleep` past its event;
* `ProcFamilyIntact`: every process has a living parent and a pid of its own,
  while parents exit and forks fail;
* `ProcPanicOnlyForInit`: the assertions of `sched` hold; the one panic is "init
  exiting", in an `exit` of the first process, killed or calling it itself;
* `ProcZombieFinal` (an action property): only its parent's `wait` ends a zombie.

The properties relate state to stacks; the code relies on who holds `ptable.lock`
while a stack is left and another entered. `LocksOK` says that a CPU holds a lock
exactly while the code it executes, on whichever stack, is between acquire and
release; with `CpusOK` (a CPU is on its scheduler's stack or on that of its own
process) this gives mutual exclusion over the label at which a process will
continue. `StatesOK` says for every process either that a CPU executes it, and
what its state may be at that label (RUNNING, except between "state set" and the
switch), or that it is parked at a label matching its state. `ForksOK` ties an
EMBRYO to the one fork that owns it, and `InitOK`, `FamilyOK` and `PidsOK` are the
family tree. `SleepersOK` adds to `NoLostWakeup` the window in `sleep` between its
caller's last test and the change of state, closed by holding `tickslock` until
`ptable.lock` is held.

### LogProofs

For every number of processes, blocks, values, crashes and recoveries:

* `LogTypes`, `LogNeverPanics`: the three panics of `log.c` are unreachable;
* `LogSpaceReserved`: what `begin_op` reserves is there, though `log_write` tests
  the size without the lock, and `write_log` stays in the log area;
* `LogQuietIsDurable`: with no call and no commit, everything is at home on disk;
* `LogImplementsTransactions`: the refinement, `Spec => AtomicTransactions`.

They assume `LogAssumption` and `CallsFit`: a call writes fewer blocks than
MAXOPBLOCKS, by more than what the area is short of LOGSIZE. The code justifies it:
`file.c:133` cuts a write so that it takes at most 8 of the 10 blocks, and no other
call writes more; with mkfs's LOGSIZE = nlog = 3 * MAXOPBLOCKS this is
OpBlocks <= MAXOPBLOCKS - 2. Without it `nlog` is too small by one (section 5).

The invariant has two halves. Counting: `outstanding` is the number of calls, and
the log's length plus the budgets of the calls in progress exceeds LOGSIZE by no
more than what these calls have already logged (`Reserved`, over the union of their
blocks). Contents: for each stage of a commit and of a recovery, which of
cache, log area, header and home agree on which blocks (`Recovering`,
`Collecting` and the stages of `commit`). A crash at any stage lands in `Recovering`
with `Recovered` unchanged, which is the refinement's main case.

### BufferCacheProofs

For every number of processes, buffers, blocks and pinned blocks, from
`CacheAssumption`:

* `CacheTypes`;
* `CacheBuffersExact`: one buffer for a block, exact reference counts and sleep
  locks, one disk request for each process asleep in `iderw`, and a panic of `bget`
  only when no buffer can be had;
* `CacheImplementsBlockStore`: the refinement, `Spec => CacheIsBlockStore`.

Added are what the flags say at each point of a call (`FlagsOK`) and `DiskOK`: a
valid clean buffer agrees with the disk, and so does the one at the head of the
queue, which the disk was given when it was started. Without the latter `ideintr`
could clear `B_DIRTY` of a buffer whose contents are nowhere else, and recycling it
would lose a write. That `bget` takes the least recently used buffer rests on
`lru` being a permutation, which `MoveToHead` keeps.

### FilesProofs

For every finite set of processes, every number of files, descriptors and pages,
and every size of the ring and of the counters, from `FilesAssumption`:

* `FilesTypes`;
* `FilesRefsExact`: `f->ref` and the references of inodes are exact, in the middle
  of a fork, an exit or a failed `pipe` too;
* `FilesPipeLife`: a pipe's page is in use as long as an end of it is, and who
  works or sleeps on it has a descriptor of it;
* `FilesWakeupsComplete` (an action property): a step that makes a pipe readable or
  writable leaves nobody asleep who waits for that, except after a killed writer;
* `PipeImplementsByteStream`: the refinement, `Spec => PipeIsByteStream`.

`FilesAssumption` has that `Wrap` is a multiple of PIPESIZE and larger, as 2^32 is
of 512: without it the ring would jump when a counter overflows.

Counting first. `RefsOK` is `RefsExact` of files; a step that moves a file from a
descriptor to a variable, or copies a descriptor, adds or removes one element of
the set that is counted. It needs to know what a call has in its variables at
each label (`CallsOK`), that a fork's child is its own and does not run (`ForksOK`),
and that a file new from `filealloc` is in one variable only (`FreshOK`), so that
an error path frees it. Then kinds: a free file has no type, and one with a
descriptor has one (`KindsOK`). Then ends: `ReadersOK` and `WritersOK` say that
an open end is stood for by exactly one file or by one `fileclose` that has given
its file back and not yet taken the pipe's lock; two would free the page twice.
`PagesOK` and `OnOK` tie this to the pages in use and to calls in progress.

The ring is in the refinement: `RingOK` bounds what is unread by PIPESIZE, and
`Ring` is what lies between the counters. `SamePlace` and `WrapStep` say that the
counters' overflow keeps the place in the ring; with them a read takes a prefix
of `Ring`, and a write that has room appends, since the cells it stores to are
none of the unread ones.

### ConsoleProofs

For any readers, any ring and any multiple of its size at which the indices wrap:

* `ConsoleTypes`;
* `ConsoleReadersAwake`: `ReadersAwake`, so that a full ring is never stuck;
* `ConsoleImplementsLineInput`: the refinement, `Spec => ConsoleIsLineInput`.

They assume `ConsoleConstants`: the indices wrap at a multiple of INPUT_BUF larger
than it (2^32 and 128), and reads ask for something. `IndicesOK` keeps `r`, `w` and `e`
in this order, at most a ring apart, by their distances modulo `Wrap`; `Split`,
`Lengthen`, `Shrink` and `Shorten` say how a step changes a distance. `LineOpen` is
what makes ^U a plain erase: the line being edited never holds a '\n', because one
that is typed completes it, so that the test for '\n' in the loop of `consoleintr`
never stops it. `RingKept` and `RingAppend` are the ring's side of the refinement:
a character stored at `e` is none of the unread ones.

### InodesProofs

For any finite sets of processes and names, any inode numbers and any number of
cache entries (`InodeConstants`):

* `InodesTypes`;
* `InodesReferencedIsAllocated`: reference counts are exact, an inode has one
  entry, and no name, open file or call refers to an inode that `iput` has freed;
* `InodesLinksExact`: the link count on disk is the number of names, plus one for
  each link or unlink between its change of the count and of the directory, and
  the cache agrees;
* `InodesLocksEnd`: the circle of section 5 is the only one; but for it a wait for
  a sleep lock ends at a call that goes on, after at most three hops.

`iput` decides to free, truncates and frees in separate steps, with the cache's
lock dropped in between. What keeps others away is that an inode without a name
cannot be met again: `Live` is an inode with a name, an open file or a call that
has found it by name, `Making` one that `ialloc` has handed to a `create`. No step
but that `create`'s `dirlink` makes an inode live (`LiveShrinks`), so the decision is
still right when it is carried out (`FreeingOK`), and an `iget` after it finds no
entry being freed (`GetKeeps`). `AllocOK` and `FreshOK` then say that what is live
or being made has a type on disk, and that a new inode has no link yet. `ReadOK` says
that an `unlink` about to count has read its inode, and `DputOK` that a call which
puts the directory has given up its lock and stands at one of the labels behind an
`iunlockput(dp)`; of these only those of `create` and `unlink` keep a file's lock
(`LockOK`), so the circle needs one of them. References
are counted as pointers: each step adds, drops or moves one (`RefsGain`,
`RefsLose`, `RefsMove`). The leak of section 5 contradicts none of this: there an
inode stays allocated without being live.

### MemoryProofs

For any number of processes, pages and sizes of a page table, as long as
`userinit` finds its five pages (`MemoryConstants`):

* `MemoryTypes`: among others, the free list never exceeds the pages there are;
* `MemoryPagesAccounted`: `PagesConserved` and `SizeIsMapped`.

`SizeIsMapped` speaks of processes outside of a call; the invariant adds what a
call has built so far. `Full(S, k)` says that an address space maps its first `k`
pages, with their tables and the kernel's part; a growing space is `Full` for some
`k` between the old size and the new one (`SpaceOK`), and so is a draft from the
moment the kernel's part is in (`DraftOK`). A page in `mem` goes with a place still
to be mapped, and the child of a fork is its own (`CallOK`, `ForksOK`), so that an
error path gives back one stack, and one draft that nobody else has. For
the sum, `CountSet` says that replacing the space of one process changes the count
of all places by the difference of the two spaces, `FullMore` what mapping a page
adds and `ShrunkIs` what `deallocuvm` gives back. Every failing `kalloc` ends in one
of `StepFailGrow`, `StepFailExec` and `StepFailFork`; the last shows where the page
in `lost` comes from and that there is one for each such failure.

### Only model-checked

* every liveness property: fairness is outside what the prover handles;
* `EdgeTicksSafe` as it is written, over the two scenes of `MCUThreadAny`; each of its
  conjuncts is proved for `UThread` itself by the `EdgeTicks` theorems.

## 5. What the checks found

* `thread_switch` is not safe against an upcall inside it, against the comment at
  `uthread_switch.S:46`.
* `kill` marks free slots (`proc.c:493`) and `allocproc` does not clear the mark.
* An upcall does not skip the kernel's yield (`trap.c:153`), against the comments at
  `trap.c:80` and `:87`.
* Two `iput`s of one file, from a close and from an unlink, can both read a
  reference count of 2 and both skip the freeing (`fs.c:338-340`); the inode is
  then allocated for ever, against the comments at `fs.c:120` and `fs.c:328`.
* `create` (`sysfile.c:281`) and `unlink` (`sysfile.c:225`) call `iunlockput(dp)` with the
  file locked, and its `iput` takes the directory's lock again (`fs.c:335`). Another
  `unlink` that gets the directory in between and then locks the file
  (`sysfile.c:209`) closes a circle, and both sleep for ever, against what the test
  at `usertests.c:855` looks for.

What the models also make explicit:

* `thread_schedule` resumes main at the first `thread_exit`, in every run, with ticks
  or without: the scan starts at slot 0, against the comment at `uthread1.c:52`. It
  needs no interleaving, so there is no run for it.
* `copyuvm` does not free the page it could not map (`vm.c:343`), unlike `allocuvm`
  (`vm.c:252`). `PagesAccounted` holds with these pages counted in `lost`.
* A writer killed at a full pipe returns without waking readers (`pipe.c:86`), the
  one exception `WakeupsComplete` has to name.
* `growproc` down to size 0 gives every page back, reports failure and keeps `sz`
  (`proc.c:176`).
* A disk read that fails leaves the buffer valid with old contents (`ide.c:120-124`);
  the model's disk does not fail.
* `link` and `create` look a directory up and lock it later, so it may have been
  removed in between; with one directory that cannot happen in `Inodes`.

Seen while reading, outside the runs: mkfs counts the header in `nlog`, so the log
area holds LOGSIZE-1 data blocks while `begin_op` admits calls for LOGSIZE of them.
Calls that used their whole budget could overrun the area; none in the repository does,
and `CallsFit`, the hypothesis of the theorems about `Log`, says exactly this.

## 6. Plan

The plan is carried out: every component chosen for modelling has its module, its
run and, but for liveness, its theorems. What would come next are the parts of
section 7 that a change of the code may bring in: block maps and directories below
the root in `Inodes`, and a crash over `Inodes`.

## 7. Not modelled

* EDK II under `src/edk2` is vendored firmware, more than 99 % of the lines of the
  repository; it is not code of this system and nothing of it is modelled. Measured
  against the whole repository the mapped share is therefore close to zero;
  of the 9508 lines of C under `src/xv6`, user programs, device tables and fonts
  included, about 1980 are mapped: about 70 % of `proc.c`, `log.c`, `trap.c`, `bio.c`,
  `pipe.c` and `uthread1.c`, and a third to a half of `fs.c`, `sysfile.c`, `file.c`,
  `vm.c`, `ide.c` and `exec.c`.
* The UEFI loader and the boot code are straight-line initialisation; interrupt
  controllers, PCI and the network card are programming of device registers;
  the packet code above ARP requests is not reached (the call that would receive
  packets is commented out in `main.c`); fonts, pixels, key maps, `printf` and string
  functions are data and formatting. `umalloc.c` is sequential and has no state
  another part sees.
* Block maps (`bmap`, `balloc`, `itrunc`, `readi`, `writei`), paths through several
  directories, `mkdir` and `chdir`: they would add data to `Inodes`, and their
  locking is that of the calls it has.
* A crash over `Inodes`: the log makes each call atomic, which `Log` shows; that an
  unlinked open file survives a crash as an allocated inode is a listed hazard.
* `exec` and the user-level scheduler: `p->scheduler` survives `exec`, a listed hazard.
* The shell and the other programs, and the test programs.
