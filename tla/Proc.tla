-------------------------------- MODULE Proc --------------------------------
(***************************************************************************)
(* The process table, the per-CPU scheduler, sleep and wakeup, and the     *)
(* timer trap: xv6/proc.c, xv6/trap.c and the process calls of             *)
(* xv6/sysproc.c.                                                          *)
(*                                                                         *)
(* A CPU executes on a kernel stack: that of its scheduler or that of a    *)
(* process (ctx).  swtch is an action of its own, and ptable.lock stays    *)
(* held across it as in the code, so a step of another CPU can fall        *)
(* between any two of: setting a state, leaving the stack, and releasing   *)
(* the lock on the other side.  A critical section that does not switch    *)
(* stacks is one action, enabled while the lock is free.                   *)
(* Memory, files and the user image are abstracted: an allocation or a     *)
(* copy may fail, and the calls a process makes are arbitrary members of   *)
(* Calls.                                                                  *)
(***************************************************************************)
EXTENDS Integers, FiniteSets

CONSTANTS
    NPROC,      \* slots of the process table
    NCPU,       \* processors
    Calls,      \* the system calls and faults user code makes in an instance
    MaxPid,     \* bound on the pids handed out
    TickMod,    \* 2^w for a w-bit ticks counter
    Durations,  \* arguments of sys_sleep
    KillArgs    \* arguments of sys_kill

Slots    == 1 .. NPROC
CPUs     == 0 .. (NCPU - 1)
InitProc == 1                 \* initproc
None     == 0                 \* a null proc pointer; as a ctx: the scheduler's stack
NoCpu    == -1                \* a lock nobody holds
TickChan == NPROC + 1         \* the channel &ticks; the channel of wait is the proc itself

AllCalls == {"fork", "exit", "wait", "kill", "sleep", "fault", "uthread_init"}

ASSUME ProcAssumption ==
    /\ NPROC \in Nat \ {0} /\ NCPU \in Nat \ {0}
    /\ Calls \subseteq AllCalls
    /\ MaxPid \in Nat \ {0} /\ TickMod \in Nat \ {0}
    /\ Durations \subseteq Nat /\ KillArgs \subseteq Nat

UNUSED   == "UNUSED"
EMBRYO   == "EMBRYO"
SLEEPING == "SLEEPING"
RUNNABLE == "RUNNABLE"
RUNNING  == "RUNNING"
ZOMBIE   == "ZOMBIE"
States   == {UNUSED, EMBRYO, SLEEPING, RUNNABLE, RUNNING, ZOMBIE}

VARIABLES
    state, pid, parent, killed, chan,  \* fields of struct proc
    scheduler,   \* p->scheduler is set: ticks in user mode become upcalls
    kstack,      \* p->kstack is allocated
    nextpid,
    lock,        \* holder of ptable.lock
    tickslock,   \* holder of tickslock
    ticks,
    ctx,         \* kernel stack a CPU executes on
    proc,        \* cpus[c].proc
    pos,         \* index of the scheduler's loop, None outside its critical section
    irq,         \* where a CPU is in the timer case of trap(), "none" outside it
    pc,          \* where a process is, or will continue when switched to
    ret,         \* label at which the timer interrupted the process
    np,          \* the child a fork is making
    ticks0, dur, \* locals of sys_sleep
    upcalled,    \* this trap redirected the process to its user-level scheduler
    named,       \* pids named by a kill or caught in a fault (history)
    panicked

table  == <<state, pid, parent, killed, chan, scheduler, kstack, nextpid>>
locks  == <<lock, tickslock>>
cpu    == <<ctx, proc, pos, irq>>
thread == <<pc, ret, np, ticks0, dur, upcalled>>
vars   == <<table, locks, ticks, cpu, thread, named, panicked>>

-----------------------------------------------------------------------------
\* CPU c executes the kernel or user code of process p.
On(c, p) == ctx[c] = p /\ proc[c] = p /\ irq[c] = "none"

\* Process p is in user mode and its system call gets past the check at the
\* start of trap().
Calling(c, p, call) == On(c, p) /\ pc[p] = "user" /\ ~killed[p] /\ call \in Calls

Goto(p, label) == pc' = [pc EXCEPT ![p] = label]

IsFirst(q, S) == q \in S /\ \A r \in S : q <= r

\* Mutant: only the first sleeper is woken.
Wakeup1One(chans) ==
    [q \in Slots |-> IF IsFirst(q, {r \in Slots : state[r] = SLEEPING /\ chan[r] \in chans})
                     THEN RUNNABLE ELSE state[q]]

\* wakeup1 on every channel of the set chans.
Wakeup1(chans) ==
    [q \in Slots |-> IF state[q] = SLEEPING /\ chan[q] \in chans THEN RUNNABLE ELSE state[q]]

Panic == panicked' = TRUE /\ UNCHANGED <<table, locks, ticks, cpu, thread, named>>

-----------------------------------------------------------------------------
(***************************************************************************)
(* fork and allocproc.                                                     *)
(***************************************************************************)

Unused == {q \in Slots : state[q] = UNUSED}

\* p->pid = nextpid++
NextPid == nextpid + 1

\* The critical section of allocproc.
ForkAlloc(c, p) ==
    /\ Calling(c, p, "fork")
    /\ lock = NoCpu
    /\ \/ /\ Unused = {}
          /\ Goto(p, "sysret")
          /\ UNCHANGED <<table, np>>
       \/ \E q \in Slots :
            /\ IsFirst(q, Unused)
            /\ nextpid <= MaxPid
            /\ state' = [state EXCEPT ![q] = EMBRYO]
            /\ pid' = [pid EXCEPT ![q] = nextpid]
            /\ nextpid' = NextPid
            /\ scheduler' = [scheduler EXCEPT ![q] = FALSE]
            /\ np' = [np EXCEPT ![p] = q]
            /\ Goto(p, "fork_kalloc")
            /\ UNCHANGED <<parent, killed, chan, kstack>>
    /\ UNCHANGED <<locks, ticks, cpu, ret, ticks0, dur, upcalled, named, panicked>>

\* kalloc of the kernel stack, and the context that starts in forkret.  On
\* failure the slot goes back to UNUSED with its new pid.
ForkKalloc(c, p) ==
    /\ On(c, p) /\ pc[p] = "fork_kalloc"
    /\ \/ /\ kstack' = [kstack EXCEPT ![np[p]] = TRUE]
          /\ pc' = [pc EXCEPT ![p] = "fork_copy", ![np[p]] = "forkret"]
          /\ UNCHANGED <<state, np>>
       \/ /\ state' = [state EXCEPT ![np[p]] = UNUSED]
          /\ np' = [np EXCEPT ![p] = None]
          /\ Goto(p, "sysret")
          /\ UNCHANGED kstack
    /\ UNCHANGED <<pid, parent, killed, chan, scheduler, nextpid, locks, ticks, cpu,
                   ret, ticks0, dur, upcalled, named, panicked>>

\* copyuvm; on success the child gets its parent, trap frame, files, cwd.
ForkCopy(c, p) ==
    /\ On(c, p) /\ pc[p] = "fork_copy"
    /\ \/ /\ parent' = [parent EXCEPT ![np[p]] = p]
          /\ Goto(p, "fork_run")
          /\ UNCHANGED <<state, kstack, np>>
       \/ /\ kstack' = [kstack EXCEPT ![np[p]] = FALSE]
          /\ state' = [state EXCEPT ![np[p]] = UNUSED]
          /\ np' = [np EXCEPT ![p] = None]
          /\ Goto(p, "sysret")
          /\ UNCHANGED parent
    /\ UNCHANGED <<pid, killed, chan, scheduler, nextpid, locks, ticks, cpu,
                   ret, ticks0, dur, upcalled, named, panicked>>

ForkRun(c, p) ==
    /\ On(c, p) /\ pc[p] = "fork_run"
    /\ lock = NoCpu
    /\ state' = [state EXCEPT ![np[p]] = RUNNABLE]
    /\ np' = [np EXCEPT ![p] = None]
    /\ Goto(p, "sysret")
    /\ UNCHANGED <<pid, parent, killed, chan, scheduler, kstack, nextpid, locks, ticks, cpu,
                   ret, ticks0, dur, upcalled, named, panicked>>

-----------------------------------------------------------------------------
(***************************************************************************)
(* exit and wait.                                                          *)
(***************************************************************************)

\* sys_exit.  The first process calls it too: initcode.S when exec fails,
\* init.c when fork fails.
ExitCall(c, p) ==
    /\ Calling(c, p, "exit")
    /\ Goto(p, "exit")
    /\ UNCHANGED <<table, locks, ticks, cpu, ret, np, ticks0, dur, upcalled, named, panicked>>

\* "init exiting", or the files and the working directory are closed.
ExitBegin(c, p) ==
    /\ On(c, p) /\ pc[p] = "exit"
    /\ IF p = InitProc
       THEN Panic
       ELSE /\ Goto(p, "exit_lock")
            /\ UNCHANGED <<table, locks, ticks, cpu, ret, np, ticks0, dur, upcalled, named, panicked>>

Children(p) == {q \in Slots : parent[q] = p}

\* Mutant: the parent is not woken.
ExitWakesInit(p) == {InitProc : q \in {r \in Children(p) : state[r] = ZOMBIE}}

\* The processes exit() wakes: the parent, and init if it is given a zombie.
ExitWakes(p) == {parent[p]} \cup {InitProc : q \in {r \in Children(p) : state[r] = ZOMBIE}}

\* Mutant: the children are not given to init.
Abandon(p) == parent

\* "Pass abandoned children to init."
Reparent(p) == [q \in Slots |-> IF parent[q] = p THEN InitProc ELSE parent[q]]

\* The critical section of exit up to sched(): wake the parent, give the
\* children to init, waking it for a zombie, and become a zombie.
ExitLock(c, p) ==
    /\ On(c, p) /\ pc[p] = "exit_lock"
    /\ lock = NoCpu
    /\ lock' = c
    /\ state' = [Wakeup1(ExitWakes(p)) EXCEPT ![p] = ZOMBIE]
    /\ parent' = Reparent(p)
    /\ Goto(p, "sched_exit")
    /\ UNCHANGED <<pid, killed, chan, scheduler, kstack, nextpid, tickslock, ticks, cpu,
                   ret, np, ticks0, dur, upcalled, named, panicked>>

WaitCall(c, p) ==
    /\ Calling(c, p, "wait")
    /\ lock = NoCpu
    /\ lock' = c
    /\ Goto(p, "wait_scan")
    /\ UNCHANGED <<table, tickslock, ticks, cpu, ret, np, ticks0, dur, upcalled, named, panicked>>

\* Mutant: a child that gave up the CPU is taken for a zombie.
ZombiesOrReady(p) == {q \in Children(p) : state[q] \in {ZOMBIE, RUNNABLE, RUNNING}}

\* Mutant: wait() does not look at the parent.
ZombiesOfAnyone(p) == {q \in Slots \ {p} : state[q] = ZOMBIE}

\* The children wait() can reap.
Zombies(p) == {q \in Children(p) : state[q] = ZOMBIE}

\* One turn of wait's loop, with ptable.lock held: reap the first zombie,
\* give up, or go to sleep on the process itself.
WaitScan(c, p) ==
    /\ On(c, p) /\ pc[p] = "wait_scan"
    /\ \/ \E q \in Slots :
            /\ IsFirst(q, Zombies(p))
            /\ kstack' = [kstack EXCEPT ![q] = FALSE]
            /\ pid' = [pid EXCEPT ![q] = 0]
            /\ parent' = [parent EXCEPT ![q] = None]
            /\ killed' = [killed EXCEPT ![q] = FALSE]
            /\ state' = [state EXCEPT ![q] = UNUSED]
            /\ lock' = NoCpu
            /\ Goto(p, "sysret")
            /\ UNCHANGED chan
       \/ /\ Zombies(p) = {}
          /\ Children(p) = {} \/ killed[p]
          /\ lock' = NoCpu
          /\ Goto(p, "sysret")
          /\ UNCHANGED <<state, pid, parent, killed, chan, kstack>>
       \/ /\ Zombies(p) = {} /\ Children(p) # {} /\ ~killed[p]
          /\ chan' = [chan EXCEPT ![p] = p]
          /\ state' = [state EXCEPT ![p] = SLEEPING]
          /\ Goto(p, "sched_wait")
          /\ UNCHANGED <<pid, parent, killed, kstack, lock>>
    /\ UNCHANGED <<scheduler, nextpid, tickslock, ticks, cpu, ret, np, ticks0, dur, upcalled,
                   named, panicked>>

\* sleep() returns to wait with ptable.lock still held.
WaitWoken(c, p) ==
    /\ On(c, p) /\ pc[p] = "wait_woken"
    /\ chan' = [chan EXCEPT ![p] = None]
    /\ Goto(p, "wait_scan")
    /\ UNCHANGED <<state, pid, parent, killed, scheduler, kstack, nextpid, locks, ticks, cpu,
                   ret, np, ticks0, dur, upcalled, named, panicked>>

-----------------------------------------------------------------------------
(***************************************************************************)
(* kill, faults, uthread_init and the return from a system call.           *)
(***************************************************************************)

\* "Wake process from sleep if necessary."
KillWakes(q) == IF state[q] = SLEEPING THEN RUNNABLE ELSE state[q]

\* The loop of kill stops at the first slot with that pid, whatever its state.
KillCall(c, p, k) ==
    /\ Calling(c, p, "kill")
    /\ lock = NoCpu
    /\ \/ /\ \A q \in Slots : pid[q] # k
          /\ UNCHANGED <<killed, state>>
       \/ \E q \in Slots :
            /\ IsFirst(q, {r \in Slots : pid[r] = k})
            /\ killed' = [killed EXCEPT ![q] = TRUE]
            /\ state' = [state EXCEPT ![q] = KillWakes(q)]
    /\ named' = named \cup {k}
    /\ Goto(p, "sysret")
    /\ UNCHANGED <<pid, parent, chan, scheduler, kstack, nextpid, locks, ticks, cpu,
                   ret, np, ticks0, dur, upcalled, panicked>>

\* An unexpected trap from user space: the process is killed and exits.
Fault(c, p) ==
    /\ Calling(c, p, "fault")
    /\ killed' = [killed EXCEPT ![p] = TRUE]
    /\ named' = named \cup {pid[p]}
    /\ Goto(p, "exit")
    /\ UNCHANGED <<state, pid, parent, chan, scheduler, kstack, nextpid, locks, ticks, cpu,
                   ret, np, ticks0, dur, upcalled, panicked>>

UthreadInit(c, p) ==
    /\ Calling(c, p, "uthread_init")
    /\ scheduler' = [scheduler EXCEPT ![p] = TRUE]
    /\ Goto(p, "sysret")
    /\ UNCHANGED <<state, pid, parent, killed, chan, kstack, nextpid, locks, ticks, cpu,
                   ret, np, ticks0, dur, upcalled, named, panicked>>

\* The check of killed before syscall() in trap(): a killed process that makes
\* another system call.
KilledCall(c, p) ==
    /\ On(c, p) /\ pc[p] = "user" /\ killed[p]
    /\ Goto(p, "exit")
    /\ UNCHANGED <<table, locks, ticks, cpu, ret, np, ticks0, dur, upcalled, named, panicked>>

\* The check of killed after syscall(), and the return to user mode.
SysReturn(c, p) ==
    /\ On(c, p) /\ pc[p] = "sysret"
    /\ Goto(p, IF killed[p] THEN "exit" ELSE "user")
    /\ UNCHANGED <<table, locks, ticks, cpu, ret, np, ticks0, dur, upcalled, named, panicked>>

-----------------------------------------------------------------------------
(***************************************************************************)
(* sys_sleep and sleep().                                                  *)
(***************************************************************************)

SleepCall(c, p, n) ==
    /\ Calling(c, p, "sleep")
    /\ tickslock = NoCpu
    /\ tickslock' = c
    /\ ticks0' = [ticks0 EXCEPT ![p] = ticks]
    /\ dur' = [dur EXCEPT ![p] = n]
    /\ Goto(p, "sleep_check")
    /\ UNCHANGED <<table, lock, ticks, cpu, ret, np, upcalled, named, panicked>>

\* while(ticks - ticks0 < n), in unsigned arithmetic.
Pending(p) == (ticks - ticks0[p]) % TickMod < dur[p]

\* The loop test and the test of killed, with tickslock held.
SleepCheck(c, p) ==
    /\ On(c, p) /\ pc[p] = "sleep_check"
    /\ IF Pending(p) /\ ~killed[p]
       THEN Goto(p, "sleep_lock") /\ UNCHANGED <<tickslock, ticks0, dur>>
       ELSE /\ tickslock' = NoCpu
            /\ ticks0' = [ticks0 EXCEPT ![p] = 0]
            /\ dur' = [dur EXCEPT ![p] = 0]
            /\ Goto(p, "sysret")
    /\ UNCHANGED <<table, lock, ticks, cpu, ret, np, upcalled, named, panicked>>

\* Mutant: sleep() forgets to release the caller's lock.
SleepLockKeeps(c, p) ==
    /\ On(c, p) /\ pc[p] = "sleep_lock"
    /\ lock = NoCpu
    /\ lock' = c
    /\ tickslock' = c
    /\ chan' = [chan EXCEPT ![p] = TickChan]
    /\ state' = [state EXCEPT ![p] = SLEEPING]
    /\ Goto(p, "sched_sleep")
    /\ UNCHANGED <<pid, parent, killed, scheduler, kstack, nextpid, ticks, cpu,
                   ret, np, ticks0, dur, upcalled, named, panicked>>

\* sleep(&ticks, &tickslock): ptable.lock is taken before tickslock is
\* released.
SleepLock(c, p) ==
    /\ On(c, p) /\ pc[p] = "sleep_lock"
    /\ lock = NoCpu
    /\ lock' = c
    /\ tickslock' = NoCpu
    /\ chan' = [chan EXCEPT ![p] = TickChan]
    /\ state' = [state EXCEPT ![p] = SLEEPING]
    /\ Goto(p, "sched_sleep")
    /\ UNCHANGED <<pid, parent, killed, scheduler, kstack, nextpid, ticks, cpu,
                   ret, np, ticks0, dur, upcalled, named, panicked>>

SleepWoken(c, p) ==
    /\ On(c, p) /\ pc[p] = "sleep_woken"
    /\ chan' = [chan EXCEPT ![p] = None]
    /\ lock' = NoCpu
    /\ Goto(p, "sleep_relock")
    /\ UNCHANGED <<state, pid, parent, killed, scheduler, kstack, nextpid, tickslock, ticks, cpu,
                   ret, np, ticks0, dur, upcalled, named, panicked>>

SleepRelock(c, p) ==
    /\ On(c, p) /\ pc[p] = "sleep_relock"
    /\ tickslock = NoCpu
    /\ tickslock' = c
    /\ Goto(p, "sleep_check")
    /\ UNCHANGED <<table, lock, ticks, cpu, ret, np, ticks0, dur, upcalled, named, panicked>>

-----------------------------------------------------------------------------
(***************************************************************************)
(* sched, the scheduler, and the code a process runs when switched to.     *)
(***************************************************************************)

\* Where a process that calls sched() continues when it is switched to.
Resume == [sched_exit |-> "zombie", sched_wait |-> "wait_woken", sched_sleep |-> "sleep_woken",
           sched_yield1 |-> "yielded1", sched_yield2 |-> "yielded2"]

\* sched(): its assertions, then swtch to the scheduler's stack.
Sched(c, p) ==
    /\ On(c, p) /\ pc[p] \in DOMAIN Resume
    /\ IF lock # c \/ tickslock = c \/ state[p] = RUNNING
       THEN Panic
       ELSE /\ ctx' = [ctx EXCEPT ![c] = None]
            /\ Goto(p, Resume[pc[p]])
            /\ UNCHANGED <<table, locks, ticks, proc, pos, irq, ret, np, ticks0, dur, upcalled, named, panicked>>

InScheduler(c) == ctx[c] = None /\ irq[c] = "none"

SchedulerLock(c) ==
    /\ InScheduler(c) /\ pos[c] = None
    /\ lock = NoCpu
    /\ lock' = c
    /\ pos' = [pos EXCEPT ![c] = 1]
    /\ UNCHANGED <<table, tickslock, ticks, ctx, proc, irq, thread, named, panicked>>

\* The processes this round of the loop can still come to.
Ready(c) == {q \in Slots : q >= pos[c] /\ state[q] = RUNNABLE}

\* The loop runs on to the next RUNNABLE slot and switches to it.
SchedulerSwitch(c) ==
    /\ InScheduler(c) /\ pos[c] # None /\ proc[c] = None
    /\ \E q \in Slots :
         /\ IsFirst(q, Ready(c))
         /\ proc' = [proc EXCEPT ![c] = q]
         /\ state' = [state EXCEPT ![q] = RUNNING]
         /\ ctx' = [ctx EXCEPT ![c] = q]
         /\ pos' = [pos EXCEPT ![c] = q]
    /\ UNCHANGED <<pid, parent, killed, chan, scheduler, kstack, nextpid, locks, ticks, irq,
                   thread, named, panicked>>

\* Mutant: the loop steps over a slot, or starts again from the first.
SkipSlot(c) == pos[c] + 2
FirstSlot(c) == 1

\* p++
NextSlot(c) == pos[c] + 1

\* Back from swtch: "Process is done running for now."
SchedulerBack(c) ==
    /\ InScheduler(c) /\ proc[c] # None
    /\ proc' = [proc EXCEPT ![c] = None]
    /\ pos' = [pos EXCEPT ![c] = NextSlot(c)]
    /\ UNCHANGED <<table, locks, ticks, ctx, irq, thread, named, panicked>>

\* End of the loop over the table.
SchedulerUnlock(c) ==
    /\ InScheduler(c) /\ pos[c] # None /\ proc[c] = None
    /\ Ready(c) = {}
    /\ lock' = NoCpu
    /\ pos' = [pos EXCEPT ![c] = None]
    /\ UNCHANGED <<table, tickslock, ticks, ctx, proc, irq, thread, named, panicked>>

\* forkret: release the lock the scheduler took and enter user space.
Forkret(c, p) ==
    /\ On(c, p) /\ pc[p] = "forkret"
    /\ lock' = NoCpu
    /\ Goto(p, "user")
    /\ UNCHANGED <<table, tickslock, ticks, cpu, ret, np, ticks0, dur, upcalled, named, panicked>>

-----------------------------------------------------------------------------
(***************************************************************************)
(* The timer case of trap().                                               *)
(***************************************************************************)

\* Interrupts are enabled: in user mode, in system calls while no lock is
\* held, and in the scheduler between two rounds.
Interruptible(c) ==
    \/ InScheduler(c) /\ pos[c] = None
    \/ \E p \in Slots : On(c, p) /\ pc[p] \in {"user", "fork_kalloc", "fork_copy", "fork_run",
                                               "exit_lock", "sleep_relock", "sysret"}

TimerIrq(c) ==
    /\ Interruptible(c)
    /\ irq' = [irq EXCEPT ![c] = IF c = 0 THEN "tick" ELSE "dispatch"]
    /\ UNCHANGED <<table, locks, ticks, ctx, proc, pos, thread, named, panicked>>

\* CPU 0 counts the tick under tickslock ...
TickCount(c) ==
    /\ irq[c] = "tick"
    /\ tickslock = NoCpu
    /\ tickslock' = c
    /\ ticks' = (ticks + 1) % TickMod
    /\ irq' = [irq EXCEPT ![c] = "wake"]
    /\ UNCHANGED <<table, lock, ctx, proc, pos, thread, named, panicked>>

\* ... and wakes the sleepers on &ticks under ptable.lock.
TickWakeup(c) ==
    /\ irq[c] = "wake"
    /\ lock = NoCpu
    /\ state' = Wakeup1({TickChan})
    /\ tickslock' = NoCpu
    /\ irq' = [irq EXCEPT ![c] = "dispatch"]
    /\ UNCHANGED <<pid, parent, killed, chan, scheduler, kstack, nextpid, lock, ticks,
                   ctx, proc, pos, thread, named, panicked>>

\* Decide between an upcall and a yield.  An upcall whose copyout fails marks
\* the process killed and falls through to the yield.
TrapDispatch(c) ==
    /\ irq[c] = "dispatch"
    /\ irq' = [irq EXCEPT ![c] = "none"]
    /\ \/ proc[c] = None /\ UNCHANGED <<killed, thread, named>>
       \/ \E p \in Slots :
            /\ proc[c] = p
            /\ ret' = [ret EXCEPT ![p] = pc[p]]
            /\ LET user == pc[p] = "user" /\ state[p] = RUNNING /\ scheduler[p] IN
               \/ user /\ Goto(p, "trap_check1")
                       /\ upcalled' = [upcalled EXCEPT ![p] = TRUE]
                       /\ UNCHANGED <<killed, named>>
               \/ user /\ Goto(p, "trap_yield1")
                       /\ killed' = [killed EXCEPT ![p] = TRUE]
                       /\ named' = named \cup {pid[p]}
                       /\ UNCHANGED upcalled
               \/ ~user /\ Goto(p, "trap_yield1") /\ UNCHANGED <<killed, upcalled, named>>
            /\ UNCHANGED <<np, ticks0, dur>>
    /\ UNCHANGED <<state, pid, parent, chan, scheduler, kstack, nextpid, locks, ticks,
                   ctx, proc, pos, panicked>>

\* yield(): from the timer case itself, and again after the switch.
Yield(c, p) ==
    /\ On(c, p)
    /\ lock = NoCpu
    /\ \/ pc[p] = "trap_yield1" /\ Goto(p, "sched_yield1")
       \/ pc[p] = "trap_yield2" /\ Goto(p, "sched_yield2")
    /\ lock' = c
    /\ state' = [state EXCEPT ![p] = RUNNABLE]
    /\ UNCHANGED <<pid, parent, killed, chan, scheduler, kstack, nextpid, tickslock, ticks, cpu,
                   ret, np, ticks0, dur, upcalled, named, panicked>>

YieldBack(c, p) ==
    /\ On(c, p)
    /\ \/ pc[p] = "yielded1" /\ Goto(p, "trap_check1")
       \/ pc[p] = "yielded2" /\ Goto(p, "trap_check2")
    /\ lock' = NoCpu
    /\ UNCHANGED <<table, tickslock, ticks, cpu, ret, np, ticks0, dur, upcalled, named, panicked>>

\* Mutant: the checks of killed at the end of trap() are left out.
TrapCheckMissing(c, p) ==
    /\ On(c, p) /\ pc[p] \in {"trap_check1", "trap_check2"}
    /\ \/ pc[p] = "trap_check1" /\ Goto(p, "trap_yield2") /\ UNCHANGED <<ret, upcalled>>
       \/ /\ pc[p] = "trap_check2"
          /\ Goto(p, ret[p])
          /\ ret' = [ret EXCEPT ![p] = "user"]
          /\ upcalled' = [upcalled EXCEPT ![p] = FALSE]
    /\ UNCHANGED <<table, locks, ticks, cpu, np, ticks0, dur, named, panicked>>

\* A killed process that was interrupted in user mode exits; otherwise it
\* goes on to the yield at the end of trap(), and after that resumes.
TrapCheck(c, p) ==
    /\ On(c, p) /\ pc[p] \in {"trap_check1", "trap_check2"}
    /\ \/ /\ killed[p] /\ ret[p] = "user"
          /\ Goto(p, "exit")
          /\ UNCHANGED <<ret, upcalled>>
       \/ /\ ~(killed[p] /\ ret[p] = "user")
          /\ pc[p] = "trap_check1"
          /\ Goto(p, "trap_yield2")
          /\ UNCHANGED <<ret, upcalled>>
       \/ /\ ~(killed[p] /\ ret[p] = "user")
          /\ pc[p] = "trap_check2"
          /\ Goto(p, ret[p])
          /\ ret' = [ret EXCEPT ![p] = "user"]
          /\ upcalled' = [upcalled EXCEPT ![p] = FALSE]
    /\ UNCHANGED <<table, locks, ticks, cpu, np, ticks0, dur, named, panicked>>

-----------------------------------------------------------------------------
\* After userinit: the first process is RUNNABLE, the CPUs are in scheduler().
Init ==
    /\ state = [p \in Slots |-> IF p = InitProc THEN RUNNABLE ELSE UNUSED]
    /\ pid = [p \in Slots |-> IF p = InitProc THEN 1 ELSE 0]
    /\ parent = [p \in Slots |-> None]
    /\ killed = [p \in Slots |-> FALSE]
    /\ chan = [p \in Slots |-> None]
    /\ scheduler = [p \in Slots |-> FALSE]
    /\ kstack = [p \in Slots |-> p = InitProc]
    /\ nextpid = 2
    /\ lock = NoCpu
    /\ tickslock = NoCpu
    /\ ticks = 0
    /\ ctx = [c \in CPUs |-> None]
    /\ proc = [c \in CPUs |-> None]
    /\ pos = [c \in CPUs |-> None]
    /\ irq = [c \in CPUs |-> "none"]
    /\ pc = [p \in Slots |-> "forkret"]
    /\ ret = [p \in Slots |-> "user"]
    /\ np = [p \in Slots |-> None]
    /\ ticks0 = [p \in Slots |-> 0]
    /\ dur = [p \in Slots |-> 0]
    /\ upcalled = [p \in Slots |-> FALSE]
    /\ named = {}
    /\ panicked = FALSE

\* What user code decides to do.
UserStep(c, p) ==
    \/ ForkAlloc(c, p) \/ ExitCall(c, p) \/ WaitCall(c, p) \/ Fault(c, p) \/ UthreadInit(c, p)
    \/ KilledCall(c, p)
    \/ \E k \in KillArgs : KillCall(c, p, k)
    \/ \E n \in Durations : SleepCall(c, p, n)

\* The kernel code of a process that is on a CPU: the bodies of its system
\* calls and the way back to user space.
KernelStep(c, p) ==
    \/ ForkKalloc(c, p) \/ ForkCopy(c, p) \/ ForkRun(c, p)
    \/ ExitBegin(c, p) \/ ExitLock(c, p)
    \/ WaitScan(c, p) \/ WaitWoken(c, p)
    \/ SysReturn(c, p)
    \/ SleepCheck(c, p) \/ SleepLock(c, p) \/ SleepWoken(c, p) \/ SleepRelock(c, p)
    \/ Forkret(c, p)

\* The rest of a timer trap, and every switch to the scheduler.
SwitchStep(c, p) == Sched(c, p) \/ Yield(c, p) \/ YieldBack(c, p) \/ TrapCheck(c, p)

\* The scheduler of a CPU.
SchedulerStep(c) ==
    SchedulerLock(c) \/ SchedulerSwitch(c) \/ SchedulerBack(c) \/ SchedulerUnlock(c)

\* The timer handler of a CPU.
TickStep(c) == TickCount(c) \/ TickWakeup(c) \/ TrapDispatch(c)

\* A kernel that panicked stops where it is.
Next ==
    IF panicked
    THEN UNCHANGED vars
    ELSE \E c \in CPUs :
            \/ SchedulerStep(c) \/ TimerIrq(c) \/ TickStep(c)
            \/ \E p \in Slots : UserStep(c, p) \/ KernelStep(c, p) \/ SwitchStep(c, p)

Spec == Init /\ [][Next]_vars

\* Fairness: traps and switches run to their end; a pending tick is delivered
\* once interrupts are enabled, and leaves the interrupted code time to go on
\* before the next one; the loop of init.c keeps calling wait().  User code may
\* do anything else or nothing.  Nothing here makes a contended spinlock fair,
\* so the specification is meant for one CPU, the -smp 1 of run.sh.
FairSpec ==
    /\ Spec
    /\ \A c \in CPUs :
         /\ WF_vars(~panicked /\ (TickStep(c) \/ \E p \in Slots : SwitchStep(c, p)))
         /\ SF_vars(~panicked /\ SchedulerStep(c))
         /\ SF_vars(~panicked /\ TimerIrq(c))
         /\ SF_vars(~panicked /\ WaitCall(c, InitProc))
         /\ \A p \in Slots : SF_vars(~panicked /\ KernelStep(c, p))

-----------------------------------------------------------------------------
(***************************************************************************)
(* Properties.                                                             *)
(***************************************************************************)

\* Every field of the table, of the CPUs and of the locks keeps its type.
TypeOK ==
    /\ state \in [Slots -> States]
    /\ pid \in [Slots -> 0 .. MaxPid]
    /\ parent \in [Slots -> Slots \cup {None}]
    /\ killed \in [Slots -> BOOLEAN]
    /\ chan \in [Slots -> 0 .. TickChan]
    /\ scheduler \in [Slots -> BOOLEAN]
    /\ kstack \in [Slots -> BOOLEAN]
    /\ nextpid \in Nat
    /\ lock \in CPUs \cup {NoCpu} /\ tickslock \in CPUs \cup {NoCpu}
    /\ ticks \in 0 .. (TickMod - 1)
    /\ ctx \in [CPUs -> Slots \cup {None}] /\ proc \in [CPUs -> Slots \cup {None}]
    /\ pos \in [CPUs -> 0 .. (NPROC + 1)]
    /\ irq \in [CPUs -> {"none", "tick", "wake", "dispatch"}]
    /\ np \in [Slots -> Slots \cup {None}]
    /\ panicked \in BOOLEAN

\* No two CPUs ever execute on the same kernel stack.
OneCpuPerStack == \A c, d \in CPUs : (c # d /\ ctx[c] # None) => ctx[c] # ctx[d]

\* wait() never frees the kernel stack of a process that a CPU is still
\* executing on, and nobody runs in a slot that is not set up.
StackInUseIsAllocated ==
    \A c \in CPUs : ctx[c] # None => kstack[ctx[c]] /\ state[ctx[c]] \notin {UNUSED, EMBRYO}

\* When ptable.lock is free, RUNNING is exactly "is the proc of some CPU".
RunningIsOnCpu ==
    lock = NoCpu => \A p \in Slots : state[p] = RUNNING <=> \E c \in CPUs : proc[c] = p

\* A kernel stack belongs to one CPU at a time, is not freed under it, and the
\* states of the table say which ones are in use.
StacksSafe == OneCpuPerStack /\ StackInUseIsAllocated /\ RunningIsOnCpu

\* No wakeup is lost: a process asleep in wait() has a child to wait for, none
\* of its children is a zombie and it has not been killed; a process asleep in
\* sys_sleep still has ticks to wait for, unless the handler of CPU 0 is about
\* to wake it.
NoLostWakeup ==
    lock = NoCpu =>
        \A p \in Slots : state[p] = SLEEPING =>
            /\ chan[p] = p => Children(p) # {} /\ Zombies(p) = {} /\ ~killed[p]
            /\ chan[p] = TickChan => Pending(p) \/ \E c \in CPUs : irq[c] = "wake"

\* Every process but the first always has a parent that can still wait for it.
NoOrphans ==
    lock = NoCpu =>
        \A p \in Slots \ {InitProc} : state[p] \notin {UNUSED, EMBRYO} =>
            parent[p] # None /\ state[parent[p]] \notin {UNUSED, EMBRYO, ZOMBIE}

\* No two slots in use have the same pid.
PidsUnique ==
    \A p, q \in Slots : (p # q /\ state[p] # UNUSED /\ state[q] # UNUSED) => pid[p] # pid[q]

\* exit() and fork() keep the family tree whole: whoever can become a zombie
\* has somebody alive to wait for it, and wait() tells its children apart.
FamilyIntact == NoOrphans /\ PidsUnique

\* The kernel panics only when the first process exits ("init exiting"): the
\* lock, lock depth and state that sched() asserts are right wherever a call, a
\* tick or a kill leads to it.
PanicOnlyForInit == panicked => pc[InitProc] = "exit" /\ \E c \in CPUs : On(c, InitProc)

\* A zombie never runs again: it stays one until a CPU executing its parent
\* frees the slot.
ZombieFinal ==
    [][\A p \in Slots : state[p] = ZOMBIE =>
          \/ state'[p] = ZOMBIE
          \/ state'[p] = UNUSED /\ \E c \in CPUs : lock = c /\ ctx[c] = parent[p]]_vars

\* The scheduler starves nobody: a RUNNABLE process runs, unless the kernel
\* panics.
NoStarvation == \A p \in Slots : (state[p] = RUNNABLE) ~> (state[p] = RUNNING \/ panicked)

\* A killed process dies, even one that sleeps in wait() or that never makes a
\* system call.
KilledDies ==
    \A p \in Slots : (killed[p] /\ state[p] \notin {UNUSED, EMBRYO}) ~> (state[p] = ZOMBIE \/ panicked)

\* A zombie that was given to init is eventually reaped.
OrphanReaped ==
    \A p \in Slots : (state[p] = ZOMBIE /\ parent[p] = InitProc) ~> (state[p] = UNUSED \/ panicked)

\* Only a process whose pid was named by a kill, or that misbehaved, is killed.
KilledWasNamed ==
    \A p \in Slots : (killed[p] /\ state[p] # UNUSED) => pid[p] \in named

\* A tick that was turned into an upcall does not also yield the CPU.
UpcallSkipsYield == \A p \in Slots : upcalled[p] => pc[p] # "sched_yield2"
=============================================================================
