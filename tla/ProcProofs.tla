----------------------------- MODULE ProcProofs -----------------------------
(***************************************************************************)
(* Proofs about Proc for any number of slots and processors: kernel stacks *)
(* are never shared or freed under a CPU, wakeups are not lost, the family *)
(* tree stays whole, a zombie never runs, and only the end of the first    *)
(* process makes the kernel panic.                                         *)
(***************************************************************************)
EXTENDS Proc, TLAPS

-----------------------------------------------------------------------------
(***************************************************************************)
(* The inductive invariant.                                                *)
(***************************************************************************)

\* A process that calls sched() with ptable.lock held, and one that returns
\* from swtch with the lock the scheduler of its CPU took.
Switching == {"sched_exit", "sched_wait", "sched_sleep", "sched_yield1", "sched_yield2"}
Woken     == {"wait_woken", "sleep_woken", "yielded1", "yielded2", "forkret"}

\* Code that holds ptable.lock, and code that holds tickslock.
LockLabels == {"wait_scan"} \cup Switching \cup Woken
TickLabels == {"sleep_check", "sleep_lock"}

\* Code the timer can interrupt, and the trap that then runs.
IrqLabels  == {"user", "fork_kalloc", "fork_copy", "fork_run", "exit_lock", "sleep_relock", "sysret"}
TrapLabels == {"trap_yield1", "trap_yield2", "trap_check1", "trap_check2",
               "sched_yield1", "sched_yield2", "yielded1", "yielded2"}

ForkLabels == {"fork_kalloc", "fork_copy", "fork_run"}
RunLabels  == IrqLabels \cup TickLabels \cup Woken \cup
              {"exit", "wait_scan", "trap_yield1", "trap_yield2", "trap_check1", "trap_check2"}
Labels     == RunLabels \cup Switching \cup {"zombie"}

\* What TypeOK leaves out.
Locals ==
    /\ pc \in [Slots -> Labels] /\ ret \in [Slots -> IrqLabels]
    /\ ticks0 \in [Slots -> Nat] /\ dur \in [Slots -> Nat]

\* A CPU is on the stack of its own process or on that of its scheduler; the
\* loop of the scheduler stands at that process; a trap interrupts only code
\* that holds no lock.
CpusOK ==
    /\ OneCpuPerStack
    /\ \A c \in CPUs :
          /\ ctx[c] \in {None, proc[c]}
          /\ proc[c] # None => pos[c] = proc[c]
          /\ irq[c] # "none" => IF ctx[c] = None THEN pos[c] = None ELSE pc[ctx[c]] \in IrqLabels

\* The code CPU c executes is inside a critical section.
Holds(c)      == IF ctx[c] = None THEN pos[c] # None ELSE pc[ctx[c]] \in LockLabels
HoldsTicks(c) == irq[c] = "wake" \/ (ctx[c] # None /\ pc[ctx[c]] \in TickLabels)

\* A CPU holds a lock exactly while its code is between acquire and release,
\* across the switches of stacks too.
LocksOK == \A c \in CPUs : (lock = c <=> Holds(c)) /\ (tickslock = c <=> HoldsTicks(c))

OnStack(p) == \E c \in CPUs : ctx[c] = p

\* Asleep in wait() or in sys_sleep, at these labels.
Asleep(p, w, s) ==
    state[p] = SLEEPING /\ ((pc[p] = w /\ chan[p] = p) \/ (pc[p] = s /\ chan[p] = TickChan))

\* The state of a process some CPU executes: RUNNING up to the critical
\* section in which it leaves its stack.
Executing(p) ==
    \/ state[p] = RUNNING /\ pc[p] \in RunLabels
    \/ state[p] = ZOMBIE /\ pc[p] = "sched_exit"
    \/ Asleep(p, "sched_wait", "sched_sleep")
    \/ state[p] = RUNNABLE /\ pc[p] \in {"sched_yield1", "sched_yield2"}

\* The state of a process no CPU executes, or of a slot without one.
Parked(p) ==
    \/ state[p] \in {UNUSED, EMBRYO} /\ pc[p] \in {"forkret", "zombie"}
    \/ state[p] = ZOMBIE /\ pc[p] = "zombie"
    \/ Asleep(p, "wait_woken", "sleep_woken")
    \/ state[p] = RUNNABLE /\ pc[p] \in Woken

StatesOK ==
    \A p \in Slots :
        /\ IF OnStack(p) THEN Executing(p) ELSE Parked(p)
        /\ state[p] \notin {UNUSED, EMBRYO} => kstack[p]

\* Where a process is in its own code, also while a trap interrupts it.
At(p) == IF pc[p] \in TrapLabels THEN ret[p] ELSE pc[p]

\* A fork in progress owns one EMBRYO and has done to it what the label says.
ForksOK ==
    \A p \in Slots :
        /\ np[p] # None <=> At(p) \in ForkLabels
        /\ np[p] # None =>
             /\ state[np[p]] = EMBRYO
             /\ At(p) # "fork_kalloc" => kstack[np[p]] /\ pc[np[p]] = "forkret"
             /\ parent[np[p]] = (IF At(p) = "fork_run" THEN p ELSE None)
             /\ \A q \in Slots : np[q] = np[p] => q = p

Live == {SLEEPING, RUNNABLE, RUNNING}

\* The first process never gets past the start of exit().
InitOK ==
    /\ parent[InitProc] = None /\ state[InitProc] \in Live
    /\ At(InitProc) \notin {"exit_lock", "sched_exit", "zombie"}

\* Any other process has a living parent.
FamilyOK ==
    \A p \in Slots \ {InitProc} :
        /\ parent[p] # p
        /\ state[p] = UNUSED => parent[p] = None
        /\ state[p] = EMBRYO /\ parent[p] # None => np[parent[p]] = p
        /\ state[p] \notin {UNUSED, EMBRYO} => parent[p] # None /\ state[parent[p]] \in Live

PidsOK == PidsUnique /\ \A p \in Slots : pid[p] < nextpid

\* Whoever sleeps has a reason to; the last test of sys_sleep is still true
\* when it calls sleep().
SleepersOK ==
    \A p \in Slots :
        /\ state[p] = SLEEPING /\ chan[p] = p => Children(p) # {} /\ Zombies(p) = {} /\ ~killed[p]
        /\ state[p] = SLEEPING /\ chan[p] = TickChan => Pending(p) \/ \E c \in CPUs : irq[c] = "wake"
        /\ pc[p] = "sleep_lock" => Pending(p)

Types   == TypeOK /\ Locals
Machine == CpusOK /\ LocksOK
People  == ForksOK /\ InitOK /\ FamilyOK /\ PidsOK
IInv    == Types /\ Machine /\ StatesOK /\ People /\ SleepersOK

-----------------------------------------------------------------------------
(***************************************************************************)
(* Lemmas.                                                                 *)
(***************************************************************************)

LEMMA Numbers ==
    /\ NoCpu \notin CPUs /\ None \notin Slots /\ InitProc \in Slots
    /\ TickChan \notin Slots /\ TickChan # None
    /\ Slots \subseteq 0 .. (NPROC + 1) /\ Slots \subseteq 0 .. TickChan
    /\ {None, TickChan} \subseteq 0 .. TickChan /\ {None, InitProc} \subseteq 0 .. (NPROC + 1)
    /\ \A q \in Slots : q + 1 \in 0 .. (NPROC + 1)
  BY ProcAssumption DEF NoCpu, CPUs, None, Slots, InitProc, TickChan

\* CPU c executes p: no other CPU does, and p is where its state says.
LEMMA Executes ==
    ASSUME IInv, NEW c \in CPUs, NEW p \in Slots, On(c, p)
    PROVE  /\ ctx[c] = p /\ irq[c] = "none" /\ p # None
           /\ \A d \in CPUs : ctx[d] = p => d = c
           /\ OnStack(p) /\ Executing(p)
           /\ lock = c <=> pc[p] \in LockLabels
           /\ tickslock = c <=> pc[p] \in TickLabels
  <1>1. ctx[c] = p /\ irq[c] = "none" /\ p # None
    BY Numbers DEF On
  <1>2. \A d \in CPUs : ctx[d] = p => d = c
    BY <1>1 DEF IInv, Machine, CpusOK, OneCpuPerStack
  <1>3. OnStack(p) /\ Executing(p)
    BY <1>1 DEF IInv, StatesOK, OnStack
  <1>4. (lock = c <=> Holds(c)) /\ (tickslock = c <=> HoldsTicks(c))
    BY DEF IInv, Machine, LocksOK
  <1> QED
    BY <1>1, <1>2, <1>3, <1>4 DEF Holds, HoldsTicks

\* While ptable.lock is not held by another CPU, no other process is leaving
\* its stack: those that sleep, are ready or dead are off their stacks.
LEMMA LockExcludes ==
    ASSUME IInv, NEW c \in CPUs, lock \in {c, NoCpu}, NEW d \in CPUs, d # c, NEW q \in Slots, ctx[d] = q
    PROVE  state[q] = RUNNING
  <1>1. lock # d
    BY Numbers
  <1>2. pc[q] \notin LockLabels
    BY <1>1, Numbers DEF IInv, Machine, LocksOK, Holds
  <1>3. Executing(q)
    BY DEF IInv, StatesOK, OnStack
  <1> QED
    BY <1>2, <1>3 DEF Executing, Asleep, LockLabels, Switching

\* A process moves on in its code while its CPU stays on its stack.
LEMMA MoveCpus ==
    ASSUME IInv, NEW c \in CPUs, NEW p \in Slots, On(c, p), UNCHANGED cpu,
           NEW l, pc' = [pc EXCEPT ![p] = l]
    PROVE  CpusOK'
  <1>1. irq[c] = "none" /\ \A d \in CPUs : ctx[d] = p => d = c
    BY Executes
  <1>2. \A d \in CPUs : irq[d] # "none" /\ ctx[d] # None => pc'[ctx[d]] = pc[ctx[d]]
    BY <1>1 DEF IInv, Types, TypeOK, Locals
  <1> QED
    BY <1>1, <1>2 DEF cpu, IInv, Machine, CpusOK, OneCpuPerStack

\* It takes or releases the locks that its labels say.
LEMMA MoveLocks ==
    ASSUME IInv, NEW c \in CPUs, NEW p \in Slots, On(c, p), UNCHANGED cpu,
           NEW l \in Labels, pc' = [pc EXCEPT ![p] = l],
           \A d \in CPUs \ {c} : lock' = d <=> lock = d,
           lock' = c <=> l \in LockLabels,
           \A d \in CPUs \ {c} : tickslock' = d <=> tickslock = d,
           tickslock' = c <=> l \in TickLabels
    PROVE  LocksOK'
  <1>1. ctx[c] = p /\ irq[c] = "none" /\ p # None /\ \A d \in CPUs : ctx[d] = p => d = c
    BY Executes
  <1>2. pc'[p] = l /\ \A q \in Slots \ {p} : pc'[q] = pc[q]
    BY DEF IInv, Types, Locals
  <1>3. (lock' = c <=> Holds(c)') /\ (tickslock' = c <=> HoldsTicks(c)')
    BY <1>1, <1>2 DEF cpu, Holds, HoldsTicks
  <1>4. ASSUME NEW d \in CPUs \ {c}
        PROVE  (lock' = d <=> Holds(d)') /\ (tickslock' = d <=> HoldsTicks(d)')
    <2>1. (lock' = d <=> lock = d) /\ (tickslock' = d <=> tickslock = d)
      OBVIOUS
    <2>2. ctx[d] # None => pc'[ctx[d]] = pc[ctx[d]]
      BY <1>1, <1>2 DEF IInv, Types, TypeOK
    <2> QED
      BY <2>1, <2>2 DEF IInv, Machine, LocksOK, Holds, HoldsTicks, cpu
  <1> QED
    BY <1>3, <1>4 DEF LocksOK

\* A process moves on and changes nothing another process depends on.
Quietly(c, p, l) ==
    /\ On(c, p) /\ pc[p] \in RunLabels /\ l \in RunLabels /\ pc' = [pc EXCEPT ![p] = l]
    /\ lock' = c <=> l \in LockLabels
    /\ tickslock' = c <=> l \in TickLabels
    /\ \A d \in CPUs \ {c} : (lock' = d <=> lock = d) /\ (tickslock' = d <=> tickslock = d)
    /\ UNCHANGED <<state, parent, kstack, np, pid, nextpid, ticks, ctx, proc, pos, irq, panicked>>
    /\ \A q \in Slots \ {p} : /\ ret'[q] = ret[q] /\ killed'[q] = killed[q] /\ chan'[q] = chan[q]
                              /\ ticks0'[q] = ticks0[q] /\ dur'[q] = dur[q]
    /\ killed[p] => killed'[p]
    /\ At(p)' = At(p) \/ (At(p) \notin ForkLabels /\ At(p)' \notin ForkLabels)
    /\ p = InitProc => At(p)' \notin {"exit_lock", "sched_exit", "zombie"}
    /\ l = "sleep_lock" => Pending(p)'

LEMMA MoveQuietly ==
    ASSUME IInv, NEW c \in CPUs, NEW p \in Slots, NEW l, Quietly(c, p, l)
    PROVE  Machine' /\ StatesOK' /\ People' /\ SleepersOK'
  <1> USE DEF Quietly
  <1>1. Machine'
    BY MoveCpus, MoveLocks DEF Machine, Labels, cpu
  <1>2. pc'[p] = l /\ \A q \in Slots \ {p} : pc'[q] = pc[q] /\ At(q)' = At(q)
    BY DEF IInv, Types, Locals, At
  <1>3. state[p] = RUNNING /\ OnStack(p)
    BY Executes DEF Executing, Asleep, RunLabels, IrqLabels, TickLabels, Woken
  <1>4. StatesOK'
    <2>1. \A q \in Slots : OnStack(q)' <=> OnStack(q)
      BY DEF cpu, OnStack
    <2>2. Executing(p)'
      BY <1>2, <1>3 DEF Executing
    <2>3. \A q \in Slots \ {p} : (Executing(q)' <=> Executing(q)) /\ (Parked(q)' <=> Parked(q))
      BY <1>2 DEF Executing, Parked, Asleep
    <2> QED
      BY <1>3, <2>1, <2>2, <2>3 DEF IInv, StatesOK
  <1>5. ForksOK'
    <2>1. \A q \in Slots : /\ At(q)' = At(q) \/ (At(q) \notin ForkLabels /\ At(q)' \notin ForkLabels)
                           /\ np'[q] = np[q] /\ parent'[q] = parent[q] /\ kstack'[q] = kstack[q]
                           /\ state'[q] = state[q]
      BY <1>2
    <2>2. \A q \in Slots : np[q] # None => np[q] \in Slots \ {p}
      BY <1>3 DEF IInv, People, ForksOK, Types, TypeOK, RUNNING, EMBRYO
    <2> QED
      BY <1>2, <2>1, <2>2 DEF IInv, People, ForksOK, ForkLabels
  <1>6. InitOK'
    BY <1>2, Numbers DEF IInv, People, InitOK
  <1>7. FamilyOK' /\ PidsOK'
    BY DEF IInv, People, FamilyOK, PidsOK, PidsUnique
  <1>8. SleepersOK'
    <2>1. \A q \in Slots : Children(q)' = Children(q) /\ Zombies(q)' = Zombies(q)
      BY DEF Children, Zombies
    <2>2. \A q \in Slots \ {p} : Pending(q)' <=> Pending(q)
      BY DEF Pending
    <2> QED
      BY <1>2, <1>3, <2>1, <2>2 DEF IInv, SleepersOK, cpu, RUNNING, SLEEPING
  <1> QED
    BY <1>1, <1>4, <1>5, <1>6, <1>7, <1>8 DEF People

-----------------------------------------------------------------------------
(***************************************************************************)
(* The quiet steps.                                                        *)
(***************************************************************************)

LEMMA StepExitCall ==
    ASSUME IInv, NEW c \in CPUs, NEW p \in Slots, ExitCall(c, p)
    PROVE  IInv'
  <1>1. /\ On(c, p) /\ pc[p] = "user" /\ pc' = [pc EXCEPT ![p] = "exit"]
        /\ UNCHANGED <<table, locks, ticks, cpu, ret, np, ticks0, dur, named, panicked>>
    BY DEF ExitCall, Goto, Calling
  <1>2. Types'
    BY <1>1 DEF IInv, Types, TypeOK, Locals, table, locks, cpu, Labels, RunLabels, IrqLabels,
       TrapLabels, ForkLabels, LockLabels, TickLabels, Switching, Woken
  <1>3. pc'[p] = "exit"
    BY <1>1 DEF IInv, Types, TypeOK, Locals
  <1>4. (lock = c <=> pc[p] \in LockLabels) /\ (tickslock = c <=> pc[p] \in TickLabels)
    BY <1>1, Executes
  <1>5. Quietly(c, p, "exit")
    BY <1>1, <1>3, <1>4, Numbers DEF Quietly, IInv, Types, TypeOK, Locals, At, table, locks, cpu,
       RunLabels, IrqLabels, TrapLabels, ForkLabels, LockLabels, TickLabels, Switching, Woken
  <1> QED
    BY <1>2, <1>5, MoveQuietly DEF IInv

LEMMA StepWaitCall ==
    ASSUME IInv, NEW c \in CPUs, NEW p \in Slots, WaitCall(c, p)
    PROVE  IInv'
  <1>1. /\ On(c, p) /\ pc[p] = "user" /\ pc' = [pc EXCEPT ![p] = "wait_scan"]
        /\ lock = NoCpu /\ lock' = c
        /\ UNCHANGED <<table, tickslock, ticks, cpu, ret, np, ticks0, dur, named, panicked>>
    BY DEF WaitCall, Goto, Calling
  <1>2. Types'
    BY <1>1 DEF IInv, Types, TypeOK, Locals, table, cpu, Labels, RunLabels, IrqLabels,
       TrapLabels, ForkLabels, LockLabels, TickLabels, Switching, Woken
  <1>3. pc'[p] = "wait_scan"
    BY <1>1 DEF IInv, Types, TypeOK, Locals
  <1>4. (lock = c <=> pc[p] \in LockLabels) /\ (tickslock = c <=> pc[p] \in TickLabels)
    BY <1>1, Executes
  <1>5. Quietly(c, p, "wait_scan")
    BY <1>1, <1>3, <1>4, Numbers DEF Quietly, IInv, Types, TypeOK, Locals, At, table, cpu,
       RunLabels, IrqLabels, TrapLabels, ForkLabels, LockLabels, TickLabels, Switching, Woken
  <1> QED
    BY <1>2, <1>5, MoveQuietly DEF IInv

LEMMA StepWaitWoken ==
    ASSUME IInv, NEW c \in CPUs, NEW p \in Slots, WaitWoken(c, p)
    PROVE  IInv'
  <1>1. /\ On(c, p) /\ pc[p] = "wait_woken" /\ pc' = [pc EXCEPT ![p] = "wait_scan"]
        /\ chan' = [chan EXCEPT ![p] = None]
        /\ UNCHANGED <<state, pid, parent, killed, scheduler, kstack, nextpid, locks, ticks, cpu,
                       ret, np, ticks0, dur, panicked>>
    BY DEF WaitWoken, Goto
  <1>2. Types'
    BY <1>1, Numbers DEF IInv, Types, TypeOK, Locals, locks, cpu, Labels, RunLabels, IrqLabels,
       TrapLabels, ForkLabels, LockLabels, TickLabels, Switching, Woken
  <1>3. pc'[p] = "wait_scan"
    BY <1>1 DEF IInv, Types, TypeOK, Locals
  <1>4. (lock = c <=> pc[p] \in LockLabels) /\ (tickslock = c <=> pc[p] \in TickLabels)
    BY <1>1, Executes
  <1>5. Quietly(c, p, "wait_scan")
    BY <1>1, <1>3, <1>4, Numbers DEF Quietly, IInv, Types, TypeOK, Locals, At, locks, cpu,
       RunLabels, IrqLabels, TrapLabels, ForkLabels, LockLabels, TickLabels, Switching, Woken
  <1> QED
    BY <1>2, <1>5, MoveQuietly DEF IInv

LEMMA StepFault ==
    ASSUME IInv, NEW c \in CPUs, NEW p \in Slots, Fault(c, p)
    PROVE  IInv'
  <1>1. /\ On(c, p) /\ pc[p] = "user" /\ pc' = [pc EXCEPT ![p] = "exit"]
        /\ killed' = [killed EXCEPT ![p] = TRUE]
        /\ UNCHANGED <<state, pid, parent, chan, scheduler, kstack, nextpid, locks, ticks, cpu,
                       ret, np, ticks0, dur, panicked>>
    BY DEF Fault, Goto, Calling
  <1>2. Types'
    BY <1>1 DEF IInv, Types, TypeOK, Locals, locks, cpu, Labels, RunLabels, IrqLabels,
       TrapLabels, ForkLabels, LockLabels, TickLabels, Switching, Woken
  <1>3. pc'[p] = "exit" /\ killed'[p]
    BY <1>1 DEF IInv, Types, TypeOK, Locals
  <1>4. (lock = c <=> pc[p] \in LockLabels) /\ (tickslock = c <=> pc[p] \in TickLabels)
    BY <1>1, Executes
  <1>5. Quietly(c, p, "exit")
    BY <1>1, <1>3, <1>4, Numbers DEF Quietly, IInv, Types, TypeOK, Locals, At, locks, cpu,
       RunLabels, IrqLabels, TrapLabels, ForkLabels, LockLabels, TickLabels, Switching, Woken
  <1> QED
    BY <1>2, <1>5, MoveQuietly DEF IInv

LEMMA StepUthreadInit ==
    ASSUME IInv, NEW c \in CPUs, NEW p \in Slots, UthreadInit(c, p)
    PROVE  IInv'
  <1>1. /\ On(c, p) /\ pc[p] = "user" /\ pc' = [pc EXCEPT ![p] = "sysret"]
        /\ scheduler' = [scheduler EXCEPT ![p] = TRUE]
        /\ UNCHANGED <<state, pid, parent, killed, chan, kstack, nextpid, locks, ticks, cpu,
                       ret, np, ticks0, dur, panicked>>
    BY DEF UthreadInit, Goto, Calling
  <1>2. Types'
    BY <1>1 DEF IInv, Types, TypeOK, Locals, locks, cpu, Labels, RunLabels, IrqLabels,
       TrapLabels, ForkLabels, LockLabels, TickLabels, Switching, Woken
  <1>3. pc'[p] = "sysret"
    BY <1>1 DEF IInv, Types, TypeOK, Locals
  <1>4. (lock = c <=> pc[p] \in LockLabels) /\ (tickslock = c <=> pc[p] \in TickLabels)
    BY <1>1, Executes
  <1>5. Quietly(c, p, "sysret")
    BY <1>1, <1>3, <1>4, Numbers DEF Quietly, IInv, Types, TypeOK, Locals, At, locks, cpu,
       RunLabels, IrqLabels, TrapLabels, ForkLabels, LockLabels, TickLabels, Switching, Woken
  <1> QED
    BY <1>2, <1>5, MoveQuietly DEF IInv

LEMMA StepSleepCall ==
    ASSUME IInv, NEW c \in CPUs, NEW p \in Slots, NEW n \in Durations, SleepCall(c, p, n)
    PROVE  IInv'
  <1>1. /\ On(c, p) /\ pc[p] = "user" /\ pc' = [pc EXCEPT ![p] = "sleep_check"]
        /\ tickslock = NoCpu /\ tickslock' = c
        /\ ticks0' = [ticks0 EXCEPT ![p] = ticks]
        /\ dur' = [dur EXCEPT ![p] = n]
        /\ UNCHANGED <<table, lock, ticks, cpu, ret, np, panicked>>
    BY DEF SleepCall, Goto, Calling
  <1>2. Types'
    BY <1>1, ProcAssumption DEF IInv, Types, TypeOK, Locals, table, cpu, Labels, RunLabels,
       IrqLabels, TrapLabels, ForkLabels, LockLabels, TickLabels, Switching, Woken
  <1>3. pc'[p] = "sleep_check"
    BY <1>1 DEF IInv, Types, TypeOK, Locals
  <1>4. (lock = c <=> pc[p] \in LockLabels) /\ (tickslock = c <=> pc[p] \in TickLabels)
    BY <1>1, Executes
  <1>5. Quietly(c, p, "sleep_check")
    BY <1>1, <1>3, <1>4, Numbers DEF Quietly, IInv, Types, TypeOK, Locals, At, table, cpu,
       RunLabels, IrqLabels, TrapLabels, ForkLabels, LockLabels, TickLabels, Switching, Woken
  <1> QED
    BY <1>2, <1>5, MoveQuietly DEF IInv

LEMMA StepSleepWoken ==
    ASSUME IInv, NEW c \in CPUs, NEW p \in Slots, SleepWoken(c, p)
    PROVE  IInv'
  <1>1. /\ On(c, p) /\ pc[p] = "sleep_woken" /\ pc' = [pc EXCEPT ![p] = "sleep_relock"]
        /\ chan' = [chan EXCEPT ![p] = None] /\ lock' = NoCpu
        /\ UNCHANGED <<state, pid, parent, killed, scheduler, kstack, nextpid, tickslock, ticks, cpu,
                       ret, np, ticks0, dur, panicked>>
    BY DEF SleepWoken, Goto
  <1>2. Types'
    BY <1>1, Numbers DEF IInv, Types, TypeOK, Locals, cpu, Labels, RunLabels, IrqLabels,
       TrapLabels, ForkLabels, LockLabels, TickLabels, Switching, Woken
  <1>3. pc'[p] = "sleep_relock"
    BY <1>1 DEF IInv, Types, TypeOK, Locals
  <1>4. (lock = c <=> pc[p] \in LockLabels) /\ (tickslock = c <=> pc[p] \in TickLabels)
    BY <1>1, Executes
  <1>5. Quietly(c, p, "sleep_relock")
    BY <1>1, <1>3, <1>4, Numbers DEF Quietly, IInv, Types, TypeOK, Locals, At, cpu, RunLabels,
       IrqLabels, TrapLabels, ForkLabels, LockLabels, TickLabels, Switching, Woken
  <1> QED
    BY <1>2, <1>5, MoveQuietly DEF IInv

LEMMA StepSleepRelock ==
    ASSUME IInv, NEW c \in CPUs, NEW p \in Slots, SleepRelock(c, p)
    PROVE  IInv'
  <1>1. /\ On(c, p) /\ pc[p] = "sleep_relock" /\ pc' = [pc EXCEPT ![p] = "sleep_check"]
        /\ tickslock = NoCpu /\ tickslock' = c
        /\ UNCHANGED <<table, lock, ticks, cpu, ret, np, ticks0, dur, panicked>>
    BY DEF SleepRelock, Goto
  <1>2. Types'
    BY <1>1 DEF IInv, Types, TypeOK, Locals, table, cpu, Labels, RunLabels, IrqLabels,
       TrapLabels, ForkLabels, LockLabels, TickLabels, Switching, Woken
  <1>3. pc'[p] = "sleep_check"
    BY <1>1 DEF IInv, Types, TypeOK, Locals
  <1>4. (lock = c <=> pc[p] \in LockLabels) /\ (tickslock = c <=> pc[p] \in TickLabels)
    BY <1>1, Executes
  <1>5. Quietly(c, p, "sleep_check")
    BY <1>1, <1>3, <1>4, Numbers DEF Quietly, IInv, Types, TypeOK, Locals, At, table, cpu,
       RunLabels, IrqLabels, TrapLabels, ForkLabels, LockLabels, TickLabels, Switching, Woken
  <1> QED
    BY <1>2, <1>5, MoveQuietly DEF IInv

LEMMA StepForkret ==
    ASSUME IInv, NEW c \in CPUs, NEW p \in Slots, Forkret(c, p)
    PROVE  IInv'
  <1>1. /\ On(c, p) /\ pc[p] = "forkret" /\ pc' = [pc EXCEPT ![p] = "user"]
        /\ lock' = NoCpu
        /\ UNCHANGED <<table, tickslock, ticks, cpu, ret, np, ticks0, dur, panicked>>
    BY DEF Forkret, Goto
  <1>2. Types'
    BY <1>1 DEF IInv, Types, TypeOK, Locals, table, cpu, Labels, RunLabels, IrqLabels,
       TrapLabels, ForkLabels, LockLabels, TickLabels, Switching, Woken
  <1>3. pc'[p] = "user"
    BY <1>1 DEF IInv, Types, TypeOK, Locals
  <1>4. (lock = c <=> pc[p] \in LockLabels) /\ (tickslock = c <=> pc[p] \in TickLabels)
    BY <1>1, Executes
  <1>5. Quietly(c, p, "user")
    BY <1>1, <1>3, <1>4, Numbers DEF Quietly, IInv, Types, TypeOK, Locals, At, table, cpu,
       RunLabels, IrqLabels, TrapLabels, ForkLabels, LockLabels, TickLabels, Switching, Woken
  <1> QED
    BY <1>2, <1>5, MoveQuietly DEF IInv

LEMMA StepSysReturn ==
    ASSUME IInv, NEW c \in CPUs, NEW p \in Slots, SysReturn(c, p) \/ KilledCall(c, p)
    PROVE  IInv'
  <1>1. PICK l \in {"exit", "user"} :
           /\ On(c, p) /\ pc[p] \in {"user", "sysret"} /\ pc' = [pc EXCEPT ![p] = l]
           /\ UNCHANGED <<table, locks, ticks, cpu, ret, np, ticks0, dur, panicked>>
    BY DEF SysReturn, KilledCall, Goto
  <1>2. Types'
    BY <1>1 DEF IInv, Types, TypeOK, Locals, table, locks, cpu, Labels, RunLabels, IrqLabels,
       TrapLabels, ForkLabels, LockLabels, TickLabels, Switching, Woken
  <1>3. pc'[p] = l
    BY <1>1 DEF IInv, Types, Locals
  <1>4. (lock = c <=> pc[p] \in LockLabels) /\ (tickslock = c <=> pc[p] \in TickLabels)
    BY <1>1, Executes
  <1>5. Quietly(c, p, l)
    BY <1>1, <1>3, <1>4 DEF Quietly, At, table, locks, cpu, RunLabels, IrqLabels, TrapLabels,
       ForkLabels, LockLabels, TickLabels, Switching, Woken
  <1> QED
    BY <1>2, <1>5, MoveQuietly DEF IInv

LEMMA StepSleepCheck ==
    ASSUME IInv, NEW c \in CPUs, NEW p \in Slots, SleepCheck(c, p)
    PROVE  IInv'
  <1>1. /\ On(c, p) /\ pc[p] = "sleep_check"
        /\ UNCHANGED <<table, lock, ticks, cpu, ret, np, panicked>>
    BY DEF SleepCheck
  <1>2. (lock = c <=> pc[p] \in LockLabels) /\ (tickslock = c <=> pc[p] \in TickLabels)
    BY <1>1, Executes
  <1>3. CASE Pending(p) /\ ~killed[p]
    <2>1. pc' = [pc EXCEPT ![p] = "sleep_lock"] /\ UNCHANGED <<tickslock, ticks0, dur>>
      BY <1>3 DEF SleepCheck, Goto
    <2>2. Types'
      BY <1>1, <2>1 DEF IInv, Types, TypeOK, Locals, table, cpu, Labels, RunLabels, IrqLabels,
         TrapLabels, ForkLabels, LockLabels, TickLabels, Switching, Woken
    <2>3. pc'[p] = "sleep_lock" /\ Pending(p)'
      BY <1>1, <1>3, <2>1 DEF IInv, Types, Locals, Pending
    <2>4. Quietly(c, p, "sleep_lock")
      BY <1>1, <1>2, <2>1, <2>3 DEF Quietly, At, table, cpu, RunLabels, IrqLabels, TrapLabels,
         ForkLabels, LockLabels, TickLabels, Switching, Woken
    <2> QED
      BY <2>2, <2>4, MoveQuietly DEF IInv
  <1>4. CASE ~(Pending(p) /\ ~killed[p])
    <2>1. /\ pc' = [pc EXCEPT ![p] = "sysret"] /\ tickslock' = NoCpu
          /\ ticks0' = [ticks0 EXCEPT ![p] = 0] /\ dur' = [dur EXCEPT ![p] = 0]
      BY <1>4 DEF SleepCheck, Goto
    <2>2. Types'
      BY <1>1, <2>1 DEF IInv, Types, TypeOK, Locals, table, cpu, Labels, RunLabels, IrqLabels,
         TrapLabels, ForkLabels, LockLabels, TickLabels, Switching, Woken
    <2>3. pc'[p] = "sysret"
      BY <2>1 DEF IInv, Types, Locals
    <2>4. Quietly(c, p, "sysret")
      BY <1>1, <1>2, <2>1, <2>3, Numbers DEF Quietly, IInv, Types, Locals, At, table, cpu,
         RunLabels, IrqLabels, TrapLabels, ForkLabels, LockLabels, TickLabels, Switching, Woken
    <2> QED
      BY <2>2, <2>4, MoveQuietly DEF IInv
  <1> QED
    BY <1>3, <1>4

LEMMA StepYieldBack ==
    ASSUME IInv, NEW c \in CPUs, NEW p \in Slots, YieldBack(c, p)
    PROVE  IInv'
  <1>1. PICK l \in {"trap_check1", "trap_check2"} :
           /\ On(c, p) /\ pc[p] \in {"yielded1", "yielded2"} /\ pc' = [pc EXCEPT ![p] = l]
           /\ lock' = NoCpu
           /\ UNCHANGED <<table, tickslock, ticks, cpu, ret, np, ticks0, dur, panicked>>
    BY DEF YieldBack, Goto
  <1>2. Types'
    BY <1>1 DEF IInv, Types, TypeOK, Locals, table, cpu, Labels, RunLabels, IrqLabels,
       TrapLabels, ForkLabels, LockLabels, TickLabels, Switching, Woken
  <1>3. pc'[p] = l
    BY <1>1 DEF IInv, Types, Locals
  <1>4. (lock = c <=> pc[p] \in LockLabels) /\ (tickslock = c <=> pc[p] \in TickLabels)
    BY <1>1, Executes
  <1>5. At(p) = ret[p] /\ At(p)' = ret[p]
    BY <1>1, <1>3 DEF At, TrapLabels
  <1>6. Quietly(c, p, l)
    BY <1>1, <1>3, <1>4, <1>5, Numbers DEF Quietly, IInv, People, InitOK, table, cpu, RunLabels,
       IrqLabels, TrapLabels, ForkLabels, LockLabels, TickLabels, Switching, Woken
  <1> QED
    BY <1>2, <1>6, MoveQuietly DEF IInv

LEMMA StepTrapCheck ==
    ASSUME IInv, NEW c \in CPUs, NEW p \in Slots, TrapCheck(c, p)
    PROVE  IInv'
  <1>1. /\ On(c, p) /\ pc[p] \in {"trap_check1", "trap_check2"}
        /\ UNCHANGED <<table, locks, ticks, cpu, np, ticks0, dur, panicked>>
    BY DEF TrapCheck
  <1>2. PICK l : /\ pc' = [pc EXCEPT ![p] = l]
                 /\ \/ l = "exit" /\ killed[p] /\ ret[p] = "user" /\ ret' = ret
                    \/ l = "trap_yield2" /\ ret' = ret
                    \/ l = ret[p] /\ ret' = [ret EXCEPT ![p] = "user"]
    BY DEF TrapCheck, Goto
  <1>3. ret[p] \in IrqLabels
    BY DEF IInv, Types, Locals
  <1>4. Types'
    BY <1>1, <1>2, <1>3 DEF IInv, Types, TypeOK, Locals, table, locks, cpu, Labels, RunLabels,
       IrqLabels, TrapLabels, ForkLabels, LockLabels, TickLabels, Switching, Woken
  <1>5. pc'[p] = l
    BY <1>2 DEF IInv, Types, Locals
  <1>6. (lock = c <=> pc[p] \in LockLabels) /\ (tickslock = c <=> pc[p] \in TickLabels)
    BY <1>1, Executes
  <1>7. l \in RunLabels /\ l \notin LockLabels /\ l \notin TickLabels
    BY <1>2, <1>3
       DEF RunLabels, IrqLabels, TrapLabels, ForkLabels, LockLabels, TickLabels, Switching, Woken
  <1>8. /\ At(p) = ret[p]
        /\ At(p)' = At(p) \/ (ret[p] = "user" /\ At(p)' = "exit")
    BY <1>1, <1>2, <1>3, <1>5 DEF At, TrapLabels, IrqLabels
  <1>9. /\ At(p)' = At(p) \/ (At(p) \notin ForkLabels /\ At(p)' \notin ForkLabels)
        /\ p = InitProc => At(p)' \notin {"exit_lock", "sched_exit", "zombie"}
    BY <1>8 DEF ForkLabels, IInv, People, InitOK
  <1>10. Quietly(c, p, l)
    <2>1. l = "exit" => killed[p]
      BY <1>2, <1>3 DEF IrqLabels
    <2>2. l # "sleep_lock"
      BY <1>7 DEF TickLabels
    <2>3. \A q \in Slots \ {p} : ret'[q] = ret[q]
      BY <1>2 DEF IInv, Types, Locals
    <2> QED
      BY <1>1, <1>2, <1>6, <1>7, <1>9, <2>1, <2>2, <2>3
      DEF Quietly, table, locks, cpu, LockLabels, TickLabels, Switching, Woken, RunLabels
  <1> QED
    BY <1>4, <1>10, MoveQuietly DEF IInv

\* The kernel stops or nothing happens.
LEMMA StepNothing ==
    ASSUME IInv, UNCHANGED <<table, locks, ticks, cpu, thread>>, panicked' \in BOOLEAN
    PROVE  IInv'
  <1> USE DEF table, locks, cpu, thread
  <1>1. Types' /\ Machine' /\ StatesOK'
    BY DEF IInv, Types, TypeOK, Locals, Machine, CpusOK, OneCpuPerStack, LocksOK, Holds, HoldsTicks,
           StatesOK, OnStack, Executing, Parked, Asleep
  <1>2. People'
    BY DEF IInv, People, ForksOK, InitOK, FamilyOK, PidsOK, PidsUnique, At
  <1>3. SleepersOK'
    BY DEF IInv, SleepersOK, Children, Zombies, Pending
  <1> QED
    BY <1>1, <1>2, <1>3 DEF IInv

LEMMA StepExitBegin ==
    ASSUME IInv, NEW c \in CPUs, NEW p \in Slots, ExitBegin(c, p)
    PROVE  IInv'
  <1>1. On(c, p) /\ pc[p] = "exit"
    BY DEF ExitBegin
  <1>2. CASE p = InitProc
    BY <1>2, StepNothing DEF ExitBegin, Panic
  <1>3. CASE p # InitProc
    <2>1. /\ pc' = [pc EXCEPT ![p] = "exit_lock"]
          /\ UNCHANGED <<table, locks, ticks, cpu, ret, np, ticks0, dur, panicked>>
      BY <1>3 DEF ExitBegin, Goto
    <2>2. Types'
      BY <2>1 DEF IInv, Types, TypeOK, Locals, table, locks, cpu, Labels, RunLabels, IrqLabels,
         TrapLabels, ForkLabels, LockLabels, TickLabels, Switching, Woken
    <2>3. pc'[p] = "exit_lock"
      BY <2>1 DEF IInv, Types, Locals
    <2>4. (lock = c <=> pc[p] \in LockLabels) /\ (tickslock = c <=> pc[p] \in TickLabels)
      BY <1>1, Executes
    <2>5. Quietly(c, p, "exit_lock")
      BY <1>1, <1>3, <2>1, <2>3, <2>4 DEF Quietly, At, table, locks, cpu, RunLabels, IrqLabels,
         TrapLabels, ForkLabels, LockLabels, TickLabels, Switching, Woken
    <2> QED
      BY <2>2, <2>5, MoveQuietly DEF IInv
  <1> QED
    BY <1>2, <1>3

-----------------------------------------------------------------------------
(***************************************************************************)
(* Steps of a process that change states.                                  *)
(***************************************************************************)

\* With ptable.lock a process may change its own state and wake others.
LEMMA MoveStates ==
    ASSUME IInv, NEW c \in CPUs, NEW p \in Slots, On(c, p), lock \in {c, NoCpu}, UNCHANGED <<ctx, kstack>>,
           Executing(p)', state[p] \notin {UNUSED, EMBRYO},
           \A q \in Slots \ {p} :
              /\ pc'[q] = pc[q] /\ chan'[q] = chan[q]
              /\ state'[q] = state[q] \/ (state[q] = SLEEPING /\ state'[q] = RUNNABLE)
    PROVE  StatesOK'
  <1> USE DEF UNUSED, EMBRYO, SLEEPING, RUNNABLE, RUNNING, ZOMBIE
  <1>1. \A q \in Slots : OnStack(q)' <=> OnStack(q)
    BY DEF OnStack
  <1>2. ASSUME NEW q \in Slots \ {p}
        PROVE  /\ IF OnStack(q)' THEN Executing(q)' ELSE Parked(q)'
               /\ state'[q] \notin {UNUSED, EMBRYO} => kstack'[q]
    <2>1. CASE OnStack(q)
      <3>1. state[q] = RUNNING
        BY <2>1, Executes, LockExcludes DEF OnStack
      <3>2. Executing(q) /\ kstack[q]
        BY <2>1, <3>1 DEF IInv, StatesOK
      <3>3. Executing(q)'
        BY <3>1, <3>2 DEF Executing, Asleep
      <3> QED
        BY <1>1, <2>1, <3>2, <3>3
    <2>2. CASE ~OnStack(q)
      <3>1. Parked(q) /\ (state[q] \notin {UNUSED, EMBRYO} => kstack[q])
        BY <2>2 DEF IInv, StatesOK
      <3>2. Parked(q)'
        BY <3>1 DEF Parked, Asleep, Woken
      <3> QED
        BY <1>1, <2>2, <3>1, <3>2
    <2> QED
      BY <2>1, <2>2
  <1>3. OnStack(p)' /\ kstack'[p]
    BY <1>1, Executes DEF IInv, StatesOK
  <1> QED
    BY <1>2, <1>3 DEF StatesOK

\* A process at one of these labels is RUNNING.
LEMMA Runs ==
    ASSUME IInv, NEW c \in CPUs, NEW p \in Slots, On(c, p), pc[p] \in RunLabels
    PROVE  state[p] = RUNNING
  BY Executes DEF Executing, Asleep, RunLabels, IrqLabels, TickLabels, Woken

LEMMA StepYield ==
    ASSUME IInv, NEW c \in CPUs, NEW p \in Slots, Yield(c, p)
    PROVE  IInv'
  <1> USE DEF UNUSED, EMBRYO, SLEEPING, RUNNABLE, RUNNING, ZOMBIE
  <1>1. PICK l \in {"sched_yield1", "sched_yield2"} :
           /\ On(c, p) /\ pc[p] \in {"trap_yield1", "trap_yield2"} /\ pc' = [pc EXCEPT ![p] = l]
           /\ lock = NoCpu /\ lock' = c
           /\ state' = [state EXCEPT ![p] = RUNNABLE]
           /\ UNCHANGED <<pid, parent, killed, chan, scheduler, kstack, nextpid, tickslock, ticks, cpu,
                          ret, np, ticks0, dur, panicked>>
    BY DEF Yield, Goto
  <1>2. Types'
    BY <1>1 DEF IInv, Types, TypeOK, Locals, States, cpu, Labels, RunLabels, IrqLabels,
       TrapLabels, ForkLabels, LockLabels, TickLabels, Switching, Woken
  <1>3. /\ pc'[p] = l /\ state'[p] = RUNNABLE
        /\ \A q \in Slots \ {p} : pc'[q] = pc[q] /\ state'[q] = state[q] /\ At(q)' = At(q)
    BY <1>1 DEF IInv, Types, TypeOK, Locals, At
  <1>4. state[p] = RUNNING
    BY <1>1, Runs DEF RunLabels
  <1>5. Machine'
    <2>1. tickslock # c
      BY <1>1, Executes DEF TickLabels
    <2> QED
      BY <1>1, <2>1, MoveCpus, MoveLocks, Numbers DEF Machine, Labels, RunLabels, IrqLabels,
         TrapLabels, ForkLabels, LockLabels, TickLabels, Switching, Woken
  <1>6. StatesOK'
    <2>1. Executing(p)'
      BY <1>1, <1>3 DEF Executing
    <2> QED
      BY <1>1, <1>3, <1>4, <2>1, MoveStates DEF cpu
  <1>7. At(p)' = At(p)
    BY <1>1, <1>3 DEF At, TrapLabels
  <1>8. ForksOK'
    BY <1>1, <1>3, <1>4, <1>7 DEF IInv, People, ForksOK, Types, TypeOK
  <1>9. InitOK' /\ FamilyOK' /\ PidsOK'
    BY <1>1, <1>3, <1>4, <1>7, Numbers
       DEF IInv, People, InitOK, FamilyOK, PidsOK, PidsUnique, Live, Types, TypeOK
  <1>10. SleepersOK'
    <2>1. \A q \in Slots : Children(q)' = Children(q) /\ Zombies(q)' = Zombies(q) /\ (Pending(q)' <=> Pending(q))
      BY <1>1, <1>3, <1>4 DEF Children, Zombies, Pending
    <2> QED
      BY <1>1, <1>3, <2>1 DEF IInv, SleepersOK, cpu
  <1> QED
    BY <1>2, <1>5, <1>6, <1>8, <1>9, <1>10 DEF IInv, People

LEMMA StepSleepLock ==
    ASSUME IInv, NEW c \in CPUs, NEW p \in Slots, SleepLock(c, p)
    PROVE  IInv'
  <1> USE DEF UNUSED, EMBRYO, SLEEPING, RUNNABLE, RUNNING, ZOMBIE
  <1>1. /\ On(c, p) /\ pc[p] = "sleep_lock" /\ pc' = [pc EXCEPT ![p] = "sched_sleep"]
        /\ lock = NoCpu /\ lock' = c /\ tickslock' = NoCpu
        /\ state' = [state EXCEPT ![p] = SLEEPING] /\ chan' = [chan EXCEPT ![p] = TickChan]
        /\ UNCHANGED <<pid, parent, killed, scheduler, kstack, nextpid, ticks, cpu,
                       ret, np, ticks0, dur, panicked>>
    BY DEF SleepLock, Goto
  <1>2. Types'
    BY <1>1, Numbers DEF IInv, Types, TypeOK, Locals, States, cpu, Labels, RunLabels, IrqLabels,
       TrapLabels, ForkLabels, LockLabels, TickLabels, Switching, Woken
  <1>3. /\ pc'[p] = "sched_sleep" /\ state'[p] = SLEEPING /\ chan'[p] = TickChan
        /\ \A q \in Slots \ {p} : /\ pc'[q] = pc[q] /\ state'[q] = state[q] /\ chan'[q] = chan[q]
                                  /\ At(q)' = At(q)
    BY <1>1 DEF IInv, Types, TypeOK, Locals, At
  <1>4. state[p] = RUNNING
    BY <1>1, Runs DEF RunLabels, TickLabels
  <1>5. Machine'
    <2>1. tickslock = c
      BY <1>1, Executes DEF TickLabels
    <2> QED
      BY <1>1, <2>1, MoveCpus, MoveLocks, Numbers DEF Machine, Labels, RunLabels, IrqLabels,
         TrapLabels, ForkLabels, LockLabels, TickLabels, Switching, Woken
  <1>6. StatesOK'
    <2>1. Executing(p)'
      BY <1>1, <1>3 DEF Executing, Asleep
    <2> QED
      BY <1>1, <1>3, <1>4, <2>1, MoveStates DEF cpu
  <1>7. At(p) = "sleep_lock" /\ At(p)' = "sched_sleep"
    BY <1>1, <1>3 DEF At, TrapLabels
  <1>8. ForksOK'
    BY <1>1, <1>3, <1>4, <1>7 DEF IInv, People, ForksOK, Types, TypeOK, ForkLabels
  <1>9. InitOK' /\ FamilyOK' /\ PidsOK'
    BY <1>1, <1>3, <1>4, <1>7, Numbers
       DEF IInv, People, InitOK, FamilyOK, PidsOK, PidsUnique, Live, Types, TypeOK
  <1>10. SleepersOK'
    <2>1. \A q \in Slots : Children(q)' = Children(q) /\ Zombies(q)' = Zombies(q) /\ (Pending(q)' <=> Pending(q))
      BY <1>1, <1>3, <1>4 DEF Children, Zombies, Pending
    <2>2. Pending(p)
      BY <1>1 DEF IInv, SleepersOK
    <2> QED
      BY <1>1, <1>3, <2>1, <2>2, Numbers DEF IInv, SleepersOK, cpu
  <1> QED
    BY <1>2, <1>5, <1>6, <1>8, <1>9, <1>10 DEF IInv, People

LEMMA StepExitLock ==
    ASSUME IInv, NEW c \in CPUs, NEW p \in Slots, ExitLock(c, p)
    PROVE  IInv'
  <1> USE DEF UNUSED, EMBRYO, SLEEPING, RUNNABLE, RUNNING, ZOMBIE
  <1>1. /\ On(c, p) /\ pc[p] = "exit_lock" /\ pc' = [pc EXCEPT ![p] = "sched_exit"]
        /\ lock = NoCpu /\ lock' = c
        /\ state' = [Wakeup1(ExitWakes(p)) EXCEPT ![p] = ZOMBIE] /\ parent' = Reparent(p)
        /\ UNCHANGED <<pid, killed, chan, scheduler, kstack, nextpid, tickslock, ticks, cpu,
                       ret, np, ticks0, dur, panicked>>
    BY DEF ExitLock, Goto
  <1>2. /\ pc'[p] = "sched_exit" /\ state'[p] = ZOMBIE
        /\ \A q \in Slots \ {p} : /\ pc'[q] = pc[q] /\ At(q)' = At(q)
                                  /\ state'[q] = IF state[q] = SLEEPING /\ chan[q] \in ExitWakes(p)
                                                 THEN RUNNABLE ELSE state[q]
        /\ \A q \in Slots : parent'[q] = IF parent[q] = p THEN InitProc ELSE parent[q]
    BY <1>1 DEF IInv, Types, TypeOK, Locals, At, Wakeup1, Reparent
  <1>3. Types'
    <2>1. state' \in [Slots -> States] /\ parent' \in [Slots -> Slots \cup {None}]
      BY <1>1, Numbers DEF IInv, Types, TypeOK, States, Wakeup1, Reparent
    <2> QED
      BY <1>1, <2>1 DEF IInv, Types, TypeOK, Locals, cpu, Labels, RunLabels, IrqLabels,
         TrapLabels, ForkLabels, LockLabels, TickLabels, Switching, Woken
  <1>4. state[p] = RUNNING
    BY <1>1, Runs DEF RunLabels, IrqLabels
  <1>5. At(p) = "exit_lock" /\ At(p)' = "sched_exit" /\ p # InitProc
    BY <1>1, <1>2 DEF At, TrapLabels, IInv, People, InitOK
  <1>6. np[p] = None
    BY <1>5 DEF IInv, People, ForksOK, ForkLabels
  <1>7. Machine'
    <2>1. tickslock # c
      BY <1>1, Executes DEF TickLabels
    <2> QED
      BY <1>1, <2>1, MoveCpus, MoveLocks, Numbers DEF Machine, Labels, RunLabels, IrqLabels,
         TrapLabels, ForkLabels, LockLabels, TickLabels, Switching, Woken
  <1>8. StatesOK'
    <2>1. Executing(p)'
      BY <1>1, <1>2 DEF Executing
    <2> QED
      BY <1>1, <1>2, <1>4, <2>1, MoveStates DEF cpu
  <1>9. ForksOK'
    <2>1. \A q \in Slots : np[q] # None => np[q] \in Slots /\ np[q] # p /\ state'[np[q]] = EMBRYO
      BY <1>2, <1>4 DEF IInv, People, ForksOK, Types, TypeOK
    <2>2. ASSUME NEW q \in Slots, np[q] # None
          PROVE  parent'[np[q]] = parent[np[q]] /\ pc'[np[q]] = pc[np[q]]
      <3>1. parent[np[q]] \in {q, None} /\ q # p
        BY <1>6, <2>2 DEF IInv, People, ForksOK
      <3> QED
        BY <1>2, <2>1, <2>2, <3>1, Numbers
    <2> QED
      BY <1>1, <1>2, <1>5, <1>6, <2>1, <2>2 DEF IInv, People, ForksOK, ForkLabels
  <1>10. InitOK'
    BY <1>1, <1>2, <1>5, Numbers DEF IInv, People, InitOK, Live
  <1>11. FamilyOK'
    <2>1. state'[InitProc] \in Live
      BY <1>10 DEF InitOK
    <2>2. \A q \in Slots \ {p} : state[q] \in Live => state'[q] \in Live
      BY <1>2 DEF Live
    <2>3. ASSUME NEW q \in Slots \ {InitProc}, state'[q] \notin {UNUSED, EMBRYO}
          PROVE  parent'[q] # None /\ state'[parent'[q]] \in Live
      <3>1. state[q] \notin {UNUSED, EMBRYO}
        BY <1>2, <1>4, <2>3
      <3>2. parent[q] \in Slots /\ state[parent[q]] \in Live
        BY <3>1 DEF IInv, People, FamilyOK, Types, TypeOK
      <3> QED
        BY <1>2, <2>1, <2>2, <3>2, Numbers
    <2>4. ASSUME NEW q \in Slots \ {InitProc}, state'[q] \in {UNUSED, EMBRYO}
          PROVE  state[q] = state'[q] /\ parent'[q] = parent[q]
      <3>1. q # p /\ state[q] = state'[q]
        BY <1>2, <2>4
      <3>2. parent[q] # p
        BY <1>6, <2>4, <3>1, Numbers DEF IInv, People, FamilyOK
      <3> QED
        BY <1>2, <3>1, <3>2
    <2> QED
      BY <1>1, <1>2, <2>3, <2>4 DEF IInv, People, FamilyOK
  <1>12. PidsOK'
    BY <1>1, <1>2, <1>4 DEF IInv, People, PidsOK, PidsUnique
  <1>13. SleepersOK'
    <2>1. ASSUME NEW q \in Slots, state'[q] = SLEEPING
          PROVE  q # p /\ state[q] = SLEEPING /\ chan[q] \notin ExitWakes(p)
      BY <1>2, <2>1
    <2>2. ASSUME NEW q \in Slots, state'[q] = SLEEPING, chan[q] = q
          PROVE  Children(q)' # {} /\ Zombies(q)' = {} /\ ~killed[q]
      <3>1. q # p /\ Children(q) # {} /\ Zombies(q) = {} /\ ~killed[q] /\ q \notin ExitWakes(p)
        BY <2>1, <2>2 DEF IInv, SleepersOK
      <3>2. Children(q)' # {}
        BY <1>2, <3>1 DEF Children
      <3>3. ASSUME NEW r \in Slots, parent'[r] = q, state'[r] = ZOMBIE
            PROVE  FALSE
        <4>1. parent[p] # q
          BY <3>1 DEF ExitWakes
        <4>2. CASE r = p
          BY <1>2, <1>5, <3>3, <4>1, <4>2 DEF IInv, People, FamilyOK
        <4>3. CASE r # p /\ parent[r] = q
          BY <1>2, <3>1, <3>3, <4>3 DEF Zombies, Children
        <4>4. CASE r # p /\ parent[r] = p
          BY <1>2, <3>1, <3>3, <4>4 DEF ExitWakes, Children
        <4> QED
          BY <1>2, <3>3, <4>2, <4>3, <4>4
      <3> QED
        BY <3>1, <3>2, <3>3 DEF Zombies, Children
    <2>3. \A q \in Slots : Pending(q)' <=> Pending(q)
      BY <1>1 DEF Pending
    <2> QED
      BY <1>1, <1>2, <2>1, <2>2, <2>3 DEF IInv, SleepersOK, cpu
  <1> QED
    BY <1>3, <1>7, <1>8, <1>9, <1>10, <1>11, <1>12, <1>13 DEF IInv, People

LEMMA StepWaitScan ==
    ASSUME IInv, NEW c \in CPUs, NEW p \in Slots, WaitScan(c, p)
    PROVE  IInv'
  <1> USE DEF UNUSED, EMBRYO, SLEEPING, RUNNABLE, RUNNING, ZOMBIE
  <1>1. /\ On(c, p) /\ pc[p] = "wait_scan"
        /\ UNCHANGED <<scheduler, nextpid, tickslock, ticks, cpu, ret, np, ticks0, dur, panicked>>
    BY DEF WaitScan
  <1>2. state[p] = RUNNING /\ lock = c /\ tickslock # c /\ At(p) = "wait_scan"
    BY <1>1, Runs, Executes DEF At, RunLabels, IrqLabels, TrapLabels, ForkLabels, LockLabels,
       TickLabels, Switching, Woken
  <1>3. np[p] = None
    BY <1>2 DEF IInv, People, ForksOK, ForkLabels
  <1>4. ASSUME NEW q \in Slots, q \in Zombies(p),
               kstack' = [kstack EXCEPT ![q] = FALSE], pid' = [pid EXCEPT ![q] = 0],
               parent' = [parent EXCEPT ![q] = None], killed' = [killed EXCEPT ![q] = FALSE],
               state' = [state EXCEPT ![q] = UNUSED], lock' = NoCpu,
               pc' = [pc EXCEPT ![p] = "sysret"], UNCHANGED chan
        PROVE  IInv'
    <2>1. q # p /\ q # InitProc /\ state[q] = ZOMBIE /\ parent[q] = p
      BY <1>2, <1>4 DEF Zombies, Children, IInv, People, InitOK, Live
    <2>2. ~OnStack(q) /\ pc[q] = "zombie" /\ At(q) = "zombie"
      <3>1. ~OnStack(q)
        BY <1>1, <1>2, <2>1, Executes, LockExcludes DEF OnStack
      <3>2. Parked(q)
        BY <3>1 DEF IInv, StatesOK
      <3> QED
        BY <2>1, <3>1, <3>2 DEF Parked, Asleep, At, TrapLabels
    <2>3. np[q] = None
      BY <2>2 DEF IInv, People, ForksOK, ForkLabels
    <2>4. /\ pc'[p] = "sysret" /\ \A r \in Slots \ {p} : pc'[r] = pc[r] /\ At(r)' = At(r)
          /\ state'[q] = UNUSED /\ pid'[q] = 0 /\ parent'[q] = None
          /\ \A r \in Slots \ {q} : /\ state'[r] = state[r] /\ pid'[r] = pid[r] /\ parent'[r] = parent[r]
                                    /\ killed'[r] = killed[r] /\ kstack'[r] = kstack[r]
      BY <1>1, <1>4 DEF IInv, Types, TypeOK, Locals, At
    <2>5. At(p)' = "sysret"
      BY <2>4 DEF At, TrapLabels
    <2>6. Types'
      BY <1>1, <1>4, Numbers, ProcAssumption DEF IInv, Types, TypeOK, Locals, States, cpu,
         Labels, RunLabels, IrqLabels, TrapLabels, ForkLabels, LockLabels, TickLabels, Switching,
         Woken
    <2>7. Machine'
      BY <1>1, <1>2, <1>4, MoveCpus, MoveLocks, Numbers DEF Machine, Labels, RunLabels,
         IrqLabels, TrapLabels, ForkLabels, LockLabels, TickLabels, Switching, Woken
    <2>8. StatesOK'
      <3>1. \A r \in Slots : OnStack(r)' <=> OnStack(r)
        BY <1>1 DEF OnStack, cpu
      <3>2. Executing(p)' /\ OnStack(p)
        BY <1>1, <1>2, <2>1, <2>4, Executes DEF Executing, RunLabels, IrqLabels
      <3>3. Parked(q)'
        BY <2>1, <2>2, <2>4 DEF Parked
      <3>4. \A r \in Slots \ {p, q} : (Executing(r)' <=> Executing(r)) /\ (Parked(r)' <=> Parked(r))
        BY <1>4, <2>4 DEF Executing, Parked, Asleep
      <3> QED
        BY <1>2, <2>1, <2>2, <2>4, <3>1, <3>2, <3>3, <3>4 DEF IInv, StatesOK
    <2>9. \A r \in Slots : parent[r] # q
      <3>1. ASSUME NEW r \in Slots, parent[r] = q PROVE FALSE
        <4>1. r # InitProc
          BY <3>1, Numbers DEF IInv, People, InitOK
        <4>2. state[r] = EMBRYO => np[q] = r
          BY <3>1, <4>1, Numbers DEF IInv, People, FamilyOK
        <4>3. state[r] \notin {UNUSED, EMBRYO}
          BY <2>3, <3>1, <4>1, <4>2, Numbers DEF IInv, People, FamilyOK
        <4> QED
          BY <2>1, <3>1, <4>1, <4>3 DEF IInv, People, FamilyOK, Live
      <3> QED
        BY <3>1
    <2>10. ForksOK'
      <3>1. \A r \in Slots : np[r] # None => np[r] \in Slots \ {p, q}
        BY <1>2, <2>1 DEF IInv, People, ForksOK, Types, TypeOK
      <3> QED
        BY <1>1, <1>2, <1>3, <2>4, <2>5, <3>1 DEF IInv, People, ForksOK, ForkLabels
    <2>11. InitOK'
      BY <1>1, <2>1, <2>4, <2>5, Numbers DEF IInv, People, InitOK
    <2>12. FamilyOK'
      <3>1. \A r \in Slots : parent[r] # None => parent[r] \in Slots \ {q}
        BY <2>9 DEF IInv, Types, TypeOK
      <3>2. ASSUME NEW r \in Slots \ {InitProc, q}
            PROVE  /\ parent[r] # r
                   /\ state[r] = UNUSED => parent[r] = None
                   /\ state[r] = EMBRYO /\ parent[r] # None => np[parent[r]] = r
                   /\ state[r] \notin {UNUSED, EMBRYO} => parent[r] # None /\ state[parent[r]] \in Live
        BY DEF IInv, People, FamilyOK
      <3>3. ASSUME NEW r \in Slots \ {InitProc, q}
            PROVE  /\ parent'[r] # r
                   /\ state'[r] = UNUSED => parent'[r] = None
                   /\ state'[r] = EMBRYO /\ parent'[r] # None => np'[parent'[r]] = r
                   /\ state'[r] \notin {UNUSED, EMBRYO} => parent'[r] # None /\ state'[parent'[r]] \in Live
        <4>1. parent'[r] = parent[r] /\ state'[r] = state[r] /\ np' = np
          BY <1>1, <2>4
        <4>2. parent[r] # None => state'[parent[r]] = state[parent[r]]
          BY <2>4, <3>1
        <4> QED
          BY <3>2, <4>1, <4>2
      <3>4. parent'[q] = None /\ None # q
        BY <2>4, Numbers
      <3> QED
        BY <2>4, <3>3, <3>4 DEF FamilyOK
    <2>13. PidsOK'
      <3>1. 0 < nextpid
        BY DEF IInv, People, PidsOK, Types, TypeOK
      <3> QED
        BY <1>1, <2>4, <3>1 DEF IInv, People, PidsOK, PidsUnique
    <2>14. SleepersOK'
      <3>1. \A r \in Slots \ {p, q} : Children(r)' = Children(r) /\ Zombies(r)' = Zombies(r)
        BY <2>1, <2>4, Numbers DEF Children, Zombies
      <3>2. \A r \in Slots : Pending(r)' <=> Pending(r)
        BY <1>1 DEF Pending
      <3> QED
        BY <1>1, <1>2, <1>4, <2>1, <2>4, <3>1, <3>2 DEF IInv, SleepersOK, cpu
    <2> QED
      BY <2>6, <2>7, <2>8, <2>10, <2>11, <2>12, <2>13, <2>14 DEF IInv, People
  <1>5. ASSUME lock' = NoCpu, pc' = [pc EXCEPT ![p] = "sysret"],
               UNCHANGED <<state, pid, parent, killed, chan, kstack>>
        PROVE  IInv'
    <2>1. Types'
      BY <1>1, <1>5 DEF IInv, Types, TypeOK, Locals, cpu, Labels, RunLabels, IrqLabels,
         TrapLabels, ForkLabels, LockLabels, TickLabels, Switching, Woken
    <2>2. pc'[p] = "sysret"
      BY <1>5 DEF IInv, Types, Locals
    <2>3. Quietly(c, p, "sysret")
      BY <1>1, <1>2, <1>5, <2>2, Numbers DEF Quietly, At, cpu, RunLabels, IrqLabels, TrapLabels,
         ForkLabels, LockLabels, TickLabels, Switching, Woken
    <2> QED
      BY <2>1, <2>3, MoveQuietly DEF IInv
  <1>6. ASSUME Zombies(p) = {}, Children(p) # {}, ~killed[p],
               chan' = [chan EXCEPT ![p] = p], state' = [state EXCEPT ![p] = SLEEPING],
               pc' = [pc EXCEPT ![p] = "sched_wait"],
               UNCHANGED <<pid, parent, killed, kstack, lock>>
        PROVE  IInv'
    <2>1. Types'
      BY <1>1, <1>6, Numbers DEF IInv, Types, TypeOK, Locals, States, cpu, Labels, RunLabels,
         IrqLabels, TrapLabels, ForkLabels, LockLabels, TickLabels, Switching, Woken
    <2>2. /\ pc'[p] = "sched_wait" /\ state'[p] = SLEEPING /\ chan'[p] = p
          /\ \A q \in Slots \ {p} : /\ pc'[q] = pc[q] /\ state'[q] = state[q] /\ chan'[q] = chan[q]
                                    /\ At(q)' = At(q)
      BY <1>1, <1>6 DEF IInv, Types, TypeOK, Locals, At
    <2>3. Machine'
      BY <1>1, <1>2, <1>6, MoveCpus, MoveLocks, Numbers DEF Machine, Labels, RunLabels,
         IrqLabels, TrapLabels, ForkLabels, LockLabels, TickLabels, Switching, Woken
    <2>4. StatesOK'
      <3>1. Executing(p)'
        BY <2>2 DEF Executing, Asleep
      <3> QED
        BY <1>1, <1>2, <1>6, <2>2, <3>1, MoveStates DEF cpu
    <2>5. At(p)' = "sched_wait"
      BY <2>2 DEF At, TrapLabels
    <2>6. ForksOK'
      BY <1>1, <1>2, <1>6, <2>2, <2>5 DEF IInv, People, ForksOK, Types, TypeOK, ForkLabels
    <2>7. InitOK' /\ FamilyOK' /\ PidsOK'
      BY <1>1, <1>2, <1>6, <2>2, <2>5, Numbers
      DEF IInv, People, InitOK, FamilyOK, PidsOK, PidsUnique, Live, Types, TypeOK
    <2>8. SleepersOK'
      <3>1. \A q \in Slots : Children(q)' = Children(q) /\ Zombies(q)' = Zombies(q) /\ (Pending(q)' <=> Pending(q))
        BY <1>1, <1>2, <1>6, <2>2 DEF Children, Zombies, Pending
      <3> QED
        BY <1>1, <1>6, <2>2, <3>1, Numbers DEF IInv, SleepersOK, cpu
    <2> QED
      BY <2>1, <2>3, <2>4, <2>6, <2>7, <2>8 DEF IInv, People
  <1> QED
    BY <1>4, <1>5, <1>6 DEF WaitScan, IsFirst, Goto

LEMMA StepKillCall ==
    ASSUME IInv, NEW c \in CPUs, NEW p \in Slots, NEW k \in KillArgs, KillCall(c, p, k)
    PROVE  IInv'
  <1> USE DEF UNUSED, EMBRYO, SLEEPING, RUNNABLE, RUNNING, ZOMBIE
  <1>1. /\ On(c, p) /\ pc[p] = "user" /\ pc' = [pc EXCEPT ![p] = "sysret"] /\ lock = NoCpu
        /\ UNCHANGED <<pid, parent, chan, scheduler, kstack, nextpid, locks, ticks, cpu,
                       ret, np, ticks0, dur, panicked>>
    BY DEF KillCall, Calling, Goto
  <1>2. state[p] = RUNNING /\ tickslock # c /\ At(p) = "user" /\ c # NoCpu
    BY <1>1, Runs, Executes, Numbers DEF At, RunLabels, IrqLabels, TrapLabels, ForkLabels,
       LockLabels, TickLabels, Switching, Woken
  <1>3. /\ pc'[p] = "sysret" /\ At(p)' = "sysret"
        /\ \A r \in Slots \ {p} : pc'[r] = pc[r] /\ At(r)' = At(r)
    BY <1>1 DEF IInv, Types, Locals, At, TrapLabels
  <1>4. CASE UNCHANGED <<killed, state>>
    <2>1. Types'
      BY <1>1, <1>4 DEF IInv, Types, TypeOK, Locals, locks, cpu, Labels, RunLabels, IrqLabels,
         TrapLabels, ForkLabels, LockLabels, TickLabels, Switching, Woken
    <2>2. Quietly(c, p, "sysret")
      BY <1>1, <1>2, <1>3, <1>4 DEF Quietly, locks, cpu, RunLabels, IrqLabels, TrapLabels,
         ForkLabels, LockLabels, TickLabels, Switching, Woken
    <2> QED
      BY <2>1, <2>2, MoveQuietly DEF IInv
  <1>5. ASSUME NEW q \in Slots, killed' = [killed EXCEPT ![q] = TRUE],
               state' = [state EXCEPT ![q] = KillWakes(q)]
        PROVE  IInv'
    <2>1. /\ killed'[q] = TRUE /\ \A r \in Slots \ {q} : killed'[r] = killed[r] /\ state'[r] = state[r]
          /\ state'[q] = IF state[q] = SLEEPING THEN RUNNABLE ELSE state[q]
      BY <1>5 DEF IInv, Types, TypeOK, KillWakes
    <2>2. \A r \in Slots : /\ state'[r] = state[r] \/ (state[r] = SLEEPING /\ state'[r] = RUNNABLE)
                           /\ state'[r] = SLEEPING => r # q
                           /\ killed[r] => killed'[r]
      BY <2>1
    <2>3. Types'
      BY <1>1, <1>5 DEF IInv, Types, TypeOK, Locals, States, KillWakes, locks, cpu, Labels,
         RunLabels, IrqLabels, TrapLabels, ForkLabels, LockLabels, TickLabels, Switching, Woken
    <2>4. Machine'
      BY <1>1, <1>2, MoveCpus, MoveLocks DEF Machine, locks, Labels, RunLabels, IrqLabels,
         TrapLabels, ForkLabels, LockLabels, TickLabels, Switching, Woken
    <2>5. StatesOK'
      <3>1. Executing(p)'
        BY <1>2, <1>3, <2>2 DEF Executing, RunLabels, IrqLabels
      <3> QED
        BY <1>1, <1>2, <1>3, <2>2, <3>1, MoveStates DEF cpu
    <2>6. ForksOK'
      BY <1>1, <1>2, <1>3, <2>2 DEF IInv, People, ForksOK, Types, TypeOK, ForkLabels
    <2>7. InitOK'
      BY <1>1, <1>3, <2>2, Numbers DEF IInv, People, InitOK, Live
    <2>8. FamilyOK' /\ PidsOK'
      BY <1>1, <2>2 DEF IInv, People, FamilyOK, PidsOK, PidsUnique, Live, Types, TypeOK
    <2>9. SleepersOK'
      <3>1. \A r \in Slots : Children(r)' = Children(r) /\ Zombies(r)' = Zombies(r) /\ (Pending(r)' <=> Pending(r))
        BY <1>1, <2>2 DEF Children, Zombies, Pending
      <3> QED
        BY <1>1, <1>3, <2>1, <2>2, <3>1 DEF IInv, SleepersOK, cpu
    <2> QED
      BY <2>3, <2>4, <2>5, <2>6, <2>7, <2>8, <2>9 DEF IInv, People
  <1> QED
    BY <1>4, <1>5 DEF KillCall

-----------------------------------------------------------------------------
(***************************************************************************)
(* The steps of fork.                                                      *)
(***************************************************************************)

\* The EMBRYO x of a fork in progress: nobody executes it, it makes no fork
\* itself, it is nobody's parent and not the first process.
LEMMA Embryo ==
    ASSUME IInv, NEW x \in Slots, state[x] \in {UNUSED, EMBRYO}
    PROVE  /\ ~OnStack(x) /\ pc[x] \in {"forkret", "zombie"} /\ np[x] = None
           /\ x # InitProc /\ \A r \in Slots : parent[r] # x
  <1> USE DEF UNUSED, EMBRYO, SLEEPING, RUNNABLE, RUNNING, ZOMBIE
  <1>1. ~OnStack(x) /\ pc[x] \in {"forkret", "zombie"}
    BY DEF IInv, StatesOK, Executing, Parked, Asleep
  <1>2. np[x] = None
    BY <1>1 DEF IInv, People, ForksOK, At, TrapLabels, ForkLabels
  <1>3. x # InitProc
    BY DEF IInv, People, InitOK, Live
  <1>4. ASSUME NEW r \in Slots, parent[r] = x PROVE FALSE
    <2>1. r # InitProc
      BY <1>4, Numbers DEF IInv, People, InitOK
    <2>2. state[r] = EMBRYO => np[x] = r
      BY <1>4, <2>1, Numbers DEF IInv, People, FamilyOK
    <2>3. state[r] \notin {UNUSED, EMBRYO}
      BY <1>2, <1>4, <2>1, <2>2, Numbers DEF IInv, People, FamilyOK
    <2> QED
      BY <1>4, <2>1, <2>3 DEF IInv, People, FamilyOK, Live
  <1> QED
    BY <1>1, <1>2, <1>3, <1>4

LEMMA ForkOwns ==
    ASSUME IInv, NEW c \in CPUs, NEW p \in Slots, On(c, p), pc[p] \in ForkLabels
    PROVE  /\ state[p] = RUNNING /\ lock # c /\ tickslock # c /\ At(p) = pc[p]
           /\ np[p] \in Slots \ {p, InitProc} /\ state[np[p]] = EMBRYO
           /\ parent[np[p]] = (IF pc[p] = "fork_run" THEN p ELSE None)
           /\ pc[p] # "fork_kalloc" => kstack[np[p]] /\ pc[np[p]] = "forkret"
           /\ pc[np[p]] \in {"forkret", "zombie"} /\ np[np[p]] = None /\ ~OnStack(np[p])
           /\ \A q \in Slots : np[q] = np[p] => q = p
           /\ \A r \in Slots : parent[r] # np[p]
  <1>1. state[p] = RUNNING /\ lock # c /\ tickslock # c /\ At(p) = pc[p]
    BY Runs, Executes DEF At, RunLabels, IrqLabels, TrapLabels, ForkLabels, LockLabels,
       TickLabels, Switching, Woken
  <1>2. /\ np[p] \in Slots /\ state[np[p]] = EMBRYO
        /\ parent[np[p]] = (IF pc[p] = "fork_run" THEN p ELSE None)
        /\ pc[p] # "fork_kalloc" => kstack[np[p]] /\ pc[np[p]] = "forkret"
        /\ \A q \in Slots : np[q] = np[p] => q = p
    BY <1>1 DEF IInv, People, ForksOK, Types, TypeOK
  <1>3. /\ ~OnStack(np[p]) /\ pc[np[p]] \in {"forkret", "zombie"} /\ np[np[p]] = None
        /\ np[p] # InitProc /\ \A r \in Slots : parent[r] # np[p]
    BY <1>2, Embryo
  <1> QED
    BY <1>1, <1>2, <1>3 DEF RUNNING, EMBRYO

\* A slot x that no CPU executes changes hands.
LEMMA SlotStates ==
    ASSUME IInv, NEW c \in CPUs, NEW p \in Slots, On(c, p), UNCHANGED <<ctx, chan>>,
           NEW x \in Slots \ {p}, ~OnStack(x), Parked(x)',
           state'[x] \in {UNUSED, EMBRYO} \/ kstack'[x],
           pc[p] \in RunLabels, pc'[p] \in RunLabels,
           \A q \in Slots \ {x} : state'[q] = state[q] /\ kstack'[q] = kstack[q],
           \A q \in Slots \ {p, x} : pc'[q] = pc[q]
    PROVE  StatesOK'
  <1>1. \A q \in Slots : OnStack(q)' <=> OnStack(q)
    BY DEF OnStack
  <1>2. OnStack(p) /\ Executing(p)'
    BY Executes, Runs DEF Executing
  <1>3. \A q \in Slots \ {p, x} : (Executing(q)' <=> Executing(q)) /\ (Parked(q)' <=> Parked(q))
    BY DEF Executing, Parked, Asleep
  <1> QED
    BY <1>1, <1>2, <1>3, Runs DEF IInv, StatesOK

LEMMA StepForkAlloc ==
    ASSUME IInv, NEW c \in CPUs, NEW p \in Slots, ForkAlloc(c, p)
    PROVE  IInv'
  <1> USE DEF UNUSED, EMBRYO, SLEEPING, RUNNABLE, RUNNING, ZOMBIE
  <1>1. /\ On(c, p) /\ pc[p] = "user"
        /\ UNCHANGED <<locks, ticks, cpu, ret, ticks0, dur, panicked>>
    BY DEF ForkAlloc, Calling
  <1>2. state[p] = RUNNING /\ lock # c /\ tickslock # c /\ At(p) = "user"
    BY <1>1, Runs, Executes DEF At, RunLabels, IrqLabels, TrapLabels, ForkLabels, LockLabels,
       TickLabels, Switching, Woken
  <1>3. np[p] = None
    BY <1>2 DEF IInv, People, ForksOK, ForkLabels
  <1>4. ASSUME pc' = [pc EXCEPT ![p] = "sysret"], UNCHANGED <<table, np>>
        PROVE  IInv'
    <2>1. Types'
      BY <1>1, <1>4 DEF IInv, Types, TypeOK, Locals, table, locks, cpu, Labels, RunLabels,
         IrqLabels, TrapLabels, ForkLabels, LockLabels, TickLabels, Switching, Woken
    <2>2. pc'[p] = "sysret"
      BY <1>4 DEF IInv, Types, Locals
    <2>3. Quietly(c, p, "sysret")
      BY <1>1, <1>2, <1>4, <2>2 DEF Quietly, At, table, locks, cpu, RunLabels, IrqLabels,
         TrapLabels, ForkLabels, LockLabels, TickLabels, Switching, Woken
    <2> QED
      BY <2>1, <2>3, MoveQuietly DEF IInv
  <1>5. ASSUME NEW x \in Slots, state[x] = UNUSED, nextpid <= MaxPid,
               state' = [state EXCEPT ![x] = EMBRYO], pid' = [pid EXCEPT ![x] = nextpid],
               nextpid' = nextpid + 1, scheduler' = [scheduler EXCEPT ![x] = FALSE],
               np' = [np EXCEPT ![p] = x], pc' = [pc EXCEPT ![p] = "fork_kalloc"],
               UNCHANGED <<parent, killed, chan, kstack>>
        PROVE  IInv'
    <2>1. /\ ~OnStack(x) /\ pc[x] \in {"forkret", "zombie"} /\ np[x] = None
          /\ x # InitProc /\ x # p /\ parent[x] = None /\ \A r \in Slots : parent[r] # x
      BY <1>2, <1>5, Embryo DEF IInv, People, FamilyOK
    <2>2. /\ pc'[p] = "fork_kalloc" /\ np'[p] = x
          /\ \A r \in Slots \ {p} : pc'[r] = pc[r] /\ np'[r] = np[r] /\ At(r)' = At(r)
          /\ state'[x] = EMBRYO /\ pid'[x] = nextpid
          /\ \A r \in Slots \ {x} : state'[r] = state[r] /\ pid'[r] = pid[r]
      BY <1>1, <1>5 DEF IInv, Types, TypeOK, Locals, At
    <2>3. At(p)' = "fork_kalloc"
      BY <2>2 DEF At, TrapLabels
    <2>4. Types'
      BY <1>1, <1>5 DEF IInv, Types, TypeOK, Locals, States, locks, cpu, Labels, RunLabels,
         IrqLabels, TrapLabels, ForkLabels, LockLabels, TickLabels, Switching, Woken
    <2>5. Machine'
      BY <1>1, <1>2, <1>5, MoveCpus, MoveLocks DEF Machine, locks, Labels, RunLabels, IrqLabels,
         TrapLabels, ForkLabels, LockLabels, TickLabels, Switching, Woken
    <2>6. StatesOK'
      <3>1. Parked(x)'
        BY <2>1, <2>2 DEF Parked
      <3>2. pc[p] \in RunLabels /\ pc'[p] \in RunLabels
        BY <1>1, <2>2 DEF RunLabels, IrqLabels
      <3> QED
        BY <1>1, <1>5, <2>1, <2>2, <3>1, <3>2, SlotStates DEF cpu
    <2>7. ForksOK'
      <3>1. \A r \in Slots \ {p} : np[r] # None => np[r] \in Slots \ {x, p} /\ np[r] # x
        BY <1>2, <1>5 DEF IInv, People, ForksOK, Types, TypeOK
      <3> QED
        BY <1>1, <1>5, <2>1, <2>2, <2>3, <3>1, Numbers DEF IInv, People, ForksOK, ForkLabels
    <2>8. InitOK'
      BY <1>1, <1>2, <1>5, <2>1, <2>2, <2>3, Numbers DEF IInv, People, InitOK
    <2>9. FamilyOK'
      <3>1. ASSUME NEW r \in Slots \ {InitProc, x}
            PROVE  /\ parent[r] # r
                   /\ state[r] = UNUSED => parent[r] = None
                   /\ state[r] = EMBRYO /\ parent[r] # None => np'[parent[r]] = r
                   /\ state[r] \notin {UNUSED, EMBRYO} => parent[r] # None /\ state'[parent[r]] \in Live
        <4>1. /\ parent[r] # r
              /\ state[r] = UNUSED => parent[r] = None
              /\ state[r] = EMBRYO /\ parent[r] # None => np[parent[r]] = r
              /\ state[r] \notin {UNUSED, EMBRYO} => parent[r] # None /\ state[parent[r]] \in Live
          BY DEF IInv, People, FamilyOK
        <4>2. parent[r] # None => parent[r] \in Slots \ {x}
          BY <2>1 DEF IInv, Types, TypeOK
        <4>3. parent[r] # None => state'[parent[r]] = state[parent[r]]
          BY <2>2, <4>2
        <4>4. state[r] = EMBRYO /\ parent[r] # None => parent[r] # p
          BY <1>3, <4>1, Numbers
        <4> QED
          BY <2>2, <4>1, <4>2, <4>3, <4>4
      <3> QED
        BY <1>5, <2>1, <2>2, <3>1, Numbers DEF FamilyOK
    <2>10. PidsOK'
      BY <1>5, <2>2 DEF IInv, Types, TypeOK, People, PidsOK, PidsUnique
    <2>11. SleepersOK'
      <3>1. \A r \in Slots : Children(r)' = Children(r) /\ Zombies(r)' = Zombies(r) /\ (Pending(r)' <=> Pending(r))
        BY <1>1, <1>5, <2>2 DEF Children, Zombies, Pending
      <3> QED
        BY <1>1, <1>5, <2>2, <3>1 DEF IInv, SleepersOK, cpu
    <2> QED
      BY <2>4, <2>5, <2>6, <2>7, <2>8, <2>9, <2>10, <2>11 DEF IInv, People
  <1> QED
    BY <1>4, <1>5 DEF ForkAlloc, IsFirst, Unused, NextPid, Goto

\* The steps of fork after allocproc: the EMBRYO x of p is given up, set up a
\* little more, or set free.
Forking(c, p, x, l) ==
    /\ On(c, p) /\ pc[p] \in ForkLabels /\ x = np[p]
    /\ l \in {"fork_copy", "fork_run", "sysret"} /\ pc'[p] = l /\ At(p)' = l
    /\ pc'[x] \in {"forkret", "zombie"}
    /\ \A q \in Slots \ {p, x} : pc'[q] = pc[q] /\ At(q)' = At(q)
    /\ UNCHANGED <<pid, killed, chan, nextpid, lock, tickslock, ticks, ctx, proc, pos, irq,
                   ticks0, dur, panicked>>
    /\ \A q \in Slots \ {x} : state'[q] = state[q] /\ kstack'[q] = kstack[q] /\ parent'[q] = parent[q]
    /\ \A q \in Slots \ {p} : np'[q] = np[q]
    /\ \/ state'[x] = UNUSED /\ parent'[x] = None /\ np'[p] = None /\ l = "sysret"
       \/ /\ state'[x] = EMBRYO /\ np'[p] = x /\ kstack'[x] /\ pc'[x] = "forkret"
          /\ parent'[x] = (IF l = "fork_run" THEN p ELSE None) /\ l # "sysret"
       \/ /\ state'[x] = RUNNABLE /\ parent'[x] = p /\ np'[p] = None /\ l = "sysret"
          /\ kstack'[x] /\ pc'[x] = "forkret"

LEMMA ForkMove ==
    ASSUME IInv, NEW c \in CPUs, NEW p \in Slots, NEW x \in Slots, NEW l, Forking(c, p, x, l)
    PROVE  Machine' /\ StatesOK' /\ People' /\ SleepersOK'
  <1> USE DEF UNUSED, EMBRYO, SLEEPING, RUNNABLE, RUNNING, ZOMBIE, Forking
  <1>1. /\ state[p] = RUNNING /\ lock # c /\ tickslock # c /\ At(p) = pc[p]
        /\ x \in Slots \ {p, InitProc} /\ state[x] = EMBRYO /\ parent[x] \in {p, None}
        /\ np[x] = None /\ ~OnStack(x) /\ pc[x] \in {"forkret", "zombie"}
        /\ \A q \in Slots : np[q] = x => q = p
        /\ \A r \in Slots : parent[r] # x
    BY ForkOwns
  <1>2. l \in RunLabels /\ l \notin LockLabels /\ l \notin TickLabels /\ l \notin TrapLabels /\ l # "sleep_lock"
    BY DEF RunLabels, IrqLabels, TrapLabels, ForkLabels, LockLabels, TickLabels, Switching, Woken
  <1>3. Machine'
    <2>1. CpusOK'
      <3>1. \A d \in CPUs : irq[d] # "none" /\ ctx[d] # None => pc'[ctx[d]] = pc[ctx[d]]
        BY <1>1, Executes DEF IInv, Types, TypeOK, OnStack
      <3> QED
        BY <3>1 DEF cpu, IInv, Machine, CpusOK, OneCpuPerStack
    <2>2. LocksOK'
      <3>1. ctx[c] = p /\ irq[c] = "none" /\ p # None /\ \A d \in CPUs : ctx[d] = p => d = c
        BY Executes
      <3>2. (lock' = c <=> Holds(c)') /\ (tickslock' = c <=> HoldsTicks(c)')
        BY <1>1, <1>2, <3>1 DEF cpu, locks, Holds, HoldsTicks
      <3>3. ASSUME NEW d \in CPUs \ {c}
            PROVE  (lock' = d <=> Holds(d)') /\ (tickslock' = d <=> HoldsTicks(d)')
        <4>1. ctx[d] # None => pc'[ctx[d]] = pc[ctx[d]]
          BY <1>1, <3>1 DEF IInv, Types, TypeOK, OnStack
        <4> QED
          BY <4>1 DEF IInv, Machine, LocksOK, Holds, HoldsTicks, cpu, locks
      <3> QED
        BY <3>2, <3>3 DEF LocksOK
    <2> QED
      BY <2>1, <2>2 DEF Machine
  <1>4. StatesOK'
    <2>1. Parked(x)' /\ (state'[x] \in {UNUSED, EMBRYO} \/ kstack'[x])
      BY DEF Parked, Woken
    <2>2. pc[p] \in RunLabels
      BY DEF ForkLabels, RunLabels, IrqLabels
    <2> QED
      BY <1>1, <1>2, <2>1, <2>2, SlotStates DEF cpu
  <1>5. ForksOK'
    <2>1. \A q \in Slots \ {p} : np[q] # None => np[q] \in Slots \ {x, p}
      BY <1>1 DEF IInv, People, ForksOK, Types, TypeOK
    <2>2. At(x)' \notin ForkLabels /\ np'[x] = None
      BY <1>1 DEF At, ForkLabels, TrapLabels
    <2>3. ASSUME NEW q \in Slots \ {p, x}
          PROVE  /\ np'[q] # None <=> At(q)' \in ForkLabels
                 /\ np'[q] # None =>
                      /\ state'[np'[q]] = EMBRYO
                      /\ At(q)' # "fork_kalloc" => kstack'[np'[q]] /\ pc'[np'[q]] = "forkret"
                      /\ parent'[np'[q]] = (IF At(q)' = "fork_run" THEN q ELSE None)
                      /\ \A r \in Slots : np'[r] = np'[q] => r = q
      <3>1. /\ np[q] # None <=> At(q) \in ForkLabels
            /\ np[q] # None =>
                      /\ state[np[q]] = EMBRYO
                      /\ At(q) # "fork_kalloc" => kstack[np[q]] /\ pc[np[q]] = "forkret"
                      /\ parent[np[q]] = (IF At(q) = "fork_run" THEN q ELSE None)
                      /\ \A r \in Slots : np[r] = np[q] => r = q
        BY DEF IInv, People, ForksOK
      <3>2. np'[q] = np[q] /\ At(q)' = At(q) /\ np'[p] \in {None, x}
        OBVIOUS
      <3> QED
        BY <2>1, <3>1, <3>2
    <2>4. /\ np'[p] # None <=> l \in ForkLabels
          /\ np'[p] # None => \A r \in Slots : np'[r] = np'[p] => r = p
      BY <1>1, Numbers DEF ForkLabels
    <2> QED
      BY <2>2, <2>3, <2>4 DEF ForksOK, ForkLabels
  <1>6. InitOK'
    BY <1>1, Numbers DEF IInv, People, InitOK
  <1>7. FamilyOK'
    <2>1. ASSUME NEW r \in Slots \ {InitProc, x}
          PROVE  /\ parent'[r] # r
                 /\ state'[r] = UNUSED => parent'[r] = None
                 /\ state'[r] = EMBRYO /\ parent'[r] # None => np'[parent'[r]] = r
                 /\ state'[r] \notin {UNUSED, EMBRYO} => parent'[r] # None /\ state'[parent'[r]] \in Live
      <3>1. /\ parent[r] # r
            /\ state[r] = UNUSED => parent[r] = None
            /\ state[r] = EMBRYO /\ parent[r] # None => np[parent[r]] = r
            /\ state[r] \notin {UNUSED, EMBRYO} => parent[r] # None /\ state[parent[r]] \in Live
        BY DEF IInv, People, FamilyOK
      <3>2. parent[r] # None => parent[r] \in Slots \ {x}
        BY <1>1 DEF IInv, Types, TypeOK
      <3>3. state[r] = EMBRYO /\ parent[r] # None => parent[r] # p
        BY <3>1
      <3> QED
        BY <3>1, <3>2, <3>3
    <2>2. /\ parent'[x] # x /\ (state'[x] = UNUSED => parent'[x] = None)
          /\ state'[x] = EMBRYO /\ parent'[x] # None => np'[parent'[x]] = x
          /\ state'[x] \notin {UNUSED, EMBRYO} => parent'[x] # None /\ state'[parent'[x]] \in Live
      BY <1>1, Numbers DEF Live
    <2> QED
      BY <2>1, <2>2 DEF FamilyOK
  <1>8. PidsOK'
    BY <1>1 DEF IInv, People, PidsOK, PidsUnique
  <1>9. SleepersOK'
    <2>1. \A r \in Slots \ {p} : Children(r)' = Children(r) /\ Zombies(r)' = Zombies(r)
      <3>1. /\ parent'[x] \in {None, p} /\ parent[x] \in {None, p}
            /\ \A q \in Slots \ {x} : parent'[q] = parent[q] /\ state'[q] = state[q]
        BY <1>1
      <3> HIDE DEF Forking
      <3> QED
        BY <3>1, Numbers DEF Children, Zombies
    <2>2. \A r \in Slots : Pending(r)' <=> Pending(r)
      BY DEF Pending
    <2>3. state'[x] # SLEEPING /\ state'[p] = RUNNING /\ pc'[x] # "sleep_lock"
      BY <1>1
    <2> QED
      BY <1>2, <2>1, <2>2, <2>3 DEF IInv, SleepersOK, cpu
  <1> QED
    BY <1>3, <1>4, <1>5, <1>6, <1>7, <1>8, <1>9 DEF People

LEMMA StepForkKalloc ==
    ASSUME IInv, NEW c \in CPUs, NEW p \in Slots, ForkKalloc(c, p)
    PROVE  IInv'
  <1> DEFINE x == np[p]
  <1>1. /\ On(c, p) /\ pc[p] = "fork_kalloc" /\ pc[p] \in ForkLabels
        /\ UNCHANGED <<pid, killed, chan, nextpid, locks, ticks, cpu, ret, ticks0, dur, panicked>>
    BY DEF ForkKalloc, ForkLabels
  <1>2. /\ x \in Slots \ {p} /\ state[x] = EMBRYO
        /\ pc[x] \in {"forkret", "zombie"} /\ parent[x] = (IF pc[p] = "fork_run" THEN p ELSE None)
        /\ pc[p] # "fork_kalloc" => kstack[x] /\ pc[x] = "forkret"
    BY <1>1, ForkOwns
  <1>3. scheduler' = scheduler
    BY DEF ForkKalloc
  <1>4. ASSUME kstack' = [kstack EXCEPT ![x] = TRUE],
               pc' = [pc EXCEPT ![p] = "fork_copy", ![x] = "forkret"], UNCHANGED <<state, parent, np>>
        PROVE  IInv'
    <2>1. Types'
      BY <1>1, <1>2, <1>3, <1>4 DEF IInv, Types, TypeOK, Locals, States, UNUSED, RUNNABLE, locks,
         cpu, Labels, RunLabels, IrqLabels, TrapLabels, ForkLabels, LockLabels, TickLabels,
         Switching, Woken
    <2>2. Forking(c, p, x, "fork_copy")
      BY <1>1, <1>2, <1>4 DEF Forking, IInv, Types, TypeOK, Locals, At, TrapLabels, locks, cpu
    <2> QED
      BY <1>2, <2>1, <2>2, ForkMove DEF IInv
  <1>5. ASSUME state' = [state EXCEPT ![x] = UNUSED], np' = [np EXCEPT ![p] = None],
               pc' = [pc EXCEPT ![p] = "sysret"], UNCHANGED <<kstack, parent>>
        PROVE  IInv'
    <2>1. Types'
      BY <1>1, <1>2, <1>3, <1>5 DEF IInv, Types, TypeOK, Locals, States, UNUSED, RUNNABLE, locks,
         cpu, Labels, RunLabels, IrqLabels, TrapLabels, ForkLabels, LockLabels, TickLabels,
         Switching, Woken
    <2>2. Forking(c, p, x, "sysret")
      BY <1>1, <1>2, <1>5 DEF Forking, IInv, Types, TypeOK, Locals, At, TrapLabels, locks, cpu
    <2> QED
      BY <1>2, <2>1, <2>2, ForkMove DEF IInv
  <1> QED
    BY <1>4, <1>5 DEF ForkKalloc, Goto

LEMMA StepForkCopy ==
    ASSUME IInv, NEW c \in CPUs, NEW p \in Slots, ForkCopy(c, p)
    PROVE  IInv'
  <1> DEFINE x == np[p]
  <1>1. /\ On(c, p) /\ pc[p] = "fork_copy" /\ pc[p] \in ForkLabels
        /\ UNCHANGED <<pid, killed, chan, nextpid, locks, ticks, cpu, ret, ticks0, dur, panicked>>
    BY DEF ForkCopy, ForkLabels
  <1>2. /\ x \in Slots \ {p} /\ state[x] = EMBRYO
        /\ pc[x] \in {"forkret", "zombie"} /\ parent[x] = (IF pc[p] = "fork_run" THEN p ELSE None)
        /\ pc[p] # "fork_kalloc" => kstack[x] /\ pc[x] = "forkret"
    BY <1>1, ForkOwns
  <1>3. scheduler' = scheduler
    BY DEF ForkCopy
  <1>4. ASSUME parent' = [parent EXCEPT ![x] = p],
               pc' = [pc EXCEPT ![p] = "fork_run"], UNCHANGED <<state, kstack, np>>
        PROVE  IInv'
    <2>1. Types'
      BY <1>1, <1>2, <1>3, <1>4 DEF IInv, Types, TypeOK, Locals, States, UNUSED, RUNNABLE, locks,
         cpu, Labels, RunLabels, IrqLabels, TrapLabels, ForkLabels, LockLabels, TickLabels,
         Switching, Woken
    <2>2. Forking(c, p, x, "fork_run")
      BY <1>1, <1>2, <1>4 DEF Forking, IInv, Types, TypeOK, Locals, At, TrapLabels, locks, cpu
    <2> QED
      BY <1>2, <2>1, <2>2, ForkMove DEF IInv
  <1>5. ASSUME kstack' = [kstack EXCEPT ![x] = FALSE], state' = [state EXCEPT ![x] = UNUSED],
               np' = [np EXCEPT ![p] = None], pc' = [pc EXCEPT ![p] = "sysret"], UNCHANGED parent
        PROVE  IInv'
    <2>1. Types'
      BY <1>1, <1>2, <1>3, <1>5 DEF IInv, Types, TypeOK, Locals, States, UNUSED, RUNNABLE, locks,
         cpu, Labels, RunLabels, IrqLabels, TrapLabels, ForkLabels, LockLabels, TickLabels,
         Switching, Woken
    <2>2. Forking(c, p, x, "sysret")
      BY <1>1, <1>2, <1>5 DEF Forking, IInv, Types, TypeOK, Locals, At, TrapLabels, locks, cpu
    <2> QED
      BY <1>2, <2>1, <2>2, ForkMove DEF IInv
  <1> QED
    BY <1>4, <1>5 DEF ForkCopy, Goto

LEMMA StepForkRun ==
    ASSUME IInv, NEW c \in CPUs, NEW p \in Slots, ForkRun(c, p)
    PROVE  IInv'
  <1> DEFINE x == np[p]
  <1>1. /\ On(c, p) /\ pc[p] = "fork_run" /\ pc[p] \in ForkLabels
        /\ UNCHANGED <<pid, killed, chan, nextpid, locks, ticks, cpu, ret, ticks0, dur, panicked>>
    BY DEF ForkRun, ForkLabels
  <1>2. /\ x \in Slots \ {p} /\ state[x] = EMBRYO
        /\ pc[x] \in {"forkret", "zombie"} /\ parent[x] = (IF pc[p] = "fork_run" THEN p ELSE None)
        /\ pc[p] # "fork_kalloc" => kstack[x] /\ pc[x] = "forkret"
    BY <1>1, ForkOwns
  <1>3. scheduler' = scheduler
    BY DEF ForkRun
  <1>4. ASSUME state' = [state EXCEPT ![x] = RUNNABLE], np' = [np EXCEPT ![p] = None],
               pc' = [pc EXCEPT ![p] = "sysret"], UNCHANGED <<parent, kstack>>
        PROVE  IInv'
    <2>1. Types'
      BY <1>1, <1>2, <1>3, <1>4 DEF IInv, Types, TypeOK, Locals, States, UNUSED, RUNNABLE, locks,
         cpu, Labels, RunLabels, IrqLabels, TrapLabels, ForkLabels, LockLabels, TickLabels,
         Switching, Woken
    <2>2. Forking(c, p, x, "sysret")
      BY <1>1, <1>2, <1>4 DEF Forking, IInv, Types, TypeOK, Locals, At, TrapLabels, locks, cpu
    <2> QED
      BY <1>2, <2>1, <2>2, ForkMove DEF IInv
  <1> QED
    BY <1>4 DEF ForkRun, Goto

-----------------------------------------------------------------------------
(***************************************************************************)
(* The switches of stacks and the scheduler.                               *)
(***************************************************************************)

LEMMA ResumeLabels ==
    /\ DOMAIN Resume = Switching
    /\ Resume["sched_exit"] = "zombie" /\ Resume["sched_wait"] = "wait_woken"
    /\ Resume["sched_sleep"] = "sleep_woken"
    /\ Resume["sched_yield1"] = "yielded1" /\ Resume["sched_yield2"] = "yielded2"
  BY DEF Resume, Switching

\* The assertions of sched() hold, and what leaves the stack is parked.
LEMMA StepSched ==
    ASSUME IInv, NEW c \in CPUs, NEW p \in Slots, Sched(c, p)
    PROVE  IInv'
  <1> USE DEF UNUSED, EMBRYO, SLEEPING, RUNNABLE, RUNNING, ZOMBIE
  <1>1. On(c, p) /\ pc[p] \in Switching
    BY ResumeLabels DEF Sched
  <1>2. lock = c /\ tickslock # c
    BY <1>1, Executes DEF LockLabels, TickLabels, Switching
  <1>3. Executing(p) /\ state[p] # RUNNING /\ (pc[p] = "sched_exit" <=> state[p] = ZOMBIE)
        /\ state[p] \notin {UNUSED, EMBRYO}
    BY <1>1, Executes DEF Executing, Asleep, RunLabels, IrqLabels, TrapLabels, ForkLabels,
       LockLabels, TickLabels, Switching, Woken
  <1> DEFINE l == Resume[pc[p]]
  <1>4. /\ ctx' = [ctx EXCEPT ![c] = None] /\ pc' = [pc EXCEPT ![p] = l]
        /\ UNCHANGED <<table, locks, ticks, proc, pos, irq, ret, np, ticks0, dur, panicked>>
    BY <1>2, <1>3 DEF Sched, Goto
  <1>5. /\ l \in Woken \cup {"zombie"} /\ l \in Labels
        /\ l = "zombie" <=> pc[p] = "sched_exit"
        /\ l \in TrapLabels <=> pc[p] \in TrapLabels
    BY <1>1, ResumeLabels DEF Labels, RunLabels, IrqLabels, TrapLabels, ForkLabels, LockLabels,
       TickLabels, Switching, Woken
  <1>6. Parked(p)'
    <2>1. pc'[p] = l /\ state' = state /\ chan' = chan
      BY <1>4 DEF IInv, Types, Locals, table
    <2> QED
      BY <1>1, <1>3, <2>1, ResumeLabels DEF Executing, Asleep, Parked, RunLabels, IrqLabels,
         TrapLabels, ForkLabels, LockLabels, TickLabels, Switching, Woken
  <1> HIDE DEF l
  <1>7. Types'
    BY <1>4, <1>5, Numbers DEF IInv, Types, TypeOK, Locals, table, locks
  <1>8. /\ pc'[p] = l /\ \A q \in Slots \ {p} : pc'[q] = pc[q] /\ At(q)' = At(q)
        /\ ctx'[c] = None /\ \A d \in CPUs \ {c} : ctx'[d] = ctx[d]
    BY <1>4 DEF IInv, Types, TypeOK, Locals, At
  <1>9. ctx[c] = p /\ irq[c] = "none" /\ p # None /\ proc[c] = p /\ \A d \in CPUs : ctx[d] = p => d = c
    BY <1>1, Executes DEF On
  <1>10. pos[c] = p
    BY <1>9 DEF IInv, Machine, CpusOK
  <1>11. CpusOK'
    <2>1. \A d \in CPUs \ {c} : ctx[d] # None => pc'[ctx[d]] = pc[ctx[d]]
      BY <1>8, <1>9 DEF IInv, Types, TypeOK
    <2> QED
      BY <1>4, <1>8, <1>9, <2>1 DEF IInv, Machine, CpusOK, OneCpuPerStack
  <1>12. LocksOK'
    <2>1. \A d \in CPUs \ {c} : ctx[d] # None => pc'[ctx[d]] = pc[ctx[d]]
      BY <1>8, <1>9 DEF IInv, Types, TypeOK
    <2> QED
      BY <1>2, <1>4, <1>8, <1>9, <1>10, <2>1 DEF IInv, Machine, LocksOK, Holds, HoldsTicks, locks
  <1>13. StatesOK'
    <2>1. ~OnStack(p)' /\ \A q \in Slots \ {p} : OnStack(q)' <=> OnStack(q)
      BY <1>8, <1>9, Numbers DEF OnStack
    <2>2. \A q \in Slots \ {p} : (Executing(q)' <=> Executing(q)) /\ (Parked(q)' <=> Parked(q))
      BY <1>4, <1>8 DEF Executing, Parked, Asleep, table
    <2> QED
      BY <1>4, <1>6, <2>1, <2>2 DEF IInv, StatesOK, table
  <1>14. \/ At(p)' = At(p)
         \/ At(p) = pc[p] /\ At(p)' = l /\ At(p) \notin ForkLabels /\ At(p)' \notin ForkLabels
    BY <1>1, <1>4, <1>5, <1>8 DEF At, RunLabels, IrqLabels, TrapLabels, ForkLabels, LockLabels,
       TickLabels, Switching, Woken
  <1>15. ForksOK'
    <2>1. \A q \in Slots : np[q] # None => np[q] \in Slots \ {p}
      BY <1>3 DEF IInv, People, ForksOK, Types, TypeOK
    <2>2. \A q \in Slots : At(q)' = At(q) \/ (At(q) \notin ForkLabels /\ At(q)' \notin ForkLabels)
      BY <1>8, <1>14
    <2> QED
      BY <1>4, <1>8, <2>1, <2>2 DEF IInv, People, ForksOK, ForkLabels, table
  <1>16. InitOK'
    <2>1. p = InitProc => l \notin {"exit_lock", "sched_exit", "zombie", "exit"}
      BY <1>3, <1>5 DEF IInv, People, InitOK, Live, Woken
    <2> QED
      BY <1>4, <1>8, <1>14, <2>1, Numbers DEF IInv, People, InitOK, table
  <1>17. FamilyOK' /\ PidsOK'
    BY <1>4 DEF IInv, People, FamilyOK, PidsOK, PidsUnique, table
  <1>18. SleepersOK'
    <2>1. \A q \in Slots : Children(q)' = Children(q) /\ Zombies(q)' = Zombies(q) /\ (Pending(q)' <=> Pending(q))
      BY <1>4 DEF Children, Zombies, Pending, table
    <2>2. l # "sleep_lock"
      BY <1>5 DEF Woken
    <2> QED
      BY <1>4, <1>8, <2>1, <2>2 DEF IInv, SleepersOK, table
  <1> QED
    BY <1>7, <1>11, <1>12, <1>13, <1>15, <1>16, <1>17, <1>18 DEF IInv, Machine, People

\* A step of a CPU that no process sees.
LEMMA MoveCpu ==
    ASSUME IInv, UNCHANGED <<table, ctx, pc, ret, np, ticks, ticks0, dur, panicked>>,
           \A d \in CPUs : irq'[d] = "wake" <=> irq[d] = "wake"
    PROVE  StatesOK' /\ People' /\ SleepersOK'
  <1> USE DEF table
  <1>1. StatesOK'
    BY DEF IInv, StatesOK, OnStack, Executing, Parked, Asleep
  <1>2. People'
    BY DEF IInv, People, ForksOK, InitOK, FamilyOK, PidsOK, PidsUnique, At
  <1>3. SleepersOK'
    BY DEF IInv, SleepersOK, Children, Zombies, Pending
  <1> QED
    BY <1>1, <1>2, <1>3

LEMMA StepSchedulerLock ==
    ASSUME IInv, NEW c \in CPUs, SchedulerLock(c)
    PROVE  IInv'
  <1>1. /\ ctx[c] = None /\ irq[c] = "none" /\ pos[c] = None /\ lock = NoCpu /\ lock' = c
        /\ pos' = [pos EXCEPT ![c] = 1]
        /\ UNCHANGED <<table, tickslock, ticks, ctx, proc, irq, thread, panicked>>
    BY DEF SchedulerLock, InScheduler
  <1>2. Types'
    BY <1>1, Numbers DEF IInv, Types, TypeOK, Locals, table, thread, InitProc
  <1>3. pos'[c] = 1 /\ 1 # None /\ \A d \in CPUs \ {c} : pos'[d] = pos[d]
    BY <1>1 DEF IInv, Types, TypeOK, None
  <1>4. proc[c] = None
    BY <1>1 DEF IInv, Machine, CpusOK
  <1>5. CpusOK'
    BY <1>1, <1>3, <1>4 DEF IInv, Machine, CpusOK, OneCpuPerStack, thread
  <1>6. LocksOK'
    BY <1>1, <1>3, Numbers DEF IInv, Machine, LocksOK, Holds, HoldsTicks, thread
  <1> QED
    BY <1>1, <1>2, <1>5, <1>6, MoveCpu DEF IInv, Machine, thread

LEMMA StepSchedulerUnlock ==
    ASSUME IInv, NEW c \in CPUs, SchedulerUnlock(c)
    PROVE  IInv'
  <1>1. /\ ctx[c] = None /\ irq[c] = "none" /\ pos[c] # None /\ proc[c] = None /\ lock' = NoCpu
        /\ pos' = [pos EXCEPT ![c] = None]
        /\ UNCHANGED <<table, tickslock, ticks, ctx, proc, irq, thread, panicked>>
    BY DEF SchedulerUnlock, InScheduler
  <1>2. Types'
    BY <1>1, Numbers DEF IInv, Types, TypeOK, Locals, table, thread
  <1>3. pos'[c] = None /\ \A d \in CPUs \ {c} : pos'[d] = pos[d]
    BY <1>1 DEF IInv, Types, TypeOK
  <1>4. lock = c
    BY <1>1 DEF IInv, Machine, LocksOK, Holds
  <1>5. CpusOK'
    BY <1>1, <1>3 DEF IInv, Machine, CpusOK, OneCpuPerStack, thread
  <1>6. LocksOK'
    BY <1>1, <1>3, <1>4, Numbers DEF IInv, Machine, LocksOK, Holds, HoldsTicks, thread
  <1> QED
    BY <1>1, <1>2, <1>5, <1>6, MoveCpu DEF IInv, Machine, thread

LEMMA StepSchedulerBack ==
    ASSUME IInv, NEW c \in CPUs, SchedulerBack(c)
    PROVE  IInv'
  <1>1. /\ ctx[c] = None /\ irq[c] = "none" /\ proc[c] # None
        /\ proc' = [proc EXCEPT ![c] = None] /\ pos' = [pos EXCEPT ![c] = pos[c] + 1]
        /\ UNCHANGED <<table, lock, tickslock, ticks, ctx, irq, thread, panicked>>
    BY DEF SchedulerBack, InScheduler, NextSlot, locks
  <1>2. pos[c] = proc[c] /\ proc[c] \in Slots
    BY <1>1 DEF IInv, Machine, CpusOK, Types, TypeOK
  <1>3. pos[c] + 1 \in 0 .. (NPROC + 1) /\ pos[c] + 1 # None
    BY <1>2, Numbers DEF Slots, None
  <1>4. Types'
    BY <1>1, <1>3, Numbers DEF IInv, Types, TypeOK, Locals, table, thread
  <1>5. /\ pos'[c] = pos[c] + 1 /\ proc'[c] = None
        /\ \A d \in CPUs \ {c} : pos'[d] = pos[d] /\ proc'[d] = proc[d]
    BY <1>1 DEF IInv, Types, TypeOK
  <1>6. CpusOK'
    BY <1>1, <1>5 DEF IInv, Machine, CpusOK, OneCpuPerStack, thread
  <1>7. LocksOK'
    BY <1>1, <1>2, <1>3, <1>5 DEF IInv, Machine, LocksOK, Holds, HoldsTicks, thread
  <1> QED
    BY <1>1, <1>4, <1>6, <1>7, MoveCpu DEF IInv, Machine, thread

\* The process the scheduler takes is off every stack: had another CPU still
\* been leaving it, that CPU would hold ptable.lock.
LEMMA StepSchedulerSwitch ==
    ASSUME IInv, NEW c \in CPUs, SchedulerSwitch(c)
    PROVE  IInv'
  <1> USE DEF UNUSED, EMBRYO, SLEEPING, RUNNABLE, RUNNING, ZOMBIE
  <1>1. PICK q \in Slots :
           /\ ctx[c] = None /\ irq[c] = "none" /\ pos[c] # None /\ proc[c] = None
           /\ state[q] = RUNNABLE
           /\ proc' = [proc EXCEPT ![c] = q] /\ ctx' = [ctx EXCEPT ![c] = q] /\ pos' = [pos EXCEPT ![c] = q]
           /\ state' = [state EXCEPT ![q] = RUNNING]
           /\ UNCHANGED <<pid, parent, killed, chan, scheduler, kstack, nextpid, locks, ticks, irq, thread, panicked>>
    BY DEF SchedulerSwitch, InScheduler, IsFirst, Ready
  <1>2. lock = c /\ tickslock # c
    BY <1>1 DEF IInv, Machine, LocksOK, Holds, HoldsTicks
  <1>3. \A d \in CPUs : ctx[d] # q
    BY <1>1, <1>2, LockExcludes, Numbers
  <1>4. pc[q] \in Woken
    <2>1. Parked(q)
      BY <1>3 DEF IInv, StatesOK, OnStack
    <2> QED
      BY <1>1, <2>1 DEF Parked, Asleep
  <1>5. Types'
    BY <1>1, Numbers DEF IInv, Types, TypeOK, Locals, States, locks, thread
  <1>6. /\ pos'[c] = q /\ proc'[c] = q /\ ctx'[c] = q /\ q # None
        /\ \A d \in CPUs \ {c} : pos'[d] = pos[d] /\ proc'[d] = proc[d] /\ ctx'[d] = ctx[d]
        /\ state'[q] = RUNNING /\ \A r \in Slots \ {q} : state'[r] = state[r]
    BY <1>1, Numbers DEF IInv, Types, TypeOK
  <1>7. CpusOK'
    BY <1>1, <1>3, <1>6 DEF IInv, Machine, CpusOK, OneCpuPerStack, thread
  <1>8. LocksOK'
    BY <1>1, <1>2, <1>4, <1>6
       DEF IInv, Machine, LocksOK, Holds, HoldsTicks, locks, thread, LockLabels, TickLabels, Woken
  <1>9. StatesOK'
    <2>1. OnStack(q)' /\ \A r \in Slots \ {q} : OnStack(r)' <=> OnStack(r)
      BY <1>1, <1>6, Numbers DEF OnStack
    <2>2. Executing(q)' /\ \A r \in Slots \ {q} : (Executing(r)' <=> Executing(r)) /\ (Parked(r)' <=> Parked(r))
      BY <1>1, <1>4, <1>6 DEF Executing, Parked, Asleep, RunLabels, thread
    <2> QED
      BY <1>1, <1>6, <2>1, <2>2 DEF IInv, StatesOK
  <1>10. ForksOK'
    <2>1. \A r \in Slots : np[r] # None => np[r] \in Slots \ {q}
      BY <1>1 DEF IInv, People, ForksOK, Types, TypeOK
    <2>2. \A r \in Slots : At(r)' = At(r)
      BY <1>1 DEF At, thread
    <2> QED
      BY <1>1, <1>6, <2>1, <2>2 DEF IInv, People, ForksOK, thread
  <1>11. InitOK'
    BY <1>1, <1>6, Numbers DEF IInv, People, InitOK, Live, At, thread
  <1>12. FamilyOK' /\ PidsOK'
    BY <1>1, <1>6 DEF IInv, People, FamilyOK, PidsOK, PidsUnique, Live, thread, Types, TypeOK
  <1>13. SleepersOK'
    <2>1. \A r \in Slots : Children(r)' = Children(r) /\ Zombies(r)' = Zombies(r) /\ (Pending(r)' <=> Pending(r))
      BY <1>1, <1>6 DEF Children, Zombies, Pending, thread
    <2> QED
      BY <1>1, <1>6, <2>1 DEF IInv, SleepersOK, thread
  <1> QED
    BY <1>5, <1>7, <1>8, <1>9, <1>10, <1>11, <1>12, <1>13 DEF IInv, Machine, People

-----------------------------------------------------------------------------
(***************************************************************************)
(* The timer.                                                              *)
(***************************************************************************)

LEMMA StepTimerIrq ==
    ASSUME IInv, NEW c \in CPUs, TimerIrq(c)
    PROVE  IInv'
  <1>1. PICK i \in {"tick", "dispatch"} :
           /\ irq' = [irq EXCEPT ![c] = i] /\ irq[c] = "none"
           /\ UNCHANGED <<table, lock, tickslock, ticks, ctx, proc, pos, thread, panicked>>
    BY DEF TimerIrq, Interruptible, InScheduler, On, locks
  <1>2. irq'[c] = i /\ \A d \in CPUs \ {c} : irq'[d] = irq[d]
    BY <1>1 DEF IInv, Types, TypeOK
  <1>3. IF ctx[c] = None THEN pos[c] = None ELSE pc[ctx[c]] \in IrqLabels
    BY Numbers DEF TimerIrq, Interruptible, InScheduler, On, IrqLabels
  <1>4. Types'
    BY <1>1 DEF IInv, Types, TypeOK, Locals, table, thread
  <1>5. CpusOK'
    BY <1>1, <1>2, <1>3 DEF IInv, Machine, CpusOK, OneCpuPerStack, thread
  <1>6. LocksOK'
    BY <1>1, <1>2 DEF IInv, Machine, LocksOK, Holds, HoldsTicks, thread
  <1>7. \A d \in CPUs : irq'[d] = "wake" <=> irq[d] = "wake"
    BY <1>1, <1>2
  <1> QED
    BY <1>1, <1>4, <1>5, <1>6, <1>7, MoveCpu DEF IInv, Machine, thread

\* A sleeper that is not yet awake has not seen the new tick; a process between
\* the test of sys_sleep and its sleep() holds tickslock, so there is none.
LEMMA StepTickCount ==
    ASSUME IInv, NEW c \in CPUs, TickCount(c)
    PROVE  IInv'
  <1>1. /\ irq[c] = "tick" /\ tickslock = NoCpu /\ tickslock' = c
        /\ ticks' = (ticks + 1) % TickMod /\ irq' = [irq EXCEPT ![c] = "wake"]
        /\ UNCHANGED <<table, lock, ctx, proc, pos, thread, panicked>>
    BY DEF TickCount
  <1>2. irq'[c] = "wake" /\ \A d \in CPUs \ {c} : irq'[d] = irq[d]
    BY <1>1 DEF IInv, Types, TypeOK
  <1>3. Types'
    <2>1. ticks' \in 0 .. (TickMod - 1)
      BY <1>1, ProcAssumption DEF IInv, Types, TypeOK
    <2> QED
      BY <1>1, <2>1 DEF IInv, Types, TypeOK, Locals, table, thread
  <1>4. CpusOK'
    BY <1>1, <1>2 DEF IInv, Machine, CpusOK, OneCpuPerStack, thread
  <1>5. LocksOK'
    BY <1>1, <1>2, Numbers DEF IInv, Machine, LocksOK, Holds, HoldsTicks, thread
  <1>6. StatesOK' /\ People'
    BY <1>1 DEF IInv, StatesOK, OnStack, Executing, Parked, Asleep, thread, table,
                People, ForksOK, InitOK, FamilyOK, PidsOK, PidsUnique, At
  <1>7. ASSUME NEW p \in Slots, pc[p] = "sleep_lock" PROVE FALSE
    <2>1. OnStack(p)
      BY <1>7 DEF IInv, StatesOK, Parked, Asleep, Woken
    <2>2. PICK d \in CPUs : ctx[d] = p
      BY <2>1 DEF OnStack
    <2>3. tickslock = d
      BY <1>7, <2>2, Numbers DEF IInv, Machine, LocksOK, HoldsTicks, TickLabels
    <2> QED
      BY <1>1, <2>3, Numbers
  <1>8. SleepersOK'
    <2>1. \A r \in Slots : Children(r)' = Children(r) /\ Zombies(r)' = Zombies(r)
      BY <1>1 DEF Children, Zombies, table
    <2> QED
      BY <1>1, <1>2, <1>7, <2>1 DEF IInv, SleepersOK, thread, table
  <1> QED
    BY <1>3, <1>4, <1>5, <1>6, <1>8 DEF IInv, Machine

LEMMA StepTickWakeup ==
    ASSUME IInv, NEW c \in CPUs, TickWakeup(c)
    PROVE  IInv'
  <1> USE DEF UNUSED, EMBRYO, SLEEPING, RUNNABLE, RUNNING, ZOMBIE
  <1>1. /\ irq[c] = "wake" /\ lock = NoCpu /\ tickslock' = NoCpu
        /\ state' = Wakeup1({TickChan}) /\ irq' = [irq EXCEPT ![c] = "dispatch"]
        /\ UNCHANGED <<pid, parent, killed, chan, scheduler, kstack, nextpid, lock, ticks,
                       ctx, proc, pos, thread, panicked>>
    BY DEF TickWakeup
  <1>2. /\ irq'[c] = "dispatch" /\ \A d \in CPUs \ {c} : irq'[d] = irq[d]
        /\ \A q \in Slots : state'[q] = IF state[q] = SLEEPING /\ chan[q] = TickChan
                                        THEN RUNNABLE ELSE state[q]
    BY <1>1 DEF IInv, Types, TypeOK, Wakeup1
  <1>3. tickslock = c
    BY <1>1 DEF IInv, Machine, LocksOK, HoldsTicks
  <1>4. IF ctx[c] = None THEN pos[c] = None ELSE pc[ctx[c]] \in IrqLabels
    BY <1>1 DEF IInv, Machine, CpusOK
  <1>5. Types'
    <2>1. state' \in [Slots -> States]
      BY <1>1 DEF IInv, Types, TypeOK, States, Wakeup1
    <2> QED
      BY <1>1, <2>1 DEF IInv, Types, TypeOK, Locals, thread
  <1>6. CpusOK'
    BY <1>1, <1>2, <1>4 DEF IInv, Machine, CpusOK, OneCpuPerStack, thread
  <1>7. LocksOK'
    BY <1>1, <1>2, <1>3, <1>4, Numbers
       DEF IInv, Machine, LocksOK, Holds, HoldsTicks, thread, IrqLabels, TickLabels
  <1>8. StatesOK'
    <2>1. ASSUME NEW q \in Slots, OnStack(q) PROVE state[q] = RUNNING
      <3>1. PICK d \in CPUs : ctx[d] = q
        BY <2>1 DEF OnStack
      <3>2. pc[q] \notin LockLabels
        BY <1>1, <3>1, Numbers DEF IInv, Machine, LocksOK, Holds
      <3>3. Executing(q)
        BY <2>1 DEF IInv, StatesOK
      <3> QED
        BY <3>2, <3>3 DEF Executing, Asleep, LockLabels, Switching
    <2>2. \A q \in Slots : OnStack(q)' <=> OnStack(q)
      BY <1>1 DEF OnStack
    <2>3. \A q \in Slots : OnStack(q) /\ Executing(q) => Executing(q)'
      BY <1>1, <1>2, <2>1 DEF Executing, Asleep, thread
    <2>4. \A q \in Slots : Parked(q) => Parked(q)'
      BY <1>1, <1>2 DEF Parked, Asleep, Woken, thread
    <2> QED
      BY <1>1, <1>2, <2>2, <2>3, <2>4 DEF IInv, StatesOK
  <1>9. \A q \in Slots : At(q)' = At(q)
    BY <1>1 DEF At, thread
  <1>10. /\ \A q \in Slots : state'[q] = state[q] \/ (state[q] = SLEEPING /\ state'[q] = RUNNABLE)
         /\ UNCHANGED <<pid, nextpid, parent, kstack, pc, np, killed, panicked>>
    BY <1>1, <1>2 DEF thread
  <1>11. ForksOK' /\ InitOK'
    <2>1. \A q \in Slots : np[q] # None => np[q] \in Slots /\ state'[np[q]] = state[np[q]]
      BY <1>10, Numbers DEF IInv, People, ForksOK, Types, TypeOK, Locals
    <2>2. \A q \in Slots : At(q)' \in ForkLabels <=> At(q) \in ForkLabels
      BY <1>9
    <2>3. ForksOK'
      BY <1>9, <1>10, <2>1, <2>2 DEF IInv, People, ForksOK
    <2>4. InitProc \in Slots
      BY Numbers
    <2>5. InitOK'
      BY <1>9, <1>10, <2>4 DEF IInv, People, InitOK, Live
    <2> QED
      BY <2>3, <2>5
  <1>12. FamilyOK' /\ PidsOK'
    BY <1>10 DEF IInv, People, FamilyOK, PidsOK, PidsUnique, Live, Types, TypeOK
  <1>13. SleepersOK'
    <2>1. \A r \in Slots : Children(r)' = Children(r) /\ Zombies(r)' = Zombies(r) /\ (Pending(r)' <=> Pending(r))
      BY <1>1, <1>2 DEF Children, Zombies, Pending, thread
    <2> QED
      BY <1>1, <1>2, <2>1 DEF IInv, SleepersOK, thread
  <1> QED
    BY <1>5, <1>6, <1>7, <1>8, <1>11, <1>12, <1>13 DEF IInv, Machine, People

LEMMA StepTrapDispatch ==
    ASSUME IInv, NEW c \in CPUs, TrapDispatch(c)
    PROVE  IInv'
  <1> USE DEF UNUSED, EMBRYO, SLEEPING, RUNNABLE, RUNNING, ZOMBIE
  <1>1. /\ irq[c] = "dispatch" /\ irq' = [irq EXCEPT ![c] = "none"]
        /\ UNCHANGED <<state, pid, parent, chan, scheduler, kstack, nextpid, lock, tickslock, ticks,
                       ctx, proc, pos, panicked>>
    BY DEF TrapDispatch, locks
  <1>2. irq'[c] = "none" /\ \A d \in CPUs \ {c} : irq'[d] = irq[d]
    BY <1>1 DEF IInv, Types, TypeOK
  <1>3. \A d \in CPUs : irq'[d] = "wake" <=> irq[d] = "wake"
    BY <1>1, <1>2
  <1>4. IF ctx[c] = None THEN pos[c] = None ELSE pc[ctx[c]] \in IrqLabels
    BY <1>1 DEF IInv, Machine, CpusOK
  <1>5. CASE UNCHANGED <<killed, thread>>
    <2>1. Types'
      BY <1>1, <1>5 DEF IInv, Types, TypeOK, Locals, thread
    <2>2. CpusOK'
      BY <1>1, <1>2, <1>5 DEF IInv, Machine, CpusOK, OneCpuPerStack, thread
    <2>3. LocksOK'
      BY <1>1, <1>2, <1>5 DEF IInv, Machine, LocksOK, Holds, HoldsTicks, thread
    <2> QED
      BY <1>1, <1>3, <1>5, <2>1, <2>2, <2>3, MoveCpu DEF IInv, Machine, thread, table
  <1>6. ASSUME NEW p \in Slots, proc[c] = p, ret' = [ret EXCEPT ![p] = pc[p]],
               NEW l \in {"trap_check1", "trap_yield1"}, pc' = [pc EXCEPT ![p] = l],
               killed' = [killed EXCEPT ![p] = TRUE] \/ killed' = killed,
               UNCHANGED <<np, ticks0, dur>>
        PROVE  IInv'
    <2>1. ctx[c] = p /\ pc[p] \in IrqLabels /\ p # None
      BY <1>4, <1>6, Numbers DEF IInv, Machine, CpusOK
    <2>2. Executing(p) /\ OnStack(p) /\ state[p] = RUNNING
      BY <2>1 DEF IInv, StatesOK, OnStack, Executing, Asleep, IrqLabels
    <2>3. \A d \in CPUs : ctx[d] = p => d = c
      BY <2>1 DEF IInv, Machine, CpusOK, OneCpuPerStack
    <2>4. Types'
      BY <1>1, <1>6, <2>1 DEF IInv, Types, TypeOK, Locals, Labels, RunLabels
    <2>5. /\ pc'[p] = l /\ ret'[p] = pc[p]
          /\ \A q \in Slots \ {p} : pc'[q] = pc[q] /\ ret'[q] = ret[q] /\ killed'[q] = killed[q]
          /\ killed[p] => killed'[p]
      BY <1>6 DEF IInv, Types, TypeOK, Locals
    <2>6. \A q \in Slots : At(q)' = At(q)
      BY <2>1, <2>5 DEF At, TrapLabels, IrqLabels
    <2>7. \A d \in CPUs \ {c} : ctx[d] # None => pc'[ctx[d]] = pc[ctx[d]]
      BY <2>3, <2>5 DEF IInv, Types, TypeOK
    <2>8. CpusOK'
      BY <1>1, <1>2, <2>7 DEF IInv, Machine, CpusOK, OneCpuPerStack
    <2>9. LocksOK'
      <3>1. pc[p] \notin LockLabels /\ pc[p] \notin TickLabels /\ l \notin LockLabels /\ l \notin TickLabels
        BY <2>1 DEF IrqLabels, LockLabels, TickLabels, Switching, Woken
      <3> QED
        BY <1>1, <1>2, <2>1, <2>5, <2>7, <3>1 DEF IInv, Machine, LocksOK, Holds, HoldsTicks
    <2>10. StatesOK'
      <3>1. \A q \in Slots : OnStack(q)' <=> OnStack(q)
        BY <1>1 DEF OnStack
      <3>2. Executing(p)'
        BY <1>1, <2>2, <2>5 DEF Executing, RunLabels
      <3>3. \A q \in Slots \ {p} : (Executing(q)' <=> Executing(q)) /\ (Parked(q)' <=> Parked(q))
        BY <1>1, <2>5 DEF Executing, Parked, Asleep
      <3> QED
        BY <1>1, <2>2, <3>1, <3>2, <3>3 DEF IInv, StatesOK
    <2>11. ForksOK'
      <3>1. \A q \in Slots : np[q] # None => np[q] \in Slots \ {p}
        BY <2>2 DEF IInv, People, ForksOK, Types, TypeOK
      <3> QED
        BY <1>1, <1>6, <2>5, <2>6, <3>1 DEF IInv, People, ForksOK
    <2>12. InitOK'
      BY <1>1, <2>5, <2>6, Numbers DEF IInv, People, InitOK
    <2>13. FamilyOK' /\ PidsOK'
      BY <1>1, <1>6 DEF IInv, People, FamilyOK, PidsOK, PidsUnique
    <2>14. SleepersOK'
      <3>1. \A r \in Slots : Children(r)' = Children(r) /\ Zombies(r)' = Zombies(r) /\ (Pending(r)' <=> Pending(r))
        BY <1>1, <1>6 DEF Children, Zombies, Pending
      <3> QED
        BY <1>1, <1>3, <2>2, <2>5, <3>1 DEF IInv, SleepersOK
    <2> QED
      BY <2>4, <2>8, <2>9, <2>10, <2>11, <2>12, <2>13, <2>14 DEF IInv, Machine, People
  <1> QED
    BY <1>5, <1>6 DEF TrapDispatch, Goto

-----------------------------------------------------------------------------
(***************************************************************************)
(* The invariant and what follows from it.                                 *)
(***************************************************************************)

LEMMA InitIInv == Init => IInv
  <1> SUFFICES ASSUME Init PROVE IInv
    OBVIOUS
  <1> USE DEF UNUSED, EMBRYO, SLEEPING, RUNNABLE, RUNNING, ZOMBIE
  <1>1. Types
    <2>1. 0 \in 0 .. MaxPid /\ 1 \in 0 .. MaxPid /\ 0 \in 0 .. (TickMod - 1) /\ 2 \in Nat /\ 0 \in Nat
      BY ProcAssumption
    <2> QED
      BY <2>1, Numbers DEF Init, Types, TypeOK, Locals, States, Labels, RunLabels, IrqLabels,
         TrapLabels, ForkLabels, LockLabels, TickLabels, Switching, Woken
  <1>2. Machine
    BY Numbers DEF Init, Machine, CpusOK, OneCpuPerStack, LocksOK, Holds, HoldsTicks
  <1>3. StatesOK
    BY Numbers DEF Init, StatesOK, OnStack, Parked, Woken
  <1>4. \A p \in Slots : At(p) = "forkret"
    BY DEF Init, At, TrapLabels
  <1>5. ForksOK /\ InitOK
    BY <1>4, Numbers DEF Init, ForksOK, InitOK, Live, ForkLabels
  <1>6. FamilyOK
    BY Numbers DEF Init, FamilyOK
  <1>7. PidsOK
    BY DEF Init, PidsOK, PidsUnique
  <1>8. SleepersOK
    BY DEF Init, SleepersOK
  <1> QED
    BY <1>1, <1>2, <1>3, <1>5, <1>6, <1>7, <1>8 DEF IInv, People

LEMMA StepIInv == IInv /\ [Next]_vars => IInv'
  <1> SUFFICES ASSUME IInv, [Next]_vars PROVE IInv'
    OBVIOUS
  <1>1. CASE UNCHANGED vars
    <2>1. UNCHANGED <<table, locks, ticks, cpu, thread, panicked>>
      BY <1>1 DEF vars
    <2> QED
      BY <2>1, StepNothing DEF IInv, Types, TypeOK, People, InitOK
  <1>2. ASSUME NEW c \in CPUs, NEW p \in Slots, UserStep(c, p) PROVE IInv'
    BY <1>2, StepForkAlloc, StepExitCall, StepWaitCall, StepFault, StepUthreadInit, StepKillCall,
       StepSleepCall, StepSysReturn
    DEF UserStep
  <1>3. ASSUME NEW c \in CPUs, NEW p \in Slots, KernelStep(c, p) PROVE IInv'
    BY <1>3, StepForkKalloc, StepForkCopy, StepForkRun, StepExitBegin, StepExitLock,
       StepWaitScan, StepWaitWoken,
       StepSysReturn, StepSleepCheck, StepSleepLock, StepSleepWoken, StepSleepRelock, StepForkret
    DEF KernelStep
  <1>4. ASSUME NEW c \in CPUs, NEW p \in Slots, SwitchStep(c, p) PROVE IInv'
    BY <1>4, StepSched, StepYield, StepYieldBack, StepTrapCheck DEF SwitchStep
  <1>5. ASSUME NEW c \in CPUs, SchedulerStep(c) \/ TimerIrq(c) \/ TickStep(c) PROVE IInv'
    BY <1>5, StepSchedulerLock, StepSchedulerSwitch, StepSchedulerBack, StepSchedulerUnlock,
       StepTimerIrq,
       StepTickCount, StepTickWakeup, StepTrapDispatch DEF SchedulerStep, TickStep
  <1> QED
    BY <1>1, <1>2, <1>3, <1>4, <1>5 DEF Next

\* Types: pids, loop indices, channels and ticks keep their ranges.
THEOREM ProcTypes == Spec => []TypeOK
  <1>1. IInv => TypeOK
    BY DEF IInv, Types
  <1> QED
    BY <1>1, InitIInv, StepIInv, PTL DEF Spec

\* No two CPUs execute on one kernel stack, wait() frees no stack in use, and
\* RUNNING says which ones are.
THEOREM ProcStacksSafe == Spec => []StacksSafe
  <1>1. IInv => StacksSafe
    <2> SUFFICES ASSUME IInv PROVE StacksSafe
      OBVIOUS
    <2> USE DEF UNUSED, EMBRYO, SLEEPING, RUNNABLE, RUNNING, ZOMBIE
    <2>1. OneCpuPerStack
      BY DEF IInv, Machine, CpusOK
    <2>2. StackInUseIsAllocated
      <3>1. ASSUME NEW c \in CPUs, ctx[c] # None
            PROVE  kstack[ctx[c]] /\ state[ctx[c]] \notin {UNUSED, EMBRYO}
        <4>1. ctx[c] \in Slots /\ OnStack(ctx[c])
          BY <3>1 DEF IInv, Types, TypeOK, OnStack
        <4>2. Executing(ctx[c])
          BY <4>1 DEF IInv, StatesOK
        <4> QED
          BY <4>1, <4>2 DEF IInv, StatesOK, Executing, Asleep
      <3> QED
        BY <3>1 DEF StackInUseIsAllocated
    <2>3. RunningIsOnCpu
      <3> SUFFICES ASSUME lock = NoCpu, NEW p \in Slots
                   PROVE  state[p] = RUNNING <=> \E c \in CPUs : proc[c] = p
        BY DEF RunningIsOnCpu
      <3>1. ASSUME state[p] = RUNNING PROVE \E c \in CPUs : proc[c] = p
        <4>1. OnStack(p)
          BY <3>1 DEF IInv, StatesOK, Parked, Asleep
        <4> QED
          BY <4>1, Numbers DEF OnStack, IInv, Machine, CpusOK
      <3>2. ASSUME NEW c \in CPUs, proc[c] = p PROVE state[p] = RUNNING
        <4>1. lock # c /\ p # None
          BY Numbers
        <4>2. ctx[c] = p /\ pc[p] \notin LockLabels
          BY <3>2, <4>1 DEF IInv, Machine, CpusOK, LocksOK, Holds
        <4>3. Executing(p)
          BY <4>2 DEF IInv, StatesOK, OnStack
        <4> QED
          BY <4>2, <4>3 DEF Executing, Asleep, LockLabels, Switching
      <3> QED
        BY <3>1, <3>2
    <2> QED
      BY <2>1, <2>2, <2>3 DEF StacksSafe
  <1> QED
    BY <1>1, InitIInv, StepIInv, PTL DEF Spec

\* Nobody sleeps in wait() or sys_sleep past the event it waits for.
THEOREM ProcNoLostWakeup == Spec => []NoLostWakeup
  <1>1. IInv => NoLostWakeup
    BY DEF IInv, SleepersOK, NoLostWakeup
  <1> QED
    BY <1>1, InitIInv, StepIInv, PTL DEF Spec

\* Every process but the first has a living parent, and pids are unique.
THEOREM ProcFamilyIntact == Spec => []FamilyIntact
  <1>1. IInv => FamilyIntact
    BY DEF IInv, People, FamilyOK, PidsOK, Live, FamilyIntact, NoOrphans,
           UNUSED, EMBRYO, SLEEPING, RUNNABLE, RUNNING, ZOMBIE
  <1> QED
    BY <1>1, InitIInv, StepIInv, PTL DEF Spec

\* Wherever sched() is called its caller holds ptable.lock and no other lock,
\* and is not RUNNING any more.
LEMMA SchedAsserts ==
    ASSUME IInv, NEW c \in CPUs, NEW p \in Slots, Sched(c, p)
    PROVE  UNCHANGED panicked
  <1>1. On(c, p) /\ pc[p] \in Switching
    BY ResumeLabels DEF Sched
  <1>2. lock = c /\ tickslock # c
    BY <1>1, Executes DEF LockLabels, TickLabels, Switching
  <1>3. state[p] # RUNNING
    BY <1>1, Executes DEF Executing, Asleep, RunLabels, IrqLabels, TrapLabels, ForkLabels,
       LockLabels, TickLabels, Switching, Woken, RUNNABLE, RUNNING, SLEEPING, ZOMBIE
  <1> QED
    BY <1>2, <1>3 DEF Sched

\* The assertions of sched() never fail: the only panic is "init exiting", in an
\* exit() of the first process, whether it was killed or called it.
THEOREM ProcPanicOnlyForInit == Spec => []PanicOnlyForInit
  <1>1. Init => PanicOnlyForInit
    BY DEF Init, PanicOnlyForInit
  <1>2. ASSUME IInv, PanicOnlyForInit, [Next]_vars PROVE PanicOnlyForInit'
    <2>1. CASE UNCHANGED vars
      BY <1>2, <2>1 DEF PanicOnlyForInit, vars, On, cpu, thread
    <2>2. CASE ~panicked
      <3>1. ASSUME NEW c \in CPUs, NEW p \in Slots, ExitBegin(c, p) PROVE PanicOnlyForInit'
        BY <2>2, <3>1 DEF ExitBegin, Panic, PanicOnlyForInit, On, cpu, thread
      <3>2. ASSUME NEW c \in CPUs, NEW p \in Slots, Sched(c, p) PROVE UNCHANGED panicked
        BY <1>2, <3>2, SchedAsserts
      <3>3. ASSUME NEW c \in CPUs, NEW p \in Slots, UserStep(c, p) PROVE UNCHANGED panicked
        BY <3>3 DEF UserStep, ForkAlloc, ExitCall, WaitCall, Fault, UthreadInit, KilledCall,
           KillCall, SleepCall
      <3>4. ASSUME NEW c \in CPUs, NEW p \in Slots, KernelStep(c, p)
            PROVE  UNCHANGED panicked \/ ExitBegin(c, p)
        BY <3>4 DEF KernelStep, ForkKalloc, ForkCopy, ForkRun, ExitLock, WaitScan, WaitWoken,
           SysReturn, SleepCheck, SleepLock, SleepWoken, SleepRelock, Forkret
      <3>5. ASSUME NEW c \in CPUs, NEW p \in Slots, SwitchStep(c, p) PROVE UNCHANGED panicked
        BY <3>2, <3>5 DEF SwitchStep, Yield, YieldBack, TrapCheck
      <3>6. ASSUME NEW c \in CPUs, SchedulerStep(c) \/ TimerIrq(c) \/ TickStep(c)
            PROVE  UNCHANGED panicked
        BY <3>6 DEF SchedulerStep, SchedulerLock, SchedulerSwitch, SchedulerBack, SchedulerUnlock,
           TimerIrq, TickStep, TickCount, TickWakeup, TrapDispatch
      <3>7. UNCHANGED panicked => PanicOnlyForInit'
        BY <2>2 DEF PanicOnlyForInit
      <3> QED
        BY <1>2, <2>1, <2>2, <3>1, <3>3, <3>4, <3>5, <3>6, <3>7 DEF Next
    <2> QED
      BY <1>2, <2>1, <2>2 DEF Next
  <1> QED
    BY <1>1, <1>2, InitIInv, StepIInv, PTL DEF Spec

\* A zombie never runs again: nothing but a wait() of its parent, with
\* ptable.lock held, changes its state.
THEOREM ProcZombieFinal == Spec => ZombieFinal
  <1> DEFINE Final(p) ==
        state[p] = ZOMBIE =>
          \/ state'[p] = ZOMBIE
          \/ state'[p] = UNUSED /\ \E c \in CPUs : lock = c /\ ctx[c] = parent[p]
  <1>1. ASSUME IInv, [Next]_vars PROVE \A p \in Slots : Final(p)
    <2> USE DEF UNUSED, EMBRYO, SLEEPING, RUNNABLE, RUNNING, ZOMBIE
    <2> SUFFICES ASSUME NEW z \in Slots, state[z] = ZOMBIE, state'[z] # ZOMBIE
                 PROVE  state'[z] = UNUSED /\ \E c \in CPUs : lock = c /\ ctx[c] = parent[z]
      BY <1>1
    <2>1. state \in [Slots -> States]
      BY <1>1 DEF IInv, Types, TypeOK
    <2>2. ASSUME NEW c \in CPUs, NEW p \in Slots, On(c, p), pc[p] \in RunLabels PROVE p # z
      BY <1>1, <2>2, Runs
    <2>3. ASSUME NEW c \in CPUs, NEW p \in Slots, UserStep(c, p) PROVE FALSE
      <3>1. UNCHANGED state \/ ForkAlloc(c, p) \/ \E k \in KillArgs : KillCall(c, p, k)
        BY <2>3 DEF UserStep, ExitCall, WaitCall, Fault, UthreadInit, KilledCall, SleepCall, table
      <3>2. ASSUME ForkAlloc(c, p) PROVE FALSE
        BY <2>1, <3>2 DEF ForkAlloc, IsFirst, Unused, table
      <3>3. ASSUME NEW k \in KillArgs, KillCall(c, p, k) PROVE FALSE
        BY <2>1, <3>3 DEF KillCall, KillWakes
      <3> QED
        BY <3>1, <3>2, <3>3
    <2>4. ASSUME NEW c \in CPUs, NEW p \in Slots, KernelStep(c, p)
          PROVE  state'[z] = UNUSED /\ lock = c /\ ctx[c] = parent[z]
      <3>1. \/ UNCHANGED state
            \/ ForkKalloc(c, p) \/ ForkCopy(c, p) \/ ForkRun(c, p)
            \/ ExitLock(c, p) \/ WaitScan(c, p) \/ SleepLock(c, p)
        BY <2>4 DEF KernelStep, ExitBegin, Panic, WaitWoken, SysReturn, SleepCheck, SleepWoken,
           SleepRelock,
                    Forkret, table
      <3>2. CASE ForkKalloc(c, p) \/ ForkCopy(c, p) \/ ForkRun(c, p)
        <4>1. On(c, p) /\ pc[p] \in ForkLabels
          BY <3>2 DEF ForkKalloc, ForkCopy, ForkRun, ForkLabels
        <4>2. np[p] # z /\ np[p] \in Slots
          BY <1>1, <4>1, ForkOwns
        <4> QED
          BY <2>1, <3>2, <4>2 DEF ForkKalloc, ForkCopy, ForkRun
      <3>3. CASE ExitLock(c, p)
        BY <2>1, <3>3 DEF ExitLock, Wakeup1
      <3>4. CASE SleepLock(c, p)
        <4>1. p # z
          BY <2>2, <3>4 DEF SleepLock, RunLabels, TickLabels
        <4> QED
          BY <2>1, <3>4, <4>1 DEF SleepLock
      <3>5. CASE WaitScan(c, p)
        <4>1. On(c, p) /\ pc[p] = "wait_scan"
          BY <3>5 DEF WaitScan
        <4>2. p # z /\ lock = c /\ ctx[c] = p
          BY <1>1, <2>2, <4>1, Executes DEF RunLabels, LockLabels
        <4>3. PICK q \in Slots : q \in Zombies(p) /\ state' = [state EXCEPT ![q] = UNUSED]
          BY <2>1, <3>5, <4>2 DEF WaitScan, IsFirst
        <4> QED
          BY <2>1, <4>2, <4>3 DEF Zombies, Children
      <3> QED
        BY <3>1, <3>2, <3>3, <3>4, <3>5
    <2>5. ASSUME NEW c \in CPUs, NEW p \in Slots, SwitchStep(c, p) PROVE FALSE
      <3>1. UNCHANGED state \/ Yield(c, p)
        BY <2>5 DEF SwitchStep, Sched, Panic, YieldBack, TrapCheck, table
      <3>2. ASSUME Yield(c, p) PROVE FALSE
        <4>1. p # z
          BY <2>2, <3>2 DEF Yield, RunLabels
        <4> QED
          BY <2>1, <3>2, <4>1 DEF Yield
      <3> QED
        BY <3>1, <3>2
    <2>6. ASSUME NEW c \in CPUs, SchedulerStep(c) \/ TimerIrq(c) \/ TickStep(c) PROVE FALSE
      <3>1. UNCHANGED state \/ SchedulerSwitch(c) \/ TickWakeup(c)
        BY <2>6 DEF SchedulerStep, SchedulerLock, SchedulerBack, SchedulerUnlock, TimerIrq,
           TickStep, TickCount,
                    TrapDispatch, table
      <3>2. ASSUME SchedulerSwitch(c) PROVE FALSE
        BY <2>1, <3>2 DEF SchedulerSwitch, IsFirst, Ready
      <3>3. ASSUME TickWakeup(c) PROVE FALSE
        BY <2>1, <3>3 DEF TickWakeup, Wakeup1
      <3> QED
        BY <3>1, <3>2, <3>3
    <2>7. CASE UNCHANGED vars
      BY <2>7 DEF vars, table
    <2> QED
      BY <1>1, <2>3, <2>4, <2>5, <2>6, <2>7 DEF Next
  <1>2. IInv /\ [Next]_vars => [\A p \in Slots : Final(p)]_vars
    BY <1>1
  <1> QED
    BY <1>2, InitIInv, StepIInv, PTL DEF Spec, ZombieFinal
=============================================================================
