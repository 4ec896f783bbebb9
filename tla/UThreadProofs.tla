--------------------------- MODULE UThreadProofs ---------------------------
(***************************************************************************)
(* Proofs about UThread for any number of slots, threads, iterations and   *)
(* ticks, under one of two hypotheses on the timer: upcalls arrive only at *)
(* labels of main and mythread where no thread pointer is in a register    *)
(* (UserPoints), or there and at the edges of the scheduler (EdgePoints).  *)
(* What is said of the iterations of mythread needs a third, FlagsKept: no *)
(* tick between the comparison of the loop and its branch.                 *)
(***************************************************************************)
EXTENDS UThread, TLAPS

\* The weaker hypothesis: ticks may interrupt thread_schedule before it has
\* chosen a thread and after it has restored one, and again what such a tick
\* has started.
TicksAtEdges == TickPoints \subseteq UserPoints \cup EdgePoints

\* The stronger one: ticks outside the scheduler only, and room on a stack for
\* the two frames that such an upcall needs.
TicksAreSafe == TickPoints \subseteq UserPoints /\ StackDepth >= 2

\* No tick falls between the comparison and the branch of mythread's loop.
FlagsKept == "body_test" \notin TickPoints

\* Labels at which a thread can be left waiting, and those of a thread that
\* has given up its slot.
WaitLabels(t) == IF t = 0 THEN {"create", "main_call", "main_ret"}
                 ELSE {"body", "body_test", "exit_free"}
DeadLabels == {"exit_call", "exit_ret"}

Cell(t, d) == stack[HomeStack(t)][d]

\* Thread t has no iteration left.
Done(t) == FlagsKept => remaining[t] = 0

\* The label is consistent with the progress of thread t.
Progress(t, label) ==
    (t # 0 /\ label \in {"exit_free", "exit_store"} \cup DeadLabels) => Done(t)

\* Thread t's return address, one cell up its stack, when it waits.
Waits(t) ==
    /\ Cell(t, 1).ret \in WaitLabels(t) /\ Progress(t, Cell(t, 1).ret)
    /\ FlagsKept => Cell(t, 1).ret # "body_test"

\* A frame of the scheduler on the stack of thread t.  Where its locals are
\* still to be used they are those of t.
Inner(t, cell) ==
    /\ cell.ret \in EdgePoints
    /\ cell.ret \in {"sc_scan", "sc_none"} => cell.save = t
    /\ TicksAreSafe => cell.ret = "sc_end"

\* On the first n cells of its stack, above the return address of its own
\* code, thread t has frames of the scheduler; one at most with safe ticks.
Chain(t, n) ==
    /\ n \in 1 .. StackDepth
    /\ \A d \in 2 .. n : Inner(t, Cell(t, d))
    /\ TicksAreSafe => n <= 2

\* The context of thread t can be resumed by thread_switch.
Saved(t) ==
    /\ sp[t].stk = HomeStack(t)
    /\ Chain(t, sp[t].top) /\ Waits(t)
    /\ sp[t].top = 1 => Cell(t, 1).ret = "body"

\* thread_init is not finished: no slot is in use yet.
Booting ==
    /\ current_thread \in {NULL, 0}
    /\ \A t \in Threads : state[t] = FREE /\ remaining[t] = 0
    /\ esp.stk = UserStack
    /\ \/ pc \in {"init", "init_cur", "init_state", "init_store"} /\ esp.top = 0
       \/ pc \in {"sc_save", "sc_scan", "sc_none"}
    /\ pc \in {"init_state", "init_store"} => current_thread = 0
    /\ pc = "init_store" => eax = 0
    /\ pc \in {"sc_scan", "sc_none"} => save = current_thread

\* Labels by how deep in thread_schedule the CPU is.
InSched    == {"sc_save", "sc_scan", "sc_next", "sc_run", "sc_self", "sc_call", "sc_none", "sc_end"}
InSwitch   == {"sw_cur", "sw_store", "sw_next", "sw_setcur"}
Chosen     == {"sc_self", "sc_call"} \cup InSwitch   \* next_thread is RUNNING
Requeued   == {"sc_call"} \cup InSwitch              \* the caller is no longer RUNNING
UserCode(t) == IF t = 0 THEN {"create", "create_store", "main_call", "main_ret"}
               ELSE {"body", "body_test", "exit_free", "exit_store", "exit_call"}

\* The running thread c and where it is.
AtUser(c) ==
    /\ pc \in UserCode(c)
    /\ esp.stk = HomeStack(c) /\ esp.top = 0
    /\ state[c] = IF pc \in DeadLabels THEN FREE ELSE RUNNING
    /\ Progress(c, pc)
    /\ pc = "body_test" /\ FlagsKept => eax = IF remaining[c] > 0 THEN 1 ELSE 0
    /\ pc = "create_store" => eax \in Threads /\ state[eax] = FREE /\ created < ToCreate
    /\ pc = "exit_store" => eax = c

AtSched(c) ==
    /\ pc \in InSched \cup InSwitch
    /\ esp.stk = HomeStack(c) /\ Chain(c, esp.top)
    /\ TicksAreSafe /\ pc \in InSched => esp.top = 1
    /\ pc \in InSwitch => esp.top # 1
    /\ \/ state[c] = FREE /\ c # 0 /\ Cell(c, 1).ret \in DeadLabels /\ Done(c) /\ pc # "sc_end"
       \/ state[c] = (IF pc \in Requeued THEN RUNNABLE ELSE RUNNING) /\ Waits(c)
    /\ pc \notin {"sc_save", "sc_end"} => (pc \in InSwitch \/ save = c)
    /\ pc = "sc_next" => found \in Threads \ {c} /\ state[found] = RUNNABLE
    /\ pc = "sc_run" => next_thread \in Threads \ {c} /\ state[next_thread] = RUNNABLE
    /\ pc \in Chosen => next_thread \in Threads \ {c} /\ state[next_thread] = RUNNING /\ Saved(next_thread)
    /\ pc = "sw_store" => eax = c
    /\ pc \in {"sw_next", "sw_setcur"} => (sp[c] = esp)
    /\ pc = "sw_setcur" => eax = next_thread

AtRestore(c) ==
    /\ pc \in {"sw_loadsp", "sw_pop"}
    /\ state[c] = RUNNING /\ Waits(c)
    /\ pc = "sw_loadsp" => eax = c /\ Saved(c)
    /\ pc = "sw_pop" => esp.stk = HomeStack(c) /\ Chain(c, esp.top)

\* Every slot but the current one: waiting with a saved context, FREE with
\* nothing left to do, or just chosen.
Others(c) ==
    \A t \in Threads \ {c} :
        /\ state[t] = RUNNABLE => Saved(t)
        /\ state[t] = RUNNING => pc \in Chosen /\ t = next_thread
        /\ state[t] = FREE => t # 0 /\ Done(t)

Live ==
    /\ current_thread \in Threads
    /\ state[0] # FREE
    /\ AtUser(current_thread) \/ AtSched(current_thread) \/ AtRestore(current_thread)
    /\ Others(current_thread)

\* The inductive invariant.
IInv ==
    /\ ShapeOK /\ (FlagsKept => TypeOK)
    /\ WildOnlyByOverflow /\ (TicksAreSafe => status # "wild")
    /\ Booting \/ Live

USE DEF Done

-----------------------------------------------------------------------------
(***************************************************************************)
(* Lemmas about stacks and saved contexts.                                 *)
(***************************************************************************)

\* The stacks of two threads are different memory.
LEMMA HomeStackInjective ==
    \A t, u \in Threads : /\ HomeStack(t) \in Stacks
                          /\ HomeStack(t) = HomeStack(u) => t = u
                          /\ (HomeStack(t) = UserStack <=> t = 0)
                          /\ t # 0 => HomeStack(t) = t
  BY UThreadAssumption DEF HomeStack, Threads, Stacks, UserStack

\* A saved context stays resumable in a step that leaves the thread's stack,
\* its saved pointer and its loop counter alone.
LEMMA SavedStable ==
    ASSUME NEW t \in Threads, Saved(t), sp'[t] = sp[t],
           stack'[HomeStack(t)] = stack[HomeStack(t)],
           t # 0 => remaining'[t] = remaining[t]
    PROVE  Saved(t)'
  BY DEF Saved, Chain, Inner, Waits, Cell, Progress

\* Push writes one cell of the stack under esp and nothing else.
LEMMA PushWrites ==
    ASSUME ShapeOK, NEW cell \in Cells, Push(cell)
    PROVE  /\ esp' \in StackPtr /\ esp'.stk = esp.stk /\ esp'.top = esp.top + 1
           /\ stack' \in [Stacks -> [1 .. StackDepth -> Cells]]
           /\ stack'[esp.stk][esp.top + 1] = cell
           /\ \A d \in 1 .. StackDepth : d # esp.top + 1 => stack'[esp.stk][d] = stack[esp.stk][d]
           /\ \A s \in Stacks : s # esp.stk => stack'[s] = stack[s]
  <1>1. esp \in StackPtr /\ esp.stk \in Stacks /\ esp.top \in Nat /\ esp.top + 1 \in 1 .. StackDepth
    BY UThreadAssumption DEF ShapeOK, StackPtr, Push
  <1>2. esp' = [stk |-> esp.stk, top |-> esp.top + 1]
    BY <1>1 DEF Push, StackPtr
  <1>3. stack[esp.stk] \in [1 .. StackDepth -> Cells]
    BY <1>1 DEF ShapeOK
  <1>4. [stack[esp.stk] EXCEPT ![esp.top + 1] = cell] \in [1 .. StackDepth -> Cells]
    BY <1>1, <1>3
  <1>5. stack' \in [Stacks -> [1 .. StackDepth -> Cells]]
    BY <1>1, <1>4 DEF ShapeOK, Push
  <1>6. stack'[esp.stk] = [stack[esp.stk] EXCEPT ![esp.top + 1] = cell]
    BY <1>1 DEF ShapeOK, Push
  <1>7. \A s \in Stacks : s # esp.stk => stack'[s] = stack[s]
    BY <1>1 DEF ShapeOK, Push
  <1>8. /\ stack'[esp.stk][esp.top + 1] = cell
        /\ \A d \in 1 .. StackDepth : d # esp.top + 1 => stack'[esp.stk][d] = stack[esp.stk][d]
    BY <1>1, <1>3, <1>6
  <1>9. esp' \in StackPtr
    BY <1>1, <1>2 DEF StackPtr
  <1> QED BY <1>2, <1>5, <1>7, <1>8, <1>9

\* The frame pushed by a call or an upcall is a well-formed cell.
LEMMA FrameType ==
    ASSUME ShapeOK, NEW label \in Labels
    PROVE  Frame(label) \in Cells /\ Frame(label).ret = label
  BY DEF ShapeOK, Frame, Cells, ThreadPtr

\* A frame of the scheduler on top of a chain.
LEMMA ChainPush ==
    ASSUME ShapeOK, NEW c \in Threads, esp.stk = HomeStack(c), Chain(c, esp.top),
           TicksAreSafe => esp.top = 1, NEW cell \in Cells, Inner(c, cell), Push(cell)
    PROVE  /\ esp'.stk = HomeStack(c) /\ esp'.top = esp.top + 1 /\ esp'.top # 1
           /\ Chain(c, esp.top)'
           /\ stack'[HomeStack(c)][1] = stack[HomeStack(c)][1]
           /\ \A s \in Stacks : s # HomeStack(c) => stack'[s] = stack[s]
  <1>1. PICK n \in 1 .. StackDepth : n = esp.top
    BY DEF Chain
  <1>2. n \in Nat /\ n + 1 \in 1 .. StackDepth
    BY <1>1, UThreadAssumption DEF Push
  <1>3. /\ esp'.stk = HomeStack(c) /\ esp'.top = n + 1
        /\ stack'[HomeStack(c)][n + 1] = cell
        /\ \A d \in 1 .. StackDepth : d # n + 1 => stack'[HomeStack(c)][d] = stack[HomeStack(c)][d]
        /\ \A s \in Stacks : s # HomeStack(c) => stack'[s] = stack[s]
    BY <1>1, PushWrites
  <1>4. 1 \in 1 .. StackDepth /\ 1 # n + 1
    BY <1>2, UThreadAssumption
  <1>5. \A d \in 2 .. n + 1 : Inner(c, stack'[HomeStack(c)][d])
    <2>1. \A d \in 2 .. n : Inner(c, stack[HomeStack(c)][d])
      BY <1>1 DEF Chain, Cell
    <2> SUFFICES ASSUME NEW d \in 2 .. n + 1 PROVE Inner(c, stack'[HomeStack(c)][d])
      OBVIOUS
    <2>2. CASE d = n + 1
      BY <1>3, <2>2
    <2>3. CASE d # n + 1
      <3>1. d \in 2 .. n /\ d \in 1 .. StackDepth
        BY <1>1, <1>2, <2>3, UThreadAssumption
      <3> QED BY <1>3, <2>1, <2>3, <3>1
    <2> QED BY <2>2, <2>3
  <1>6. TicksAreSafe => n + 1 <= 2
    BY <1>1
  <1>7. Chain(c, esp.top)'
    BY <1>2, <1>3, <1>5, <1>6 DEF Chain, Inner, Cell
  <1> QED BY <1>1, <1>3, <1>4, <1>7

\* Which part of the invariant holds at a label.
LEMMA Region ==
    ASSUME IInv
    PROVE  /\ pc \in (InSched \ {"sc_save", "sc_scan", "sc_none"}) \cup InSwitch => Live /\ AtSched(current_thread)
           /\ pc \in {"sc_save", "sc_scan", "sc_none"} => Booting \/ (Live /\ AtSched(current_thread))
           /\ pc \in {"sw_loadsp", "sw_pop"} => Live /\ AtRestore(current_thread)
           /\ pc \in UserCode(0) \cup {"body", "body_test", "exit_free", "exit_store"} \cup DeadLabels => Live /\ AtUser(current_thread)
  BY DEF IInv, Live, Booting, AtUser, AtSched, AtRestore, WaitLabels, DeadLabels, UserCode, InSched,
     InSwitch, Chosen, Requeued

-----------------------------------------------------------------------------
(***************************************************************************)
(* Every step preserves the types.                                         *)
(***************************************************************************)

\* No step takes a variable out of its shape.
LEMMA ShapeStep ==
    ASSUME IInv, TicksAtEdges, status = "running", Run \/ Upcall
    PROVE  ShapeOK'
  <1> USE UThreadAssumption
  <1>1. CASE UthreadInit
    BY <1>1 DEF IInv, UthreadInit, ShapeOK, regs, tcbs, Labels, MainLabels, BodyLabels, SchedLabels,
       SwitchLabels
  <1>2. CASE ThreadInitState \/ ThreadExitFree
    BY <1>2 DEF IInv, ThreadInitState, ThreadExitFree, ShapeOK, ThreadPtr, tcbs, Labels, MainLabels,
       BodyLabels, SchedLabels, SwitchLabels
  <1>3. CASE MainCreated
    BY <1>3 DEF IInv, MainCreated, ShapeOK, regs, tcbs, Labels, MainLabels, BodyLabels, SchedLabels,
       SwitchLabels
  <1>4. CASE MainReturn
    BY <1>4 DEF IInv, MainReturn, ShapeOK, regs, tcbs, Labels, MainLabels, BodyLabels, SchedLabels,
       SwitchLabels, Stop, Statuses
  <1>5. CASE BodyCompare
    BY <1>5 DEF IInv, BodyCompare, ShapeOK, regs, tcbs, Labels, MainLabels, BodyLabels, SchedLabels,
       SwitchLabels, Garbage, NULL
  <1>6. CASE ThreadInitStore \/ ThreadExitStore
    BY <1>6 DEF IInv, ThreadInitStore, ThreadExitStore, ShapeOK, regs, tcbs, Labels, MainLabels,
       BodyLabels, SchedLabels, SwitchLabels, FREE, RUNNING, Stop, Statuses
  <1>7. CASE ThreadExitReturned
    BY <1>7 DEF IInv, ThreadExitReturned, ShapeOK, regs, tcbs, Labels, MainLabels, BodyLabels,
       SchedLabels, SwitchLabels, Stop, Statuses
  <1>8. CASE SchedSave
    BY <1>8 DEF IInv, SchedSave, ShapeOK, regs, tcbs, Labels, MainLabels, BodyLabels, SchedLabels,
       SwitchLabels, ThreadPtr
  <1>9. CASE SchedScan
    BY <1>9 DEF IInv, SchedScan, ShapeOK, regs, tcbs, Labels, MainLabels, BodyLabels, SchedLabels,
       SwitchLabels, IsFirst, ThreadPtr
  <1>10. CASE SchedNext
    BY <1>10 DEF IInv, SchedNext, ShapeOK, regs, tcbs, Labels, MainLabels, BodyLabels, SchedLabels,
       SwitchLabels
  <1>11. CASE SchedRun
    BY <1>11 DEF IInv, SchedRun, ShapeOK, regs, tcbs, Labels, MainLabels, BodyLabels, SchedLabels,
       SwitchLabels, RUNNING
  <1>12. CASE SchedSelf
    BY <1>12 DEF IInv, SchedSelf, ShapeOK, regs, tcbs, Labels, MainLabels, BodyLabels, SchedLabels,
       SwitchLabels, RUNNABLE
  <1>13. CASE SchedNone
    BY <1>13 DEF IInv, SchedNone, ShapeOK, regs, tcbs, Labels, MainLabels, BodyLabels, SchedLabels,
       SwitchLabels, Stop, Statuses
  <1>14. CASE SwitchLoad
    BY <1>14 DEF IInv, SwitchLoad, ShapeOK, regs, tcbs, Labels, MainLabels, BodyLabels, SchedLabels,
       SwitchLabels, ThreadPtr
  <1>15. CASE SwitchSetCurrent
    BY <1>15 DEF IInv, SwitchSetCurrent, ShapeOK, regs, tcbs, Labels, MainLabels, BodyLabels,
       SchedLabels, SwitchLabels, ThreadPtr, Stop, Statuses
  <1>16. CASE StackOverflow
    BY <1>16 DEF IInv, StackOverflow, ShapeOK, regs, tcbs, Labels, MainLabels, BodyLabels, SchedLabels,
       SwitchLabels, Stop, Statuses
  <1>17. CASE ThreadInitCurrent
    <2>1. 0 \in Threads BY DEF Threads
    <2> QED BY <1>17, <2>1 DEF IInv, ThreadInitCurrent, ShapeOK, ThreadPtr, Labels, MainLabels,
       BodyLabels, SchedLabels, SwitchLabels
  <1>18. CASE ThreadCreate \/ ThreadCreateStore
    <2>1. CASE ThreadCreate
      BY <2>1 DEF IInv, ThreadCreate, ShapeOK, tcbs, IsFirst, Labels, MainLabels
    <2>2. CASE ThreadCreateStore /\ eax \in Threads
      <3>0. PICK t \in Threads : t = eax
        BY <2>2
      <3>1. [ret |-> "body", save |-> NULL, found |-> NULL] \in Cells
        BY DEF Cells, ThreadPtr, Labels, MainLabels, BodyLabels, SchedLabels, SwitchLabels
      <3>2. t \in Stacks /\ [stk |-> t, top |-> 1] \in StackPtr /\ 1 \in 1 .. StackDepth
        BY DEF Stacks, Threads, StackPtr
      <3>3. stack[t] \in [1 .. StackDepth -> Cells]
        BY <3>2 DEF IInv, ShapeOK
      <3>4. [stack[t] EXCEPT ![1] = [ret |-> "body", save |-> NULL, found |-> NULL]] \in [1 .. StackDepth -> Cells]
        BY <3>1, <3>2, <3>3
      <3>5. stack' \in [Stacks -> [1 .. StackDepth -> Cells]]
        BY <2>2, <3>0, <3>2, <3>4 DEF IInv, ShapeOK, ThreadCreateStore
      <3>6. remaining' \in [Stacks -> Int] /\ sp' \in [Threads -> StackPtr]
        <4>1. /\ remaining' = [remaining EXCEPT ![t] = Work]
              /\ sp' = [sp EXCEPT ![t] = [stk |-> t, top |-> 1]]
          BY <2>2, <3>0 DEF ThreadCreateStore
        <4>2. remaining \in [Stacks -> Int] /\ sp \in [Threads -> StackPtr] /\ Work \in Int
          BY DEF IInv, ShapeOK
        <4> QED BY <3>2, <4>1, <4>2
      <3>7. state' \in [Threads -> {FREE, RUNNING, RUNNABLE}]
        BY <2>2 DEF IInv, ShapeOK, ThreadCreateStore
      <3>8. created' \in 0 .. ToCreate
        <4>1. Live /\ AtUser(current_thread)
          BY <2>2, Region DEF ThreadCreateStore, UserCode
        <4> QED BY <2>2, <4>1 DEF AtUser, ThreadCreateStore, IInv, ShapeOK
      <3> QED BY <2>2, <3>5, <3>6, <3>7, <3>8
              DEF IInv, ShapeOK, ThreadCreateStore, Labels, MainLabels
    <2>3. CASE ThreadCreateStore /\ eax \notin Threads
      BY <2>3 DEF IInv, ThreadCreateStore, ShapeOK, Stop, Statuses, regs, tcbs
    <2> QED BY <1>18, <2>1, <2>2, <2>3
  <1>19. CASE MainCallSchedule
    <2>1. Frame("main_ret") \in Cells
      BY FrameType DEF IInv, Labels, MainLabels, BodyLabels, SchedLabels, SwitchLabels
    <2>2. esp' \in StackPtr /\ stack' \in [Stacks -> [1 .. StackDepth -> Cells]]
      BY <1>19, <2>1, PushWrites DEF IInv, MainCallSchedule
    <2> QED BY <1>19, <2>2 DEF IInv, ShapeOK, MainCallSchedule, tcbs, Labels, MainLabels, BodyLabels,
       SchedLabels, SwitchLabels
  <1>20. CASE ThreadExitCall
    <2>1. Frame("exit_ret") \in Cells
      BY FrameType DEF IInv, Labels, MainLabels, BodyLabels, SchedLabels, SwitchLabels
    <2>2. esp' \in StackPtr /\ stack' \in [Stacks -> [1 .. StackDepth -> Cells]]
      BY <1>20, <2>1, PushWrites DEF IInv, ThreadExitCall
    <2> QED BY <1>20, <2>2 DEF IInv, ShapeOK, ThreadExitCall, tcbs, Labels, MainLabels, BodyLabels,
       SchedLabels, SwitchLabels
  <1>21. CASE SchedCallSwitch
    <2>1. Frame("sc_end") \in Cells
      BY FrameType DEF IInv, Labels, MainLabels, BodyLabels, SchedLabels, SwitchLabels
    <2>2. esp' \in StackPtr /\ stack' \in [Stacks -> [1 .. StackDepth -> Cells]]
      BY <1>21, <2>1, PushWrites DEF IInv, SchedCallSwitch
    <2> QED BY <1>21, <2>2 DEF IInv, ShapeOK, SchedCallSwitch, tcbs, Labels, MainLabels, BodyLabels,
       SchedLabels, SwitchLabels
  <1>22. CASE Upcall
    <2>1. Frame(pc) \in Cells
      BY FrameType DEF IInv, ShapeOK
    <2>2. esp' \in StackPtr /\ stack' \in [Stacks -> [1 .. StackDepth -> Cells]]
      BY <1>22, <2>1, PushWrites DEF IInv, Upcall
    <2> QED BY <1>22, <2>2 DEF IInv, ShapeOK, Upcall, tcbs, Labels, MainLabels, BodyLabels, SchedLabels,
       SwitchLabels
  <1>23. CASE BodyBranch
    <2>1. remaining' \in [Stacks -> Int]
      BY <1>23 DEF BodyBranch, IInv, ShapeOK, StackPtr
    <2> QED BY <1>23, <2>1 DEF IInv, ShapeOK, BodyBranch, tcbs, Labels, MainLabels, BodyLabels,
       SchedLabels, SwitchLabels
  <1>24. CASE SwitchStore
    <2>1. sp' \in [Threads -> StackPtr] \/ sp' = sp
      BY <1>24 DEF IInv, ShapeOK, SwitchStore, Stop, tcbs
    <2> QED BY <1>24, <2>1 DEF IInv, ShapeOK, SwitchStore, Stop, Statuses, regs, tcbs, Labels,
       MainLabels, BodyLabels, SchedLabels, SwitchLabels
  <1>25. CASE SwitchLoadSp
    <2>1. esp' \in StackPtr
      BY <1>25 DEF IInv, ShapeOK, SwitchLoadSp, Stop, regs
    <2> QED BY <1>25, <2>1 DEF IInv, ShapeOK, SwitchLoadSp, Stop, Statuses, regs, tcbs, Labels,
       MainLabels, BodyLabels, SchedLabels, SwitchLabels
  <1>26. CASE Return
    <2>1. CASE status' = "wild" /\ UNCHANGED <<scheduler, regs, tcbs, stack, remaining, created, ticks>>
      BY <1>26, <2>1 DEF IInv, ShapeOK, Statuses, regs, tcbs
    <2>2. CASE esp.top # 0 /\ stack[esp.stk][esp.top].ret # "junk"
      <3>1. esp.stk \in Stacks /\ esp.top \in 1 .. StackDepth
        BY <2>2 DEF IInv, ShapeOK, StackPtr
      <3>2. stack[esp.stk][esp.top] \in Cells
        BY <3>1 DEF IInv, ShapeOK
      <3>3. [esp EXCEPT !.top = @ - 1] = [stk |-> esp.stk, top |-> esp.top - 1]
        <4>1. esp \in StackPtr
          BY DEF IInv, ShapeOK
        <4> QED BY <4>1 DEF StackPtr
      <3>4. [esp EXCEPT !.top = @ - 1] \in StackPtr
        BY <3>1, <3>3 DEF StackPtr
      <3> QED BY <1>26, <2>2, <3>2, <3>4 DEF IInv, ShapeOK, Return, Cells, tcbs
    <2> QED BY <1>26, <2>1, <2>2 DEF Return, Stop
  <1> QED BY <1>1, <1>2, <1>3, <1>4, <1>5, <1>6, <1>7, <1>8, <1>9, <1>10, <1>11, <1>12, <1>13, <1>14,
     <1>15, <1>16, <1>17, <1>18, <1>19, <1>20, <1>21, <1>22, <1>23, <1>24, <1>25, <1>26 DEF Run

\* The loop counter stays within the bound as long as the flags are kept.
LEMMA CountStep ==
    ASSUME IInv, FlagsKept, status = "running", Run \/ Upcall
    PROVE  remaining' \in [Stacks -> 0 .. Work]
  <1>0. remaining \in [Stacks -> 0 .. Work]
    BY DEF IInv, TypeOK
  <1>1. CASE BodyBranch
    <2>1. Live /\ AtUser(current_thread) /\ current_thread # 0
      BY <1>1, Region DEF BodyBranch, Live, AtUser, UserCode, DeadLabels
    <2>2. esp.stk = current_thread /\ current_thread \in Stacks
      BY <2>1, HomeStackInjective DEF AtUser, Live
    <2>3. (eax = 1 => remaining[esp.stk] > 0) /\ eax # Garbage
      BY <1>1, <2>1, <2>2 DEF AtUser, BodyBranch, Garbage
    <2>4. \/ remaining' = [remaining EXCEPT ![current_thread] = @ - 1] /\ remaining[current_thread] > 0
          \/ remaining' = remaining
      BY <1>1, <2>2, <2>3 DEF BodyBranch
    <2>5. remaining[current_thread] > 0 => remaining[current_thread] - 1 \in 0 .. Work
      BY <1>0, <2>2, UThreadAssumption
    <2> QED BY <1>0, <2>2, <2>4, <2>5
  <1>2. CASE ThreadCreateStore
    BY <1>0, <1>2, UThreadAssumption DEF ThreadCreateStore, Stop
  <1>3. CASE ~BodyBranch /\ ~ThreadCreateStore
    <2>1. remaining' = remaining
      BY <1>3 DEF Run, UthreadInit, ThreadInitCurrent, ThreadInitState, ThreadInitStore, ThreadCreate,
         MainCreated, MainCallSchedule, MainReturn, BodyCompare, ThreadExitFree, ThreadExitStore,
         ThreadExitCall, ThreadExitReturned, SchedSave, SchedScan, SchedNext, SchedRun, SchedSelf,
         SchedCallSwitch, SchedNone, SwitchLoad, SwitchStore, SwitchSetCurrent, SwitchLoadSp, Return,
         StackOverflow, Upcall, Stop
    <2> QED BY <1>0, <2>1
  <1> QED BY <1>1, <1>2, <1>3

-----------------------------------------------------------------------------
(***************************************************************************)
(* Every step preserves the rest of the invariant.                         *)
(***************************************************************************)

\* A step that touches no register, slot, stack or counter keeps the invariant.
LEMMA Quiet ==
    ASSUME Booting \/ Live, UNCHANGED <<regs, tcbs, stack, remaining, created>>
    PROVE  (Booting \/ Live)'
  <1>1. \A t : Saved(t)' = Saved(t) /\ Waits(t)' = Waits(t) /\ \A l : Progress(t, l)' = Progress(t, l)
    BY DEF Saved, Chain, Inner, Waits, Cell, Progress, tcbs
  <1>2. CASE Booting
    BY <1>2 DEF Booting, regs, tcbs
  <1>3. CASE Live
    BY <1>1, <1>3 DEF Live, AtUser, AtSched, AtRestore, Others, Chain, Inner, Cell, regs, tcbs
  <1> QED BY <1>2, <1>3

\* thread_init leaves slot 0 RUNNING and every other slot FREE.
LEMMA InitStep ==
    ASSUME IInv, TicksAtEdges, status = "running",
           UthreadInit \/ ThreadInitCurrent \/ ThreadInitState \/ ThreadInitStore \/ MainCreated
    PROVE  status' # "wild" /\ (Booting \/ Live)'
  <1>1. 0 \in Threads /\ HomeStack(0) = UserStack
    BY UThreadAssumption DEF Threads, HomeStack
  <1>2. CASE UthreadInit \/ ThreadInitCurrent \/ ThreadInitState
    BY <1>1, <1>2 DEF UthreadInit, ThreadInitCurrent, ThreadInitState, IInv, Booting, Live, AtUser, AtSched, AtRestore,
       WaitLabels, DeadLabels, UserCode, InSched, InSwitch, Chosen, Requeued, tcbs
  <1>3. CASE ThreadInitStore
    <2>1. Booting /\ current_thread = 0 /\ eax = 0 /\ esp.top = 0 /\ esp.stk = UserStack
      BY <1>3 DEF ThreadInitStore, IInv, Booting, Live, AtUser, AtSched, AtRestore, WaitLabels,
         DeadLabels, UserCode, InSched, InSwitch, Chosen, Requeued
    <2>2. \A t \in Threads : state'[t] = IF t = 0 THEN RUNNING ELSE FREE
      BY <1>1, <1>3, <2>1 DEF ThreadInitStore, IInv, ShapeOK, Threads
    <2>3. AtUser(current_thread)'
      BY <1>1, <1>3, <2>1, <2>2 DEF ThreadInitStore, AtUser, Progress, UserCode, DeadLabels
    <2>4. Others(current_thread)'
      <3>1. current_thread' = 0 /\ remaining' = remaining
        BY <1>1, <1>3, <2>1 DEF ThreadInitStore
      <3> QED BY <2>1, <2>2, <3>1 DEF Booting, Others, FREE, RUNNING, RUNNABLE
    <2> QED BY <1>1, <1>3, <2>1, <2>2, <2>3, <2>4 DEF ThreadInitStore, IInv, Live, FREE, RUNNING
  <1>4. CASE MainCreated
    <2>1. Live /\ AtUser(current_thread) /\ current_thread = 0
      BY <1>4, Region DEF MainCreated, Live, AtUser, WaitLabels, DeadLabels, UserCode, InSched,
         InSwitch, Chosen, Requeued
    <2>2. \A t \in Threads : Saved(t) => Saved(t)'
      BY <1>4, SavedStable DEF MainCreated, tcbs
    <2>3. AtUser(current_thread)'
      BY <1>4, <2>1 DEF MainCreated, AtUser, Progress, UserCode, DeadLabels, tcbs
    <2> QED BY <1>4, <2>1, <2>2, <2>3 DEF MainCreated, IInv, Live, Others, Chosen, InSwitch, tcbs
  <1> QED BY <1>2, <1>3, <1>4

\* The process ends, and without undefined behaviour unless a stack is full;
\* with safe ticks none is.
LEMMA StopStep ==
    ASSUME IInv, TicksAtEdges, status = "running", MainReturn \/ ThreadExitReturned \/ StackOverflow
    PROVE  WildOnlyByOverflow' /\ (TicksAreSafe => status' # "wild") /\ (Booting \/ Live)'
  <1>1. CASE MainReturn \/ ThreadExitReturned
    <2>1. status' # "wild" /\ UNCHANGED <<regs, tcbs, stack, remaining, created>>
      BY <1>1 DEF MainReturn, ThreadExitReturned, Stop
    <2> QED BY <2>1, Quiet DEF IInv, WildOnlyByOverflow
  <1>2. CASE StackOverflow
    <2>1. ~TicksAreSafe
      <3> SUFFICES ASSUME TicksAreSafe PROVE FALSE
        OBVIOUS
      <3>1. pc \in {"main_call", "exit_call", "sc_call"} \cup UserPoints
        BY <1>2 DEF StackOverflow, TicksAreSafe
      <3>2. esp.top < 2
        BY <3>1, Region DEF IInv, Booting, Live, AtUser, AtSched, AtRestore, UserPoints, MainLabels,
           BodyLabels, WaitLabels, DeadLabels, UserCode, InSched, InSwitch, Chosen, Requeued
      <3> QED BY <1>2, <3>2 DEF StackOverflow, TicksAreSafe, IInv, ShapeOK, StackPtr
    <2>2. esp.top = StackDepth /\ UNCHANGED <<regs, tcbs, stack, remaining, created>>
      BY <1>2 DEF StackOverflow, Stop
    <2>3. WildOnlyByOverflow'
      BY <2>2 DEF WildOnlyByOverflow, regs
    <2> QED BY <2>1, <2>2, <2>3, Quiet DEF IInv
  <1> QED BY <1>1, <1>2

\* thread_create picks a FREE slot, or does nothing.
LEMMA CreateStep ==
    ASSUME IInv, TicksAtEdges, status = "running", ThreadCreate
    PROVE  status' # "wild" /\ (Booting \/ Live)'
  <1>1. Live /\ AtUser(current_thread) /\ current_thread = 0 /\ pc = "create"
    BY Region DEF ThreadCreate, Live, AtUser, WaitLabels, DeadLabels, UserCode, InSched, InSwitch,
       Chosen, Requeued
  <1>2. \A t \in Threads : Saved(t) => Saved(t)'
    BY SavedStable DEF ThreadCreate, tcbs
  <1>3. AtUser(current_thread)'
    BY <1>1 DEF ThreadCreate, IsFirst, FreeSlots, AtUser, Progress, UserCode, DeadLabels, tcbs
  <1>4. Others(current_thread)'
    BY <1>1, <1>2 DEF ThreadCreate, Live, Others, Chosen, InSwitch, tcbs
  <1> QED BY <1>1, <1>3, <1>4 DEF ThreadCreate, IInv, Live, tcbs

\* Its stores give the slot a context that can be resumed.
LEMMA CreateStoreStep ==
    ASSUME IInv, TicksAtEdges, status = "running", ThreadCreateStore
    PROVE  status' # "wild" /\ (Booting \/ Live)'
  <1>1. Live /\ AtUser(current_thread) /\ current_thread = 0 /\ pc = "create_store"
    BY Region DEF ThreadCreateStore, Live, AtUser, WaitLabels, DeadLabels, UserCode, InSched, InSwitch,
       Chosen, Requeued
  <1>2. PICK t \in Threads : t = eax /\ state[t] = FREE /\ t # 0
    BY <1>1 DEF AtUser, Live
  <1>3. /\ stack' = [stack EXCEPT ![t] = [@ EXCEPT ![1] = [ret |-> "body", save |-> NULL,
               found |-> NULL]]]
        /\ sp' = [sp EXCEPT ![t] = [stk |-> t, top |-> 1]]
        /\ state' = [state EXCEPT ![t] = RUNNABLE]
        /\ remaining' = [remaining EXCEPT ![t] = Work]
        /\ pc' = "create" /\ UNCHANGED <<status, esp, current_thread, next_thread>>
    BY <1>2 DEF ThreadCreateStore
  <1>4. Saved(t)'
    <2>1. t \in Stacks /\ HomeStack(t) = t /\ 1 \in 1 .. StackDepth
      BY <1>2, HomeStackInjective, UThreadAssumption
    <2>2. stack'[t][1].ret = "body"
      BY <1>3, <2>1 DEF IInv, ShapeOK
    <2>3. sp'[t] = [stk |-> t, top |-> 1]
      BY <1>3 DEF IInv, ShapeOK
    <2>4. Waits(t)' /\ Cell(t, 1).ret' = "body"
      BY <1>2, <2>1, <2>2 DEF Waits, Cell, WaitLabels, Progress, DeadLabels
    <2>5. Chain(t, 1)'
      BY <2>1 DEF Chain
    <2> QED BY <2>1, <2>3, <2>4, <2>5 DEF Saved
  <1>5. \A u \in Threads \ {t} :
           (Saved(u) => Saved(u)') /\ state'[u] = state[u] /\ remaining'[u] = remaining[u]
    <2> TAKE u \in Threads \ {t}
    <2>1. HomeStack(u) # t /\ HomeStack(u) \in Stacks
      BY <1>2, HomeStackInjective
    <2>2. /\ stack'[HomeStack(u)] = stack[HomeStack(u)] /\ sp'[u] = sp[u]
          /\ remaining'[u] = remaining[u] /\ state'[u] = state[u]
      BY <1>3, <2>1, HomeStackInjective DEF IInv, ShapeOK, Stacks, Threads
    <2> QED BY <2>2, SavedStable
  <1>6. state'[t] = RUNNABLE /\ 0 \in Threads \ {t}
    BY <1>1, <1>2, <1>3 DEF IInv, ShapeOK, Live
  <1>7. AtUser(current_thread)'
    BY <1>1, <1>3, <1>5, <1>6 DEF AtUser, Progress, UserCode, DeadLabels
  <1>8. Others(current_thread)'
    BY <1>1, <1>3, <1>4, <1>5, <1>6 DEF Live, Others, Chosen, InSwitch, FREE, RUNNING, RUNNABLE
  <1> QED BY <1>1, <1>3, <1>5, <1>6, <1>7, <1>8 DEF IInv, Live

\* main calls thread_schedule: its return address is the only cell on its stack.
LEMMA MainCallStep ==
    ASSUME IInv, TicksAtEdges, status = "running", MainCallSchedule
    PROVE  status' # "wild" /\ (Booting \/ Live)'
  <1>1. Live /\ AtUser(current_thread) /\ esp.top = 0 /\ pc # "body_test"
    BY Region DEF MainCallSchedule, Live, AtUser, WaitLabels, DeadLabels, UserCode, InSched, InSwitch,
       Chosen, Requeued
  <1>2. Frame("main_ret") \in Cells /\ Frame("main_ret").ret = "main_ret"
    BY FrameType DEF IInv, Labels, MainLabels, BodyLabels
  <1>3. current_thread \in Threads /\ esp.stk = HomeStack(current_thread) /\ HomeStack(current_thread) \in Stacks
    BY <1>1, HomeStackInjective DEF Live, AtUser
  <1>4. /\ esp'.stk = HomeStack(current_thread) /\ esp'.top = 1
        /\ stack'[HomeStack(current_thread)][1].ret = "main_ret"
        /\ \A s \in Stacks : s # HomeStack(current_thread) => stack'[s] = stack[s]
    BY <1>1, <1>2, <1>3, PushWrites DEF MainCallSchedule, IInv
  <1>5. ASSUME NEW t \in Threads \ {current_thread}, Saved(t)
        PROVE  Saved(t)'
    <2>1. HomeStack(t) # HomeStack(current_thread) /\ HomeStack(t) \in Stacks
      BY <1>3, HomeStackInjective
    <2> QED BY <1>4, <1>5, <2>1, SavedStable DEF MainCallSchedule, tcbs
  <1>6. AtSched(current_thread)'
    BY <1>1, <1>3, <1>4, UThreadAssumption DEF MainCallSchedule, AtUser, AtSched, Chain, Waits, Cell, Progress, WaitLabels,
       DeadLabels, UserCode, InSched, InSwitch, Chosen, Requeued, tcbs
  <1>7. Others(current_thread)'
    BY <1>1, <1>5 DEF MainCallSchedule, AtUser, Live, Others, WaitLabels, DeadLabels, UserCode, InSched,
       InSwitch, Chosen, Requeued, tcbs
  <1> QED BY <1>1, <1>3, <1>6, <1>7 DEF MainCallSchedule, IInv, Live, tcbs

\* thread_exit calls thread_schedule from a slot that is already FREE.
LEMMA ExitCallStep ==
    ASSUME IInv, TicksAtEdges, status = "running", ThreadExitCall
    PROVE  status' # "wild" /\ (Booting \/ Live)'
  <1>1. Live /\ AtUser(current_thread) /\ esp.top = 0 /\ pc # "body_test"
    BY Region DEF ThreadExitCall, Live, AtUser, WaitLabels, DeadLabels, UserCode, InSched, InSwitch,
       Chosen, Requeued
  <1>2. Frame("exit_ret") \in Cells /\ Frame("exit_ret").ret = "exit_ret"
    BY FrameType DEF IInv, Labels, MainLabels, BodyLabels
  <1>3. current_thread \in Threads /\ esp.stk = HomeStack(current_thread) /\ HomeStack(current_thread) \in Stacks
    BY <1>1, HomeStackInjective DEF Live, AtUser
  <1>4. /\ esp'.stk = HomeStack(current_thread) /\ esp'.top = 1
        /\ stack'[HomeStack(current_thread)][1].ret = "exit_ret"
        /\ \A s \in Stacks : s # HomeStack(current_thread) => stack'[s] = stack[s]
    BY <1>1, <1>2, <1>3, PushWrites DEF ThreadExitCall, IInv
  <1>5. ASSUME NEW t \in Threads \ {current_thread}, Saved(t)
        PROVE  Saved(t)'
    <2>1. HomeStack(t) # HomeStack(current_thread) /\ HomeStack(t) \in Stacks
      BY <1>3, HomeStackInjective
    <2> QED BY <1>4, <1>5, <2>1, SavedStable DEF ThreadExitCall, tcbs
  <1>6. AtSched(current_thread)'
    BY <1>1, <1>3, <1>4, UThreadAssumption DEF ThreadExitCall, AtUser, AtSched, Chain, Waits, Cell, Progress, WaitLabels,
       DeadLabels, UserCode, InSched, InSwitch, Chosen, Requeued, tcbs
  <1>7. Others(current_thread)'
    BY <1>1, <1>5 DEF ThreadExitCall, AtUser, Live, Others, WaitLabels, DeadLabels, UserCode, InSched,
       InSwitch, Chosen, Requeued, tcbs
  <1> QED BY <1>1, <1>3, <1>6, <1>7 DEF ThreadExitCall, IInv, Live, tcbs

\* The loop of mythread and the release of its slot.
LEMMA BodyStep ==
    ASSUME IInv, TicksAtEdges, status = "running",
           BodyCompare \/ BodyBranch \/ ThreadExitFree \/ ThreadExitStore
    PROVE  status' # "wild" /\ (Booting \/ Live)'
  <1>1. /\ Live /\ AtUser(current_thread) /\ current_thread # 0 /\ current_thread \in Threads
        /\ esp.stk = current_thread /\ current_thread \in Stacks
    BY Region, HomeStackInjective DEF BodyCompare, BodyBranch, ThreadExitFree, ThreadExitStore, Live,
       AtUser, WaitLabels, DeadLabels, UserCode, InSched, InSwitch, Chosen, Requeued
  <1>2. ThreadExitStore => /\ state' = [state EXCEPT ![current_thread] = FREE] /\ pc' = "exit_call"
                           /\ UNCHANGED <<status, esp, eax, current_thread, next_thread, sp, stack,
                                          remaining>>
    BY <1>1 DEF ThreadExitStore, AtUser
  <1>3. /\ UNCHANGED <<status, esp, current_thread, next_thread, sp, stack>>
        /\ pc \notin Chosen
    BY <1>2 DEF BodyCompare, BodyBranch, ThreadExitFree, ThreadExitStore, Chosen, InSwitch, tcbs
  <1>4. ASSUME NEW t \in Threads \ {current_thread}
        PROVE  /\ Saved(t) => Saved(t)'
               /\ remaining'[t] = remaining[t] /\ state'[t] = state[t]
    <2>1. t \in Stacks /\ t # current_thread
      BY UThreadAssumption DEF Stacks, Threads
    <2>2. remaining'[t] = remaining[t]
      BY <1>1, <1>2, <2>1 DEF BodyCompare, BodyBranch, ThreadExitFree, IInv, ShapeOK
    <2>3. state'[t] = state[t]
      BY <1>2, <2>1 DEF BodyCompare, BodyBranch, ThreadExitFree, IInv, ShapeOK, tcbs
    <2> QED BY <1>3, <2>2, <2>3, SavedStable
  <1>5. Others(current_thread)'
    BY <1>1, <1>3, <1>4 DEF Live, Others
  <1>6. AtUser(current_thread)'
    <2>1. CASE BodyCompare
      BY <1>1, <1>3, <2>1 DEF BodyCompare, AtUser, Progress, DeadLabels, UserCode, tcbs
    <2>2. CASE BodyBranch
      <3>1. /\ pc = "body_test" /\ pc' \in {"body", "exit_free"} /\ state' = state
            /\ pc' = "exit_free" => eax \in {0, Garbage} /\ remaining' = remaining
        BY <2>2 DEF BodyBranch, tcbs
      <3>2. FlagsKept => remaining[current_thread] \in Nat
        BY <1>1 DEF IInv, TypeOK
      <3>3. pc' = "exit_free" => Done(current_thread)'
        BY <1>1, <1>3, <3>1, <3>2 DEF AtUser, Garbage
      <3> QED BY <1>1, <1>3, <3>1, <3>3 DEF AtUser, Progress, UserCode, DeadLabels
    <2>3. CASE ThreadExitFree
      BY <1>1, <1>3, <2>3 DEF ThreadExitFree, AtUser, Progress, DeadLabels, UserCode, tcbs
    <2>4. CASE ThreadExitStore
      BY <1>1, <1>2, <2>4 DEF ThreadExitStore, IInv, ShapeOK, AtUser, Progress, DeadLabels, UserCode
    <2> QED BY <2>1, <2>2, <2>3, <2>4
  <1>7. 0 \in Threads \ {current_thread}
    BY <1>1, UThreadAssumption DEF Threads
  <1>8. state'[0] # FREE
    BY <1>1, <1>4, <1>7 DEF Live
  <1> QED BY <1>1, <1>3, <1>5, <1>6, <1>8 DEF IInv, Live

\* An upcall leaves the address of the label it interrupts on the stack of the
\* running thread, as the return address of its code or as one more frame.
LEMMA UpcallStep ==
    ASSUME IInv, TicksAtEdges, status = "running", Upcall
    PROVE  status' # "wild" /\ (Booting \/ Live)'
  <1>1. pc \in UserPoints \cup EdgePoints /\ pc \in Labels
    BY DEF Upcall, TicksAtEdges, IInv, ShapeOK
  <1>2. Frame(pc) \in Cells /\ Frame(pc).ret = pc /\ Frame(pc).save = save
    BY <1>1, FrameType DEF IInv, Frame
  <1>3. CASE Booting
    <2>1. esp'.stk = esp.stk
      BY <1>2, PushWrites DEF Upcall, IInv
    <2> QED BY <1>3, <2>1 DEF Upcall, Booting, IInv, tcbs
  <1>4. CASE Live
    <2>1. PICK c \in Threads : c = current_thread /\ HomeStack(c) \in Stacks
      BY <1>4, HomeStackInjective DEF Live
    <2>2. /\ esp'.stk = HomeStack(c) /\ Chain(c, esp.top)' /\ (TicksAreSafe => esp'.top = 1)
          /\ \/ state[c] = FREE /\ c # 0 /\ stack'[HomeStack(c)][1].ret \in DeadLabels /\ Done(c)
             \/ state[c] = RUNNING /\ Waits(c)'
          /\ \A s \in Stacks : s # HomeStack(c) => stack'[s] = stack[s]
      <3>1. CASE pc \in UserPoints
        <4>1. AtUser(c) /\ esp.stk = HomeStack(c) /\ esp.top = 0
          BY <1>4, <2>1, <3>1 DEF Live, AtUser, AtSched, AtRestore, UserPoints, StoreLabels, MainLabels, BodyLabels,
             InSched, InSwitch
        <4>2. /\ esp'.stk = HomeStack(c) /\ esp'.top = 1
              /\ stack'[HomeStack(c)][1].ret = pc
              /\ \A s \in Stacks : s # HomeStack(c) => stack'[s] = stack[s]
          BY <1>2, <2>1, <4>1, PushWrites DEF Upcall, IInv
        <4>3. Chain(c, esp.top)'
          BY <4>2, UThreadAssumption DEF Chain
        <4>4. \/ state[c] = FREE /\ c # 0 /\ stack'[HomeStack(c)][1].ret \in DeadLabels /\ Done(c)
              \/ state[c] = RUNNING /\ Waits(c)'
          BY <3>1, <4>1, <4>2 DEF Upcall, FlagsKept, UserPoints, StoreLabels, AtUser, Waits, Cell, Progress, WaitLabels, DeadLabels, UserCode
        <4> QED BY <4>2, <4>3, <4>4
      <3>2. CASE pc \in EdgePoints
        <4>1. ~TicksAreSafe
          BY <3>2 DEF Upcall, TicksAreSafe, UserPoints, StoreLabels, MainLabels, BodyLabels, EdgePoints
        <4>2. /\ esp.stk = HomeStack(c) /\ Chain(c, esp.top)
              /\ pc \in {"sc_scan", "sc_none"} => save = c
              /\ \/ state[c] = FREE /\ c # 0 /\ Cell(c, 1).ret \in DeadLabels /\ Done(c)
                 \/ state[c] = RUNNING /\ Waits(c)
          BY <1>4, <2>1, <3>2 DEF Live, AtUser, AtSched, AtRestore, EdgePoints, UserCode, InSwitch, Requeued
        <4>3. Inner(c, Frame(pc))
          BY <1>2, <3>2, <4>1, <4>2 DEF Inner
        <4>4. /\ esp'.stk = HomeStack(c) /\ Chain(c, esp.top)'
              /\ stack'[HomeStack(c)][1] = stack[HomeStack(c)][1]
              /\ \A s \in Stacks : s # HomeStack(c) => stack'[s] = stack[s]
          BY <1>2, <4>1, <4>2, <4>3, ChainPush DEF Upcall, IInv
        <4>5. Waits(c)' = Waits(c) /\ stack'[HomeStack(c)][1].ret = Cell(c, 1).ret
          BY <4>4 DEF Upcall, Waits, Cell, Progress
        <4> QED BY <4>1, <4>2, <4>4, <4>5
      <3> QED BY <1>1, <3>1, <3>2
    <2>3. pc' = "sc_save" /\ UNCHANGED <<status, current_thread, next_thread, state, sp, remaining>>
      BY DEF Upcall, tcbs
    <2>4. ASSUME NEW t \in Threads \ {current_thread}, Saved(t)
          PROVE  Saved(t)'
      <3>1. HomeStack(t) # HomeStack(c) /\ HomeStack(t) \in Stacks
        BY <2>1, HomeStackInjective
      <3> QED BY <2>2, <2>3, <2>4, <3>1, SavedStable
    <2>5. AtSched(current_thread)'
      <3>1. AtSched(c)'
        BY <2>2, <2>3 DEF AtSched, Cell, InSched, InSwitch, Chosen, Requeued
      <3> QED BY <2>1, <2>3, <3>1
    <2>6. Others(current_thread)'
      <3>1. pc \notin Chosen
        BY <1>1 DEF UserPoints, StoreLabels, MainLabels, BodyLabels, EdgePoints, Chosen, InSwitch
      <3> QED BY <1>4, <2>3, <2>4, <3>1 DEF Live, Others
    <2> QED BY <1>4, <2>3, <2>5, <2>6 DEF IInv, Live
  <1> QED BY <1>3, <1>4 DEF IInv

\* thread_schedule up to its choice: what it finds is a RUNNABLE thread other than its caller.
LEMMA ScanStep ==
    ASSUME IInv, TicksAtEdges, status = "running", SchedSave \/ SchedScan \/ SchedNext \/ SchedNone
    PROVE  status' # "wild" /\ (Booting \/ Live)'
  <1>1. /\ pc \in {"sc_save", "sc_scan", "sc_next", "sc_none"}
        /\ UNCHANGED <<stack, remaining, sp, state, current_thread>>
    BY DEF SchedSave, SchedScan, SchedNext, SchedNone, Stop, tcbs
  <1>2. \A t \in Threads : Saved(t) => Saved(t)'
    BY <1>1, SavedStable
  <1>3. CASE Booting
    <2>1. Candidates = {}
      BY <1>3 DEF Booting, Candidates, FREE, RUNNABLE
    <2>2. CASE SchedSave \/ SchedScan
      BY <1>3, <2>1, <2>2 DEF SchedSave, SchedScan, IsFirst, Booting, IInv, tcbs
    <2>3. CASE SchedNext
      BY <1>3, <2>3 DEF SchedNext, Booting
    <2>4. CASE SchedNone
      <3>1. 0 \in Threads
        BY UThreadAssumption DEF Threads
      <3>2. save = NULL \/ state[save] = FREE
        BY <1>3, <2>4, <3>1 DEF SchedNone, Booting
      <3>3. status' = "no_runnable" /\ UNCHANGED <<regs, tcbs, stack, remaining, created>>
        BY <2>4, <3>2 DEF SchedNone, Stop, NULL, Threads
      <3> QED BY <1>3, <3>3, Quiet
    <2> QED BY <2>2, <2>3, <2>4
  <1>4. CASE Live /\ AtSched(current_thread)
    <2>1. CASE SchedNone /\ status' = "no_runnable"
      <3>1. UNCHANGED <<regs, tcbs, stack, remaining, created>>
        BY <2>1 DEF SchedNone, Stop, IInv
      <3> QED BY <1>4, <2>1, <3>1, Quiet
    <2>2. CASE ~(SchedNone /\ status' = "no_runnable")
      <3>1. UNCHANGED <<status, esp>>
        BY <2>2 DEF SchedSave, SchedScan, SchedNext, SchedNone, Stop
      <3>2. AtSched(current_thread)'
        <4>0. Chain(current_thread, esp.top)'
          BY <1>1, <1>4, <3>1 DEF AtSched, Chain, Inner, Cell
        <4>1. CASE SchedSave
          BY <1>1, <1>4, <3>1, <4>0, <4>1 DEF SchedSave, AtSched, Waits, Cell, Progress, WaitLabels,
             DeadLabels, UserCode, InSched, InSwitch, Chosen, Requeued
        <4>2. CASE SchedScan
          BY <1>1, <1>4, <3>1, <4>0, <4>2 DEF SchedScan, AtSched, IsFirst, Candidates, Waits, Cell, Progress,
             WaitLabels, DeadLabels, UserCode, InSched, InSwitch, Chosen, Requeued
        <4>3. CASE SchedNext
          BY <1>1, <1>4, <3>1, <4>0, <4>3 DEF SchedNext, AtSched, Waits, Cell, Progress, WaitLabels,
             DeadLabels, UserCode, InSched, InSwitch, Chosen, Requeued
        <4>4. CASE SchedNone
          <5>1. save = current_thread /\ state[current_thread] # FREE /\ pc = "sc_none" /\ pc' = "sc_end"
            BY <1>4, <2>2, <4>4 DEF SchedNone, Stop, AtSched, Live, Threads, NULL, InSwitch
          <5> QED BY <1>1, <1>4, <3>1, <4>0, <5>1 DEF AtSched, Waits, Cell, Progress, WaitLabels, DeadLabels,
             UserCode, InSched, InSwitch, Chosen, Requeued
        <4> QED BY <4>1, <4>2, <4>3, <4>4
      <3>3. Others(current_thread)'
        BY <1>1, <1>2, <1>4, <2>2 DEF Live, Others, Chosen, InSwitch
      <3> QED BY <1>1, <1>4, <3>1, <3>2, <3>3 DEF Live
    <2> QED BY <2>1, <2>2
  <1> QED BY <1>1, <1>3, <1>4, Region DEF InSched, InSwitch

\* The chosen thread becomes RUNNING and the caller RUNNABLE unless it has exited.
LEMMA ChooseStep ==
    ASSUME IInv, TicksAtEdges, status = "running", SchedRun \/ SchedSelf
    PROVE  status' # "wild" /\ (Booting \/ Live)'
  <1>1. Live /\ AtSched(current_thread) /\ current_thread \in Threads /\ save = current_thread
    BY Region DEF SchedRun, SchedSelf, Live, AtSched, WaitLabels, DeadLabels, UserCode, InSched,
       InSwitch, Chosen, Requeued
  <1>2. /\ UNCHANGED <<status, stack, remaining, sp, current_thread, next_thread, esp, save>>
        /\ next_thread \in Threads \ {current_thread}
    BY <1>1 DEF SchedRun, SchedSelf, AtSched, Chosen
  <1>3. \A t \in Threads : Saved(t) => Saved(t)'
    BY <1>2, SavedStable
  <1>0. Chain(current_thread, esp.top)'
    BY <1>1, <1>2 DEF AtSched, Chain, Inner, Cell
  <1>4. CASE SchedRun
    <2>1. \A t \in Threads : state'[t] = IF t = next_thread THEN RUNNING ELSE state[t]
      BY <1>2, <1>4 DEF SchedRun, IInv, ShapeOK
    <2>2. pc = "sc_run" /\ pc' = "sc_self" /\ state[next_thread] = RUNNABLE /\ Saved(next_thread)
      BY <1>1, <1>2, <1>4 DEF SchedRun, AtSched, Live, Others
    <2>3. AtSched(current_thread)'
      BY <1>0, <1>1, <1>2, <1>3, <2>1, <2>2 DEF AtSched, Waits, Cell, Progress, WaitLabels, DeadLabels,
         UserCode, InSched, InSwitch, Chosen, Requeued
    <2>4. Others(current_thread)'
      BY <1>1, <1>2, <1>3, <2>1, <2>2 DEF Live, Others, Chosen, InSwitch, FREE, RUNNING, RUNNABLE
    <2>5. state'[0] # FREE
      BY <1>1, <2>1, UThreadAssumption DEF Live, Threads, FREE, RUNNING
    <2> QED BY <1>1, <1>2, <2>3, <2>4, <2>5 DEF Live, IInv
  <1>5. CASE SchedSelf
    <2>1. \A t \in Threads : state'[t] = IF t = current_thread /\ state[t] = RUNNING THEN RUNNABLE ELSE state[t]
      BY <1>1, <1>5 DEF SchedSelf
    <2>2. pc = "sc_self" /\ pc' = "sc_call"
      BY <1>5 DEF SchedSelf
    <2>3. AtSched(current_thread)'
      BY <1>0, <1>1, <1>2, <1>3, <2>1, <2>2 DEF AtSched, Waits, Cell, Progress, WaitLabels, DeadLabels,
         UserCode, InSched, InSwitch, Chosen, Requeued, FREE, RUNNING, RUNNABLE
    <2>4. Others(current_thread)'
      BY <1>1, <1>2, <1>3, <2>1, <2>2 DEF Live, Others, Chosen, InSwitch, FREE, RUNNING, RUNNABLE
    <2>5. state'[0] # FREE
      BY <1>1, <2>1, UThreadAssumption DEF Live, Threads, FREE, RUNNABLE
    <2> QED BY <1>1, <1>2, <2>3, <2>4, <2>5 DEF Live, IInv
  <1> QED BY <1>4, <1>5

\* The call of thread_switch puts its frame on top of the return address of the caller.
LEMMA SwitchCallStep ==
    ASSUME IInv, TicksAtEdges, status = "running", SchedCallSwitch
    PROVE  status' # "wild" /\ (Booting \/ Live)'
  <1>1. Live /\ AtSched(current_thread) /\ pc = "sc_call"
    BY Region DEF SchedCallSwitch, InSched
  <1>2. Frame("sc_end") \in Cells /\ Frame("sc_end").ret = "sc_end"
    BY FrameType DEF IInv, Labels, SchedLabels
  <1>3. PICK c \in Threads : c = current_thread /\ esp.stk = HomeStack(c) /\ HomeStack(c) \in Stacks
    BY <1>1, HomeStackInjective DEF Live, AtSched
  <1>4. /\ esp'.stk = HomeStack(c) /\ esp'.top # 1 /\ Chain(c, esp.top)'
        /\ stack'[HomeStack(c)][1] = stack[HomeStack(c)][1]
        /\ \A s \in Stacks : s # HomeStack(c) => stack'[s] = stack[s]
    <2>1. Chain(c, esp.top) /\ (TicksAreSafe => esp.top = 1)
      BY <1>1, <1>3 DEF AtSched, InSched
    <2>2. Inner(c, Frame("sc_end"))
      BY <1>2 DEF Inner, EdgePoints
    <2> QED BY <1>2, <1>3, <2>1, <2>2, ChainPush DEF SchedCallSwitch, IInv
  <1>5. ASSUME NEW t \in Threads \ {current_thread}, Saved(t)
        PROVE  Saved(t)'
    <2>1. HomeStack(t) # HomeStack(c) /\ HomeStack(t) \in Stacks
      BY <1>3, HomeStackInjective
    <2> QED BY <1>4, <1>5, <2>1, SavedStable DEF SchedCallSwitch, tcbs
  <1>6. AtSched(current_thread)'
    <2>1. current_thread' = c /\ Waits(c)' = Waits(c) /\ Cell(c, 1)' = Cell(c, 1)
      BY <1>3, <1>4 DEF SchedCallSwitch, Waits, Cell, Progress, tcbs
    <2>2. AtSched(c)'
      BY <1>1, <1>3, <1>4, <1>5, <2>1 DEF SchedCallSwitch, AtSched,
         DeadLabels, InSched, InSwitch, Chosen, Requeued, tcbs
    <2> QED BY <2>1, <2>2
  <1>7. Others(current_thread)'
    BY <1>1, <1>5 DEF SchedCallSwitch, Live, Others, WaitLabels, DeadLabels, UserCode, InSched,
       InSwitch, Chosen, Requeued, tcbs
  <1> QED BY <1>1, <1>3, <1>6, <1>7 DEF SchedCallSwitch, IInv, Live, tcbs

\* thread_switch stores esp in the slot of the caller and loads next_thread.
LEMMA SaveStep ==
    ASSUME IInv, TicksAtEdges, status = "running", SwitchLoad \/ SwitchStore
    PROVE  status' # "wild" /\ (Booting \/ Live)'
  <1>0. Live /\ AtSched(current_thread) /\ pc \in InSwitch /\ pc \in Chosen
    BY Region DEF SwitchLoad, SwitchStore, InSwitch, Chosen
  <1>1. /\ Live /\ AtSched(current_thread) /\ current_thread \in Threads /\ pc \in InSwitch
        /\ next_thread \in Threads \ {current_thread}
    BY <1>0 DEF Live, AtSched
  <1>2. CASE SwitchLoad
    <2>1. \A t \in Threads : Saved(t) => Saved(t)'
      BY <1>2, SavedStable DEF SwitchLoad, tcbs
    <2>0. Chain(current_thread, esp.top)'
      BY <1>1, <1>2 DEF SwitchLoad, AtSched, Chain, Inner, Cell, tcbs
    <2>2. AtSched(current_thread)'
      BY <1>1, <1>2, <2>0, <2>1 DEF SwitchLoad, AtSched, Waits, Cell, Progress, WaitLabels, DeadLabels,
         UserCode, InSched, InSwitch, Chosen, Requeued, tcbs
    <2>3. Others(current_thread)'
      BY <1>1, <1>2, <2>1 DEF SwitchLoad, Live, Others, Chosen, InSwitch, tcbs
    <2> QED BY <1>1, <1>2, <2>2, <2>3 DEF SwitchLoad, IInv, Live, tcbs
  <1>3. CASE SwitchStore
    <2>1. eax = current_thread /\ pc = "sw_store"
      BY <1>1, <1>3 DEF SwitchStore, AtSched
    <2>2. /\ sp' = [sp EXCEPT ![current_thread] = esp] /\ pc' = "sw_next"
          /\ UNCHANGED <<status, esp, eax, save, found, current_thread, next_thread, state, stack, remaining>>
      BY <1>1, <1>3, <2>1 DEF SwitchStore
    <2>3. sp'[current_thread] = esp /\ \A t \in Threads \ {current_thread} : sp'[t] = sp[t]
      BY <1>1, <2>2 DEF IInv, ShapeOK
    <2>4. \A t \in Threads \ {current_thread} : Saved(t) => Saved(t)'
      BY <2>2, <2>3, SavedStable
    <2>0. Chain(current_thread, esp.top)'
      BY <1>1, <2>2 DEF AtSched, Chain, Inner, Cell
    <2>5. AtSched(current_thread)'
      BY <1>1, <2>0, <2>1, <2>2, <2>3, <2>4 DEF AtSched, Waits, Cell, Progress, WaitLabels, DeadLabels,
         UserCode, InSched, InSwitch, Chosen, Requeued
    <2>6. Others(current_thread)'
      BY <1>1, <2>2, <2>4 DEF Live, Others, Chosen, InSwitch
    <2> QED BY <1>1, <2>2, <2>5, <2>6 DEF IInv, Live
  <1> QED BY <1>2, <1>3

\* current_thread moves to the chosen thread; the old one is a waiting thread with a saved context, or FREE.
LEMMA SetCurrentStep ==
    ASSUME IInv, TicksAtEdges, status = "running", SwitchSetCurrent
    PROVE  status' # "wild" /\ (Booting \/ Live)'
  <1>1. /\ Live /\ AtSched(current_thread) /\ current_thread \in Threads /\ pc = "sw_setcur"
        /\ next_thread \in Threads \ {current_thread} /\ eax = next_thread
        /\ state[next_thread] = RUNNING /\ Saved(next_thread)
    <2>1. Live /\ AtSched(current_thread) /\ pc = "sw_setcur" /\ pc \in Chosen
      BY Region DEF SwitchSetCurrent, InSwitch, Chosen
    <2> QED BY <2>1 DEF Live, AtSched
  <1>2. /\ current_thread' = next_thread /\ pc' = "sw_loadsp"
        /\ UNCHANGED <<status, esp, eax, next_thread, state, sp, stack, remaining>>
    BY <1>1 DEF SwitchSetCurrent
  <1>3. \A t \in Threads : Saved(t) => Saved(t)'
    BY <1>2, SavedStable
  <1>4. \/ state[current_thread] = FREE /\ current_thread # 0 /\ Done(current_thread)
        \/ state[current_thread] = RUNNABLE /\ Saved(current_thread)
    BY <1>1 DEF AtSched, Saved, WaitLabels, DeadLabels, UserCode, InSched, InSwitch, Chosen, Requeued
  <1>5. AtRestore(current_thread)'
    BY <1>1, <1>2, <1>3 DEF AtRestore, Saved
  <1>6. Others(current_thread)'
    BY <1>1, <1>2, <1>3, <1>4 DEF Live, Others, FREE, RUNNING, RUNNABLE
  <1> QED BY <1>1, <1>2, <1>5, <1>6 DEF IInv, Live

\* esp moves to the saved context of the new current thread.
LEMMA LoadSpStep ==
    ASSUME IInv, TicksAtEdges, status = "running", SwitchLoadSp
    PROVE  status' # "wild" /\ (Booting \/ Live)'
  <1>1. Live /\ AtRestore(current_thread) /\ current_thread \in Threads /\ eax = current_thread /\ pc = "sw_loadsp"
    BY Region DEF SwitchLoadSp, Live, AtRestore, WaitLabels, DeadLabels, UserCode, InSched, InSwitch,
       Chosen, Requeued
  <1>2. /\ esp' = sp[current_thread] /\ pc' = "sw_pop"
        /\ UNCHANGED <<status, current_thread, next_thread, state, sp, stack, remaining>>
    BY <1>1 DEF SwitchLoadSp, tcbs
  <1>3. \A t \in Threads : Saved(t) => Saved(t)'
    BY <1>2, SavedStable
  <1>4. AtRestore(current_thread)'
    <2>1. Saved(current_thread)' /\ Waits(current_thread)'
      BY <1>1, <1>2, <1>3 DEF AtRestore, Saved
    <2>2. esp.stk' = HomeStack(current_thread)' /\ Chain(current_thread, esp.top)'
      BY <1>2, <2>1 DEF Saved
    <2> QED BY <1>1, <1>2, <2>1, <2>2 DEF AtRestore
  <1>5. Others(current_thread)'
    BY <1>1, <1>2, <1>3 DEF Live, Others, Chosen, InSwitch
  <1> QED BY <1>1, <1>2, <1>4, <1>5 DEF IInv, Live

\* Every return pops a cell of the running thread: into thread_schedule, or to
\* the label where the thread stopped.
LEMMA ReturnStep ==
    ASSUME IInv, TicksAtEdges, status = "running", Return
    PROVE  status' # "wild" /\ (Booting \/ Live)'
  <1>1. pc \in {"sc_end", "sw_pop"} /\ pc \notin Chosen
    BY DEF Return, Chosen, InSwitch
  <1>2. PICK c \in Threads :
           /\ c = current_thread /\ Live /\ esp.stk = HomeStack(c) /\ Chain(c, esp.top)
           /\ state[c] = RUNNING /\ Waits(c)
    BY <1>1, Region DEF Live, AtSched, AtRestore, InSched, InSwitch, Requeued
  <1>3. PICK n \in 1 .. StackDepth : n = esp.top /\ n \in Nat
    BY <1>2 DEF Chain
  <1>4. PICK cell \in Cells : cell = Cell(c, n)
    BY <1>2, <1>3, HomeStackInjective DEF IInv, ShapeOK, Cell
  <1>5. n # 1 => Inner(c, cell)
    BY <1>2, <1>3, <1>4 DEF Chain
  <1>6. cell.ret # "junk"
    BY <1>2, <1>4, <1>5 DEF Waits, WaitLabels, Inner, EdgePoints
  <1>7. /\ pc' = cell.ret /\ save' = cell.save /\ esp' = [esp EXCEPT !.top = @ - 1]
        /\ UNCHANGED <<status, current_thread, next_thread, state, sp, stack, remaining>>
    <2>1. stack[esp.stk][esp.top] = cell /\ esp.top # 0
      BY <1>2, <1>3, <1>4 DEF Cell
    <2> QED BY <1>6, <2>1 DEF Return, tcbs
  <1>8. esp'.stk = HomeStack(c) /\ esp'.top = n - 1
    BY <1>2, <1>3, <1>7 DEF IInv, ShapeOK, StackPtr
  <1>9. \A t \in Threads : (Saved(t) => Saved(t)') /\ Waits(t)' = Waits(t)
    BY <1>7, SavedStable DEF Waits, Cell, Progress
  <1>10. Others(current_thread)'
    BY <1>1, <1>2, <1>7, <1>9 DEF Live, Others
  <1>11. CASE n = 1
    <2>1. AtUser(c)'
      BY <1>2, <1>4, <1>7, <1>8, <1>11 DEF AtUser, Waits, Progress, WaitLabels, DeadLabels, UserCode
    <2> QED BY <1>2, <1>7, <1>10, <2>1 DEF Live
  <1>12. CASE n # 1
    <2>1. Chain(c, esp.top)'
      <3>1. n - 1 \in 1 .. StackDepth /\ 2 .. n - 1 \subseteq 2 .. n
        BY <1>3, <1>12, UThreadAssumption
      <3>2. \A d \in 2 .. n - 1 : Inner(c, stack[HomeStack(c)][d])
        BY <1>2, <1>3, <3>1 DEF Chain, Cell
      <3>3. TicksAreSafe => n <= 2
        BY <1>2, <1>3 DEF Chain
      <3>4. TicksAreSafe => n - 1 <= 2
        BY <1>3, <3>3
      <3> QED BY <1>7, <1>8, <3>1, <3>2, <3>4 DEF Chain, Inner, Cell
    <2>2. TicksAreSafe => esp'.top = 1
      BY <1>2, <1>3, <1>8, <1>12 DEF Chain
    <2>3. CASE cell.ret = "sw_pop"
      <3>1. AtRestore(c)'
        BY <1>2, <1>7, <1>8, <1>9, <2>1, <2>3 DEF AtRestore
      <3> QED BY <1>2, <1>7, <1>10, <3>1 DEF Live
    <2>4. CASE cell.ret # "sw_pop"
      <3>1. AtSched(c)'
        BY <1>2, <1>5, <1>7, <1>8, <1>9, <1>12, <2>1, <2>2, <2>4
           DEF AtSched, Inner, EdgePoints, InSched, InSwitch, Chosen, Requeued
      <3> QED BY <1>2, <1>7, <1>10, <3>1 DEF Live
    <2> QED BY <2>3, <2>4
  <1> QED BY <1>11, <1>12

-----------------------------------------------------------------------------
(***************************************************************************)
(* The invariant and what it implies.                                      *)
(***************************************************************************)

\* A step that does not go wild keeps WildOnlyByOverflow.
LEMMA WildNot == status' # "wild" => WildOnlyByOverflow'
  BY DEF WildOnlyByOverflow

\* Safe ticks are a special case of ticks at the edges of thread_schedule.
LEMMA SafeIsAtEdges == TicksAreSafe => TicksAtEdges
  BY DEF TicksAreSafe, TicksAtEdges

\* IInv holds initially and every step preserves it.
LEMMA Inductive == TicksAtEdges => (Init => IInv) /\ (IInv /\ [Next]_vars => IInv')
  <1> SUFFICES ASSUME TicksAtEdges PROVE (Init => IInv) /\ (IInv /\ [Next]_vars => IInv')
    OBVIOUS
  <1>1. ASSUME Init PROVE IInv
    <2>1. JunkCell \in Cells
      BY DEF JunkCell, Cells, ThreadPtr
    <2>2. stack \in [Stacks -> [1 .. StackDepth -> Cells]] /\ remaining \in [Stacks -> 0 .. Work]
      BY <1>1, <2>1, UThreadAssumption DEF Init
    <2>3. sp \in [Threads -> StackPtr] /\ esp \in StackPtr
      BY <1>1, UThreadAssumption DEF Init, StackPtr, Stacks, Threads, UserStack
    <2>4. state \in [Threads -> {FREE, RUNNING, RUNNABLE}] /\ created \in 0 .. ToCreate /\ ticks \in 0 .. MaxTicks
      BY <1>1, UThreadAssumption DEF Init
    <2>5. ShapeOK /\ TypeOK
      <3>1. remaining \in [Stacks -> Int]
        BY <2>2, UThreadAssumption
      <3>2. ShapeOK
        BY <1>1, <2>2, <2>3, <2>4, <3>1 DEF Init, ShapeOK, Statuses, ThreadPtr, Labels, MainLabels,
           FREE, NULL, Garbage
      <3> QED BY <2>2, <3>2 DEF TypeOK
    <2>6. Booting
      BY <1>1, UThreadAssumption DEF Init, Booting, Threads, Stacks
    <2> QED BY <1>1, <2>5, <2>6 DEF IInv, Init, WildOnlyByOverflow
  <1>2. ASSUME IInv, [Next]_vars PROVE IInv'
    <2>1. CASE status = "running" /\ (Run \/ Upcall)
      <3>1. ShapeOK' /\ (FlagsKept => TypeOK')
        BY <1>2, <2>1, ShapeStep, CountStep DEF TypeOK
      <3>2. WildOnlyByOverflow' /\ (TicksAreSafe => status' # "wild") /\ (Booting \/ Live)'
        BY <1>2, <2>1, WildNot, InitStep, StopStep, CreateStep, CreateStoreStep, MainCallStep, ExitCallStep, BodyStep, UpcallStep,
           ScanStep, ChooseStep, SwitchCallStep, SaveStep, SetCurrentStep, LoadSpStep, ReturnStep DEF Run
      <3> QED BY <3>1, <3>2 DEF IInv
    <2>2. CASE UNCHANGED vars
      <3>1. /\ ShapeOK' /\ (FlagsKept => TypeOK') /\ WildOnlyByOverflow' /\ (TicksAreSafe => status' # "wild")
            /\ UNCHANGED <<regs, tcbs, stack, remaining, created>>
        BY <1>2, <2>2 DEF IInv, ShapeOK, TypeOK, WildOnlyByOverflow, vars, regs, tcbs
      <3> QED BY <1>2, <3>1, Quiet DEF IInv
    <2> QED BY <1>2, <2>1, <2>2 DEF Next, Ended
  <1> QED BY <1>1, <1>2

\* Every variable keeps its shape and the process never reaches undefined
\* behaviour, for any number of slots, threads and iterations, with ticks at
\* any label outside the scheduler at which no thread pointer is in a
\* register; a tick may cost mythread the flags of its loop.
THEOREM SafeTicksNeverWild == TicksAreSafe => (Spec => [](ShapeOK /\ NeverWild))
  <1> SUFFICES ASSUME TicksAreSafe PROVE Spec => [](ShapeOK /\ NeverWild)
    OBVIOUS
  <1>1. Init => IInv
    BY Inductive, SafeIsAtEdges
  <1>2. IInv /\ [Next]_vars => IInv'
    BY Inductive, SafeIsAtEdges
  <1>3. IInv => ShapeOK /\ NeverWild
    BY DEF IInv, NeverWild
  <1> QED BY <1>1, <1>2, <1>3, PTL DEF Spec

\* thread_switch only ever finds a usable context: every RUNNABLE thread can
\* be resumed where it stopped.
THEOREM SafeTicksWaitersResumable == TicksAreSafe => (Spec => []WaitersResumable)
  <1> SUFFICES ASSUME TicksAreSafe PROVE Spec => []WaitersResumable
    OBVIOUS
  <1>1. Init => IInv
    BY Inductive, SafeIsAtEdges
  <1>2. IInv /\ [Next]_vars => IInv'
    BY Inductive, SafeIsAtEdges
  <1>3. IInv => WaitersResumable
    <2>1. \A t \in Threads : Saved(t) => Resumable(t)
      <3> SUFFICES ASSUME NEW t \in Threads, Saved(t) PROVE Resumable(t)
        OBVIOUS
      <3>1. sp[t].top \in {1, 2} /\ (sp[t].top = 2 => Cell(t, 2).ret = "sc_end")
        BY DEF Saved, Chain, Inner
      <3> QED BY <3>1 DEF Saved, Resumable, Waits, Cell, WaitLabels, MainLabels, BodyLabels
    <2> QED BY <2>1 DEF IInv, WaitersResumable, Booting, Live, Others, FREE, RUNNABLE
  <1> QED BY <1>1, <1>2, <1>3, PTL DEF Spec

-----------------------------------------------------------------------------
(***************************************************************************)
(* Ticks at the edges of the scheduler as well.                            *)
(***************************************************************************)

\* Whenever thread code runs, it runs on the stack of current_thread and no
\* other slot is RUNNING.
THEOREM EdgeTicksCurrentOwnsCpu == TicksAtEdges => (Spec => []CurrentOwnsCpu)
  <1> SUFFICES ASSUME TicksAtEdges PROVE Spec => []CurrentOwnsCpu
    OBVIOUS
  <1>1. Init => IInv
    BY Inductive
  <1>2. IInv /\ [Next]_vars => IInv'
    BY Inductive
  <1>3. IInv => CurrentOwnsCpu
    BY DEF IInv, CurrentOwnsCpu, Booting, Live, AtUser, AtSched, AtRestore, Others, UserLabels,
       MainLabels, BodyLabels,
           WaitLabels, DeadLabels, UserCode, InSched, InSwitch, Chosen, Requeued
  <1> QED BY <1>1, <1>2, <1>3, PTL DEF Spec

\* Control never returns to a thread that has called thread_exit.
THEOREM EdgeTicksExitIsFinal == TicksAtEdges => (Spec => []ThreadExitIsFinal)
  <1> SUFFICES ASSUME TicksAtEdges PROVE Spec => []ThreadExitIsFinal
    OBVIOUS
  <1>1. Init => IInv
    BY Inductive
  <1>2. IInv /\ [Next]_vars => IInv'
    BY Inductive
  <1>3. IInv => ThreadExitIsFinal
    BY DEF IInv, ThreadExitIsFinal, Booting, Live, AtUser, AtSched, AtRestore, WaitLabels, DeadLabels,
       UserCode, InSched, InSwitch, Chosen, Requeued
  <1> QED BY <1>1, <1>2, <1>3, PTL DEF Spec

\* If besides no tick falls between the comparison and the branch of mythread's
\* loop, a slot is freed only when its thread has finished the loop, and the
\* loop runs no more than its number of iterations.  trap() gives no such
\* guarantee: where the flags are lost a thread may end early, or late.
THEOREM EdgeTicksThreadsFinish ==
    TicksAtEdges /\ FlagsKept => (Spec => [](TypeOK /\ NoThreadLost))
  <1> SUFFICES ASSUME TicksAtEdges, FlagsKept PROVE Spec => [](TypeOK /\ NoThreadLost)
    OBVIOUS
  <1>1. Init => IInv
    BY Inductive
  <1>2. IInv /\ [Next]_vars => IInv'
    BY Inductive
  <1>3. IInv => TypeOK
    BY DEF IInv
  <1>4. IInv => NoThreadLost
    BY DEF IInv, NoThreadLost, Booting, Live, AtUser, AtSched, AtRestore, Others, Progress, FREE,
       RUNNING, RUNNABLE, WaitLabels, DeadLabels, UserCode, InSched, InSwitch, Chosen, Requeued
  <1> QED BY <1>1, <1>2, <1>3, <1>4, PTL DEF Spec

\* Ticks that hit thread_schedule before it has chosen a thread, or after
\* thread_switch has restored one, do no harm: every waiting thread's saved
\* pointer is on its own stack, and only a full stack leads to undefined
\* behaviour.
THEOREM EdgeTicksHarmless == TicksAtEdges => (Spec => [](SavedOnOwnStack /\ WildOnlyByOverflow))
  <1> SUFFICES ASSUME TicksAtEdges PROVE Spec => [](SavedOnOwnStack /\ WildOnlyByOverflow)
    OBVIOUS
  <1>1. Init => IInv
    BY Inductive
  <1>2. IInv /\ [Next]_vars => IInv'
    BY Inductive
  <1>3. IInv => SavedOnOwnStack
    BY DEF IInv, SavedOnOwnStack, Booting, Live, Others, Saved, FREE, RUNNABLE
  <1>4. IInv => WildOnlyByOverflow
    BY DEF IInv
  <1> QED BY <1>1, <1>2, <1>3, <1>4, PTL DEF Spec

\* A push leaves every other thread's stack and all saved pointers alone.
LEMMA PushElsewhere ==
    ASSUME ShapeOK, NEW label \in Labels, Push(Frame(label)), sp' = sp, NEW t \in Threads
    PROVE  Untouched(t)
  <1>1. \A s \in Stacks : s # esp.stk => stack'[s] = stack[s]
    BY FrameType, PushWrites
  <1> QED BY <1>1, HomeStackInjective DEF Untouched

\* thread_create builds its frame on the stack of a FREE slot, never on that
\* of a thread that waits.
LEMMA CreateElsewhere ==
    ASSUME IInv, ThreadCreateStore, NEW t \in Threads
    PROVE  Untouched(t)
  <1>1. Live /\ AtUser(current_thread) /\ pc = "create_store"
    BY Region DEF ThreadCreateStore, UserCode
  <1>2. PICK u \in Threads : u = eax /\ state[u] = FREE /\ u # 0
    BY <1>1 DEF AtUser, Live
  <1>3. /\ stack' = [stack EXCEPT ![u] =
                       [@ EXCEPT ![1] = [ret |-> "body", save |-> NULL, found |-> NULL]]]
        /\ sp' = [sp EXCEPT ![u] = [stk |-> u, top |-> 1]]
    BY <1>2 DEF ThreadCreateStore
  <1>4. CASE state[t] # RUNNABLE
    BY <1>4 DEF Untouched
  <1>5. CASE state[t] = RUNNABLE
    <2>1. t # u
      BY <1>2, <1>5 DEF FREE, RUNNABLE
    <2>2. HomeStack(t) # u /\ HomeStack(t) \in Stacks
      BY <1>2, <2>1, HomeStackInjective
    <2>3. stack'[HomeStack(t)] = stack[HomeStack(t)] /\ sp'[t] = sp[t]
      BY <1>3, <2>1, <2>2 DEF IInv, ShapeOK
    <2> QED BY <2>3 DEF Untouched
  <1> QED BY <1>4, <1>5

\* thread_switch saves esp in the slot of the thread whose stack it is.
LEMMA StoreElsewhere ==
    ASSUME IInv, SwitchStore, NEW t \in Threads
    PROVE  Untouched(t)
  <1>1. current_thread \in Threads /\ eax = current_thread /\ esp.stk = HomeStack(current_thread)
    BY Region DEF SwitchStore, Live, AtSched, InSwitch
  <1>2. sp' = [sp EXCEPT ![current_thread] = esp] /\ stack' = stack
    BY <1>1 DEF SwitchStore
  <1>3. t # current_thread => sp'[t] = sp[t]
    BY <1>1, <1>2 DEF IInv, ShapeOK
  <1> QED BY <1>1, <1>2, <1>3 DEF Untouched

\* While a thread is suspended nobody else writes its part of the memory: the
\* cells of its stack up to its saved sp, and that sp.
THEOREM EdgeTicksSuspendedUntouched == TicksAtEdges => (Spec => SuspendedUntouched)
  <1> SUFFICES ASSUME TicksAtEdges PROVE Spec => SuspendedUntouched
    OBVIOUS
  <1>1. Init => IInv
    BY Inductive
  <1>2. IInv /\ [Next]_vars => IInv'
    BY Inductive
  <1>3. IInv /\ [Next]_vars => \A t \in Threads : Untouched(t)
    <2> SUFFICES ASSUME IInv, [Next]_vars, NEW t \in Threads PROVE Untouched(t)
      OBVIOUS
    <2>1. CASE sp' = sp /\ stack' = stack
      BY <2>1 DEF Untouched
    <2>2. CASE MainCallSchedule \/ ThreadExitCall \/ SchedCallSwitch \/ Upcall
      <3>1. \E label \in Labels : Push(Frame(label))
        <4>1. pc \in Labels /\ {"main_ret", "exit_ret", "sc_end"} \subseteq Labels
          BY DEF IInv, ShapeOK, Labels, MainLabels, BodyLabels, SchedLabels
        <4> QED BY <2>2, <4>1 DEF MainCallSchedule, ThreadExitCall, SchedCallSwitch, Upcall
      <3>2. sp' = sp
        BY <2>2 DEF MainCallSchedule, ThreadExitCall, SchedCallSwitch, Upcall, tcbs
      <3> QED BY <3>1, <3>2, PushElsewhere DEF IInv
    <2>3. CASE ThreadCreateStore
      BY <2>3, CreateElsewhere
    <2>4. CASE SwitchStore
      BY <2>4, StoreElsewhere
    <2>5. CASE UthreadInit \/ ThreadInitCurrent \/ ThreadInitState \/ ThreadInitStore \/ ThreadCreate
               \/ MainCreated \/ MainReturn \/ BodyCompare \/ BodyBranch
               \/ ThreadExitFree \/ ThreadExitStore \/ ThreadExitReturned
      BY <2>1, <2>5 DEF UthreadInit, ThreadInitCurrent, ThreadInitState, ThreadInitStore, ThreadCreate,
         MainCreated, MainReturn, BodyCompare, BodyBranch, ThreadExitFree, ThreadExitStore,
         ThreadExitReturned, Stop, tcbs
    <2>6. CASE SchedSave \/ SchedScan \/ SchedNext \/ SchedRun \/ SchedSelf \/ SchedNone
      BY <2>1, <2>6 DEF SchedSave, SchedScan, SchedNext, SchedRun, SchedSelf, SchedNone, Stop, tcbs
    <2>7. CASE SwitchLoad \/ SwitchSetCurrent \/ SwitchLoadSp \/ Return \/ StackOverflow
      BY <2>1, <2>7 DEF SwitchLoad, SwitchSetCurrent, SwitchLoadSp, Return, StackOverflow, Stop, tcbs
    <2>8. CASE UNCHANGED vars
      BY <2>1, <2>8 DEF vars, tcbs
    <2> QED BY <2>2, <2>3, <2>4, <2>5, <2>6, <2>7, <2>8 DEF Next, Run, Ended
  <1> QED BY <1>1, <1>2, <1>3, PTL DEF Spec, SuspendedUntouched

-----------------------------------------------------------------------------
(***************************************************************************)
(* Ticks at any instruction.  What survives them: no stack ever holds the  *)
(* return address of another stack's code, so however often thread_switch  *)
(* picks the wrong stack pointer, ret continues in code of that stack.     *)
(***************************************************************************)

\* The cells of a stack return to code of that stack, or into the scheduler.
CellFits(s, cell) ==
    /\ cell.ret \in Labels \cup {"junk"}
    /\ cell.ret \in MainLabels => s = UserStack
    /\ cell.ret \in BodyLabels => s # UserStack

Placed ==
    /\ pc \in Labels /\ esp \in StackPtr /\ sp \in [Threads -> StackPtr]
    /\ DOMAIN stack = Stacks
    /\ \A s \in Stacks :
          /\ DOMAIN stack[s] = 1 .. StackDepth
          /\ stack[s] = [d \in 1 .. StackDepth |-> stack[s][d]]
          /\ \A d \in 1 .. StackDepth : CellFits(s, stack[s][d])
    /\ stack = [s \in Stacks |-> stack[s]]
    /\ CodeOnItsStack

LEMMA PlacedInit == Init => Placed
  <1> SUFFICES ASSUME Init PROVE Placed
    OBVIOUS
  <1>1. /\ pc = "init" /\ esp = [stk |-> UserStack, top |-> 0] /\ UserStack \in Stacks
        /\ esp \in StackPtr
    BY UThreadAssumption DEF Init, UserStack, Stacks, StackPtr
  <1>2. sp \in [Threads -> StackPtr]
    BY UThreadAssumption DEF Init, Threads, Stacks, StackPtr
  <1>3. \A s \in Stacks : stack[s] = [d \in 1 .. StackDepth |-> JunkCell]
    BY DEF Init
  <1>4. \A s \in Stacks : CellFits(s, JunkCell)
    BY DEF CellFits, JunkCell, MainLabels, BodyLabels
  <1>5. stack = [s \in Stacks |-> stack[s]] /\ DOMAIN stack = Stacks
    BY DEF Init
  <1>6. \A s \in Stacks : /\ DOMAIN stack[s] = 1 .. StackDepth
                          /\ stack[s] = [d \in 1 .. StackDepth |-> stack[s][d]]
                          /\ \A d \in 1 .. StackDepth : stack[s][d] = JunkCell
    BY <1>3
  <1>7. CodeOnItsStack /\ pc \in Labels
    BY <1>1 DEF CodeOnItsStack, Labels, MainLabels, BodyLabels
  <1> QED BY <1>1, <1>2, <1>4, <1>5, <1>6, <1>7 DEF Placed

\* A write of one cell that fits leaves every cell fitting.
LEMMA CellWritten ==
    ASSUME Placed, NEW s \in Stacks, NEW n \in 1 .. StackDepth, NEW cell, CellFits(s, cell),
           stack' = [stack EXCEPT ![s] = [@ EXCEPT ![n] = cell]]
    PROVE  /\ DOMAIN stack' = Stacks
           /\ \A r \in Stacks :
                 /\ DOMAIN stack'[r] = 1 .. StackDepth
                 /\ stack'[r] = [d \in 1 .. StackDepth |-> stack'[r][d]]
                 /\ \A d \in 1 .. StackDepth : CellFits(r, stack'[r][d])
           /\ stack' = [r \in Stacks |-> stack'[r]]
  <1>1. stack'[s] = [stack[s] EXCEPT ![n] = cell] /\ \A r \in Stacks \ {s} : stack'[r] = stack[r]
    BY DEF Placed
  <1>2. DOMAIN stack' = Stacks /\ stack' = [r \in Stacks |-> stack'[r]]
    BY DEF Placed
  <1>3. /\ DOMAIN stack'[s] = 1 .. StackDepth
        /\ stack'[s] = [d \in 1 .. StackDepth |-> stack'[s][d]]
        /\ \A d \in 1 .. StackDepth : stack'[s][d] = IF d = n THEN cell ELSE stack[s][d]
    BY <1>1 DEF Placed
  <1>4. \A d \in 1 .. StackDepth : CellFits(s, stack'[s][d])
    BY <1>3 DEF Placed
  <1> QED BY <1>1, <1>2, <1>3, <1>4 DEF Placed

\* A push of a return address into code of the stack in use.
LEMMA PlacedPush ==
    ASSUME Placed, NEW l \in Labels, Push(Frame(l)), pc' \in SchedLabels \cup SwitchLabels, sp' = sp,
           l \in MainLabels => esp.stk = UserStack, l \in BodyLabels => esp.stk # UserStack
    PROVE  Placed'
  <1>1. /\ esp.stk \in Stacks /\ esp.top + 1 \in 1 .. StackDepth /\ esp' \in StackPtr
        /\ stack' = [stack EXCEPT ![esp.stk] = [@ EXCEPT ![esp.top + 1] = Frame(l)]]
    <2>1. /\ esp.top < StackDepth /\ esp' = [esp EXCEPT !.top = @ + 1]
          /\ stack' = [stack EXCEPT ![esp.stk] = [@ EXCEPT ![esp.top + 1] = Frame(l)]]
      BY DEF Push
    <2>2. esp \in [stk : Stacks, top : 0 .. StackDepth]
      BY DEF Placed, StackPtr
    <2>3. esp.top + 1 \in 1 .. StackDepth /\ esp.top + 1 \in 0 .. StackDepth
      BY <2>1, <2>2, UThreadAssumption
    <2> QED BY <2>1, <2>2, <2>3 DEF StackPtr
  <1>2. CellFits(esp.stk, Frame(l))
    BY DEF CellFits, Frame
  <1>3. pc' \in Labels /\ CodeOnItsStack'
    BY DEF CodeOnItsStack, Labels, MainLabels, BodyLabels, SchedLabels, SwitchLabels
  <1>4. sp' \in [Threads -> StackPtr]
    BY DEF Placed
  <1>5. /\ DOMAIN stack' = Stacks
        /\ \A r \in Stacks :
              /\ DOMAIN stack'[r] = 1 .. StackDepth
              /\ stack'[r] = [d \in 1 .. StackDepth |-> stack'[r][d]]
              /\ \A d \in 1 .. StackDepth : CellFits(r, stack'[r][d])
        /\ stack' = [r \in Stacks |-> stack'[r]]
    BY <1>1, <1>2, CellWritten
  <1> QED BY <1>1, <1>3, <1>4, <1>5 DEF Placed

\* A step inside the code of one stack.
LEMMA PlacedJump ==
    ASSUME Placed, UNCHANGED <<stack, esp>>, pc' \in Labels, sp' \in [Threads -> StackPtr],
           pc' \in MainLabels => pc \in MainLabels, pc' \in BodyLabels => pc \in BodyLabels
    PROVE  Placed'
  BY DEF Placed, CodeOnItsStack, CellFits

LEMMA PlacedStep == Placed /\ [Next]_vars => Placed'
  <1> SUFFICES ASSUME Placed, [Next]_vars PROVE Placed'
    OBVIOUS
  <1> USE DEF Labels, MainLabels, BodyLabels, SchedLabels, SwitchLabels
  <1>1. CASE UthreadInit \/ ThreadInitCurrent \/ ThreadInitState \/ ThreadCreate \/ MainCreated
             \/ BodyCompare \/ BodyBranch \/ ThreadExitFree
    BY <1>1, PlacedJump DEF UthreadInit, ThreadInitCurrent, ThreadInitState, ThreadCreate, MainCreated,
       BodyCompare, BodyBranch, ThreadExitFree, tcbs, Placed
  <1>2. CASE SchedSave \/ SchedScan \/ SchedNext \/ SchedRun \/ SchedSelf
    BY <1>2, PlacedJump DEF SchedSave, SchedScan, SchedNext, SchedRun, SchedSelf, tcbs, Placed
  <1>3. CASE (\E how \in Statuses : Stop(how)) \/ UNCHANGED vars
    <2>1. UNCHANGED <<pc, esp, sp, stack>>
      BY <1>3 DEF Stop, vars, regs, tcbs
    <2> QED BY <2>1, PlacedJump DEF Placed
  <1>4. CASE SchedNone
    BY <1>3, <1>4, PlacedJump DEF SchedNone, Statuses, tcbs, Placed
  <1>5. CASE ThreadCreateStore /\ eax \in Threads
    <2>1. PICK t \in Threads :
            /\ stack' = [stack EXCEPT ![t] =
                           [@ EXCEPT ![1] = [ret |-> "body", save |-> NULL, found |-> NULL]]]
            /\ sp' = [sp EXCEPT ![t] = [stk |-> t, top |-> 1]]
      BY <1>5 DEF ThreadCreateStore
    <2>2. t \in Stacks /\ t # UserStack /\ 1 \in 1 .. StackDepth
      BY UThreadAssumption DEF Threads, Stacks, UserStack
    <2>3. CellFits(t, [ret |-> "body", save |-> NULL, found |-> NULL])
      BY <2>2 DEF CellFits
    <2>4. sp' \in [Threads -> StackPtr]
      BY <2>1, <2>2, UThreadAssumption DEF Placed, StackPtr
    <2>5. pc = "create_store" /\ pc' = "create" /\ esp' = esp
      BY <1>5 DEF ThreadCreateStore
    <2>6. /\ DOMAIN stack' = Stacks
          /\ \A r \in Stacks :
                /\ DOMAIN stack'[r] = 1 .. StackDepth
                /\ stack'[r] = [d \in 1 .. StackDepth |-> stack'[r][d]]
                /\ \A d \in 1 .. StackDepth : CellFits(r, stack'[r][d])
          /\ stack' = [r \in Stacks |-> stack'[r]]
      BY <2>1, <2>2, <2>3, CellWritten
    <2>7. CodeOnItsStack' /\ pc' \in Labels /\ esp' \in StackPtr
      BY <2>5 DEF Placed, CodeOnItsStack
    <2> QED BY <2>4, <2>6, <2>7 DEF Placed
  <1>6. CASE MainCallSchedule
    BY <1>6, PlacedPush DEF MainCallSchedule, tcbs, Placed, CodeOnItsStack
  <1>7. CASE ThreadExitCall
    BY <1>7, PlacedPush DEF ThreadExitCall, tcbs, Placed, CodeOnItsStack
  <1>8. CASE SchedCallSwitch
    BY <1>8, PlacedPush DEF SchedCallSwitch, tcbs, Placed
  <1>9. CASE Upcall
    <2>1. pc \in Labels /\ Push(Frame(pc)) /\ pc' \in SchedLabels /\ sp' = sp
      BY <1>9 DEF Upcall, tcbs, Placed
    <2> QED BY <2>1, PlacedPush DEF Placed, CodeOnItsStack
  <1>10. CASE SwitchLoad \/ SwitchStore \/ SwitchSetCurrent
    BY <1>3, <1>10, PlacedJump DEF SwitchLoad, SwitchStore, SwitchSetCurrent, Statuses, tcbs, Placed
  <1>11. CASE SwitchLoadSp
    <2>1. CASE Stop("wild")
      BY <1>3, <2>1 DEF Statuses
    <2>2. CASE ~Stop("wild")
      <3>1. eax \in Threads /\ esp' = sp[eax] /\ pc' = "sw_pop" /\ UNCHANGED <<sp, stack>>
        BY <1>11, <2>2 DEF SwitchLoadSp, tcbs
      <3>2. esp' \in StackPtr /\ pc' \in Labels /\ CodeOnItsStack'
        BY <3>1 DEF Placed, CodeOnItsStack
      <3> QED BY <3>1, <3>2 DEF Placed, CellFits
    <2> QED BY <2>1, <2>2
  <1>12. CASE Return
    <2>1. CASE Stop("wild")
      BY <1>3, <2>1 DEF Statuses
    <2>2. CASE ~Stop("wild")
      <3> DEFINE cell == stack[esp.stk][esp.top]
      <3>1. /\ esp.top # 0 /\ cell.ret # "junk" /\ pc' = cell.ret
            /\ esp' = [esp EXCEPT !.top = @ - 1] /\ UNCHANGED <<sp, stack>>
        BY <1>12, <2>2 DEF Return, tcbs
      <3>2. esp.stk \in Stacks /\ esp.top \in 1 .. StackDepth /\ esp' \in StackPtr /\ esp'.stk = esp.stk
        BY <3>1, UThreadAssumption DEF Placed, StackPtr
      <3>3. CellFits(esp.stk, cell)
        BY <3>2 DEF Placed
      <3>4. CodeOnItsStack' /\ pc' \in Labels
        BY <3>1, <3>2, <3>3 DEF CellFits, CodeOnItsStack
      <3> QED BY <3>1, <3>2, <3>4 DEF Placed, CellFits
    <2> QED BY <2>1, <2>2
  <1>13. CASE StackOverflow \/ MainReturn \/ ThreadExitReturned
    BY <1>3, <1>13 DEF StackOverflow, MainReturn, ThreadExitReturned, Statuses
  <1>14. CASE ThreadInitStore \/ ThreadExitStore
    BY <1>3, <1>14, PlacedJump DEF ThreadInitStore, ThreadExitStore, Statuses, tcbs, Placed
  <1>15. CASE ThreadCreateStore /\ eax \notin Threads
    BY <1>3, <1>15 DEF ThreadCreateStore, Statuses
  <1> QED BY <1>1, <1>2, <1>3, <1>4, <1>5, <1>6, <1>7, <1>8, <1>9, <1>10, <1>11, <1>12, <1>13,
             <1>14, <1>15 DEF Next, Run, Ended

\* Wherever ticks arrive, also inside thread_schedule and thread_switch: main's
\* code runs on the process's stack only and mythread's code on a stack made
\* by thread_create only.
THEOREM CodeStaysOnItsStack == Spec => []CodeOnItsStack
  <1>1. Placed => CodeOnItsStack
    BY DEF Placed
  <1> QED BY <1>1, PlacedInit, PlacedStep, PTL DEF Spec
=============================================================================
