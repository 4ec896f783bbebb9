------------------------------ MODULE UThread ------------------------------
(***************************************************************************)
(* User-level threads with timer upcalls: xv6/uthread1.c (thread_init,     *)
(* thread_create, thread_schedule, thread_exit, mythread, main),           *)
(* xv6/uthread_switch.S (thread_switch, one action per instruction that    *)
(* touches shared state) and the upcall half of the timer case of          *)
(* xv6/trap.c together with sys_uthread_init.                              *)
(*                                                                         *)
(* One process, one CPU.  The only concurrency is the timer: at any label  *)
(* in TickPoints the kernel may save the user eip below esp and restart    *)
(* the process in thread_schedule.  The stacks are memory: a stack is an   *)
(* array of cells, esp is an index, and a pop leaves the cell in place.    *)
(* A cell stands for a return address together with the caller's saved     *)
(* frame (the locals current_save and found_next of thread_schedule).      *)
(* eax stands for everything that neither the upcall nor thread_switch     *)
(* preserves: eax, ecx, edx and the condition flags.                       *)
(***************************************************************************)
EXTENDS Integers, FiniteSets

CONSTANTS
    MaxThread,   \* MAX_THREAD: slots of all_thread
    ToCreate,    \* number of thread_create calls made by main
    Work,        \* iterations of the loop of mythread
    StackDepth,  \* cells that fit in one stack (STACK_SIZE)
    TickPoints,  \* labels at which a timer interrupt may arrive
    MaxTicks     \* bound on the timer interrupts of a behaviour

\* States of a thread slot.
FREE     == "FREE"
RUNNING  == "RUNNING"
RUNNABLE == "RUNNABLE"

Threads   == 0 .. (MaxThread - 1)
NULL      == -1                  \* the null thread pointer
Garbage   == -2                  \* a scratch register whose value is lost
UserStack == MaxThread           \* the process's own stack, used by main
Stacks    == 0 .. MaxThread      \* all_thread[t].stack, and UserStack

\* The stack on which the code of thread t runs.
HomeStack(t) == IF t = 0 THEN UserStack ELSE t

MainLabels   == {"init", "init_cur", "init_state", "init_store", "create", "create_store",
                 "main_call", "main_ret"}
BodyLabels   == {"body", "body_test", "exit_free", "exit_store", "exit_call", "exit_ret"}
SchedLabels  == {"sc_save", "sc_scan", "sc_next", "sc_run", "sc_self", "sc_call", "sc_none", "sc_end"}
SwitchLabels == {"sw_cur", "sw_store", "sw_next", "sw_setcur", "sw_loadsp", "sw_pop"}
Labels       == MainLabels \cup BodyLabels \cup SchedLabels \cup SwitchLabels

\* The labels outside the scheduler between the load of a thread pointer into
\* eax and the store through it.
StoreLabels == {"init_store", "create_store", "exit_store"}

\* The labels outside the scheduler at which no thread pointer is in eax; at
\* body_test the condition flags are live.
UserPoints == (MainLabels \cup BodyLabels) \ StoreLabels

\* The labels outside the scheduler at which nothing is live that an upcall
\* loses.
SafePoints == UserPoints \ {"body_test"}

\* The labels of the scheduler before it has chosen a thread and after it has
\* restored one.
EdgePoints == {"sc_save", "sc_scan", "sc_none", "sc_end", "sw_pop"}

ASSUME UThreadAssumption ==
    /\ MaxThread \in Nat \ {0}
    /\ ToCreate \in Nat
    /\ Work \in Nat
    /\ StackDepth \in Nat \ {0}
    /\ TickPoints \subseteq Labels
    /\ MaxTicks \in Nat

ThreadPtr == Threads \cup {NULL}
Cells     == [ret : Labels \cup {"junk"}, save : ThreadPtr, found : ThreadPtr]
JunkCell  == [ret |-> "junk", save |-> NULL, found |-> NULL]
StackPtr  == [stk : Stacks, top : 0 .. StackDepth]

VARIABLES
    status,          \* "running", how the process ended, or "wild"
    scheduler,       \* p->scheduler: TRUE once thread_schedule is registered
    pc,              \* label of the next instruction
    esp,             \* stack pointer: a stack and the number of cells on it
    eax,             \* scratch registers
    save, found,     \* locals of the active thread_schedule
    current_thread,
    next_thread,
    state,           \* all_thread[t].state
    sp,              \* all_thread[t].sp
    stack,           \* memory of every stack
    remaining,       \* loop bound minus i, for the mythread on a stack
    created,         \* thread_create calls already made by main
    ticks            \* timer interrupts so far

regs == <<pc, esp, eax, save, found>>
tcbs == <<current_thread, next_thread, state, sp>>
vars == <<status, scheduler, regs, tcbs, stack, remaining, created, ticks>>

-----------------------------------------------------------------------------
(***************************************************************************)
(* Calls, returns and the ways a process ends.                             *)
(***************************************************************************)

Frame(label) == [ret |-> label, save |-> save, found |-> found]

\* Push a cell at esp.
Push(cell) ==
    /\ esp.top < StackDepth
    /\ stack' = [stack EXCEPT ![esp.stk] = [@ EXCEPT ![esp.top + 1] = cell]]
    /\ esp' = [esp EXCEPT !.top = @ + 1]

\* End of the process, or the start of undefined behaviour ("wild").
Stop(how) ==
    /\ status' = how
    /\ UNCHANGED <<scheduler, regs, tcbs, stack, remaining, created, ticks>>

\* Pushing below a stack: a page fault at the guard page under the user
\* stack (the process is killed); for a thread's stack an overwrite of its
\* own sp field and of the slot before it.
StackOverflow ==
    /\ esp.top = StackDepth
    /\ \/ pc \in {"main_call", "exit_call", "sc_call"}
       \/ pc \in TickPoints /\ scheduler /\ ticks < MaxTicks
    /\ Stop(IF esp.stk = UserStack THEN "killed" ELSE "wild")

\* ret: pop the cell under esp and continue in the caller's frame.  An
\* empty stack or a cell nobody wrote sends the CPU to a wild address.
Return ==
    /\ pc \in {"sc_end", "sw_pop"}
    /\ IF esp.top = 0 \/ stack[esp.stk][esp.top].ret = "junk"
       THEN Stop("wild")
       ELSE LET cell == stack[esp.stk][esp.top] IN
            /\ pc' = cell.ret
            /\ save' = cell.save
            /\ found' = cell.found
            /\ eax' = Garbage
            /\ esp' = [esp EXCEPT !.top = @ - 1]
            /\ UNCHANGED <<status, scheduler, tcbs, stack, remaining, created, ticks>>

-----------------------------------------------------------------------------
(***************************************************************************)
(* main, thread_init and thread_create.                                    *)
(***************************************************************************)

\* sys_uthread_init: from here on timer interrupts become upcalls.
UthreadInit ==
    /\ pc = "init"
    /\ scheduler' = TRUE
    /\ pc' = "init_cur"
    /\ UNCHANGED <<status, esp, eax, save, found, tcbs, stack, remaining, created, ticks>>

ThreadInitCurrent ==
    /\ pc = "init_cur"
    /\ current_thread' = 0
    /\ pc' = "init_state"
    /\ UNCHANGED <<status, scheduler, esp, eax, save, found, next_thread, state, sp,
                   stack, remaining, created, ticks>>

\* The load of current_thread for current_thread->state = RUNNING.
ThreadInitState ==
    /\ pc = "init_state"
    /\ eax' = current_thread
    /\ pc' = "init_store"
    /\ UNCHANGED <<status, scheduler, esp, save, found, tcbs, stack, remaining, created, ticks>>

\* The store of RUNNING through eax and the loop over the other slots.
ThreadInitStore ==
    /\ pc = "init_store"
    /\ IF eax \in Threads
       THEN /\ state' = [t \in Threads |-> IF t > 0 THEN FREE
                                           ELSE IF t = eax THEN RUNNING ELSE state[t]]
            /\ pc' = "create"
            /\ UNCHANGED <<status, scheduler, esp, eax, save, found, current_thread, next_thread,
                           sp, stack, remaining, created, ticks>>
       ELSE Stop("wild")

\* The first FREE slot, searched from all_thread[0].
FreeSlots == {t \in Threads : state[t] = FREE}
IsFirst(t, S) == t \in S /\ \A u \in S : t <= u

\* thread_create up to the load of t: the first FREE slot.  With no FREE slot
\* it prints "too many threads" and returns.
ThreadCreate ==
    /\ pc = "create"
    /\ created < ToCreate
    /\ \/ /\ FreeSlots = {}
          /\ created' = created + 1
          /\ UNCHANGED <<pc, eax>>
       \/ \E t \in Threads :
            /\ IsFirst(t, FreeSlots)
            /\ eax' = t
            /\ pc' = "create_store"
            /\ UNCHANGED created
    /\ UNCHANGED <<status, scheduler, esp, save, found, tcbs, stack, remaining, ticks>>

\* Mutant: the address of func is never stored on the new stack.
ThreadCreateNoFunc ==
    /\ pc = "create_store"
    /\ eax \in Threads
    /\ sp' = [sp EXCEPT ![eax] = [stk |-> eax, top |-> 1]]
    /\ state' = [state EXCEPT ![eax] = RUNNABLE]
    /\ remaining' = [remaining EXCEPT ![eax] = Work]
    /\ created' = created + 1
    /\ pc' = "create"
    /\ UNCHANGED <<status, scheduler, esp, eax, save, found, current_thread, next_thread,
                   stack, ticks>>

\* The stores of thread_create through t, the last of which makes the slot
\* RUNNABLE: the initial frame makes the first ret enter func.
ThreadCreateStore ==
    /\ pc = "create_store"
    /\ IF eax \in Threads
       THEN /\ stack' = [stack EXCEPT ![eax] =
                           [@ EXCEPT ![1] = [ret |-> "body", save |-> NULL, found |-> NULL]]]
            /\ sp' = [sp EXCEPT ![eax] = [stk |-> eax, top |-> 1]]
            /\ state' = [state EXCEPT ![eax] = RUNNABLE]
            /\ remaining' = [remaining EXCEPT ![eax] = Work]
            /\ created' = created + 1
            /\ pc' = "create"
            /\ UNCHANGED <<status, scheduler, esp, eax, save, found, current_thread,
                           next_thread, ticks>>
       ELSE Stop("wild")

MainCreated ==
    /\ pc = "create"
    /\ created = ToCreate
    /\ pc' = "main_call"
    /\ UNCHANGED <<status, scheduler, esp, eax, save, found, tcbs, stack, remaining, created, ticks>>

MainCallSchedule ==
    /\ pc = "main_call"
    /\ Push(Frame("main_ret"))
    /\ pc' = "sc_save"
    /\ UNCHANGED <<status, scheduler, eax, save, found, tcbs, remaining, created, ticks>>

\* "main: returned unexpectedly!": main is entered without a caller (-e main,
\* the fake return address 0xffffffff), so returning from it faults.
MainReturn ==
    /\ pc = "main_ret"
    /\ Stop("main_returned")

-----------------------------------------------------------------------------
(***************************************************************************)
(* mythread and thread_exit.                                               *)
(***************************************************************************)

\* Mutant: i <= bound instead of i < bound.
BodyCompareInclusive ==
    /\ pc = "body"
    /\ eax' = IF remaining[esp.stk] >= 0 THEN 1 ELSE 0
    /\ pc' = "body_test"
    /\ UNCHANGED <<status, scheduler, esp, save, found, tcbs, stack, remaining, created, ticks>>

\* Mutant: the loop stops one iteration early.
BodyCompareShort ==
    /\ pc = "body"
    /\ eax' = IF remaining[esp.stk] > 1 THEN 1 ELSE 0
    /\ pc' = "body_test"
    /\ UNCHANGED <<status, scheduler, esp, save, found, tcbs, stack, remaining, created, ticks>>

\* Compare i with the loop bound; the result stays in the flags.
BodyCompare ==
    /\ pc = "body"
    /\ eax' = IF remaining[esp.stk] > 0 THEN 1 ELSE 0
    /\ pc' = "body_test"
    /\ UNCHANGED <<status, scheduler, esp, save, found, tcbs, stack, remaining, created, ticks>>

\* Mutant: i is not incremented.
BodyBranchNoIncrement ==
    /\ pc = "body_test"
    /\ pc' = IF eax = 1 THEN "body" ELSE "exit_free"
    /\ UNCHANGED <<status, scheduler, esp, eax, save, found, tcbs, stack, remaining, created, ticks>>

\* Branch on the flags: one more iteration (printf and i++), or leave the
\* loop.  Flags lost in an upcall may decide either way.
BodyBranch ==
    /\ pc = "body_test"
    /\ \/ /\ eax \in {1, Garbage}
          /\ remaining' = [remaining EXCEPT ![esp.stk] = @ - 1]
          /\ pc' = "body"
       \/ /\ eax \in {0, Garbage}
          /\ pc' = "exit_free"
          /\ UNCHANGED remaining
    /\ UNCHANGED <<status, scheduler, esp, eax, save, found, tcbs, stack, created, ticks>>

\* The load of current_thread for current_thread->state = FREE.
ThreadExitFree ==
    /\ pc = "exit_free"
    /\ eax' = current_thread
    /\ pc' = "exit_store"
    /\ UNCHANGED <<status, scheduler, esp, save, found, tcbs, stack, remaining, created, ticks>>

\* The store of FREE through eax.
ThreadExitStore ==
    /\ pc = "exit_store"
    /\ IF eax \in Threads
       THEN /\ state' = [state EXCEPT ![eax] = FREE]
            /\ pc' = "exit_call"
            /\ UNCHANGED <<status, scheduler, esp, eax, save, found, current_thread,
                           next_thread, sp, stack, remaining, created, ticks>>
       ELSE Stop("wild")

ThreadExitCall ==
    /\ pc = "exit_call"
    /\ Push(Frame("exit_ret"))
    /\ pc' = "sc_save"
    /\ UNCHANGED <<status, scheduler, eax, save, found, tcbs, remaining, created, ticks>>

\* "thread_exit: scheduler returned unexpectedly", then exit().
ThreadExitReturned ==
    /\ pc = "exit_ret"
    /\ Stop("exit_returned")

-----------------------------------------------------------------------------
(***************************************************************************)
(* thread_schedule.                                                        *)
(***************************************************************************)

SchedSave ==
    /\ pc = "sc_save"
    /\ save' = current_thread
    /\ found' = NULL
    /\ pc' = "sc_scan"
    /\ UNCHANGED <<status, scheduler, esp, eax, tcbs, stack, remaining, created, ticks>>

\* The threads the scan accepts: RUNNABLE and not the one that called.
Candidates == {t \in Threads : state[t] = RUNNABLE /\ t # save}

\* The loop from slot 0 that stops at the first candidate.
SchedScan ==
    /\ pc = "sc_scan"
    /\ \/ /\ Candidates = {}
          /\ pc' = "sc_none"
          /\ UNCHANGED found
       \/ \E t \in Threads :
            /\ IsFirst(t, Candidates)
            /\ found' = t
            /\ pc' = "sc_next"
    /\ UNCHANGED <<status, scheduler, esp, eax, save, tcbs, stack, remaining, created, ticks>>

SchedNext ==
    /\ pc = "sc_next"
    /\ next_thread' = found
    /\ pc' = "sc_run"
    /\ UNCHANGED <<status, scheduler, esp, eax, save, found, current_thread, state, sp,
                   stack, remaining, created, ticks>>

\* next_thread->state = RUNNING.
SchedRun ==
    /\ pc = "sc_run"
    /\ state' = [state EXCEPT ![next_thread] = RUNNING]
    /\ pc' = "sc_self"
    /\ UNCHANGED <<status, scheduler, esp, eax, save, found, current_thread, next_thread, sp,
                   stack, remaining, created, ticks>>

\* Mutant: the thread switched away from stays RUNNING.
SchedSelfStaysRunning ==
    /\ pc = "sc_self"
    /\ pc' = "sc_call"
    /\ UNCHANGED <<status, scheduler, esp, eax, save, found, tcbs, stack, remaining, created, ticks>>

\* if (current_save != 0 && current_save->state == RUNNING) ... = RUNNABLE.
SchedSelf ==
    /\ pc = "sc_self"
    /\ state' = [t \in Threads |-> IF t = save /\ state[t] = RUNNING THEN RUNNABLE ELSE state[t]]
    /\ pc' = "sc_call"
    /\ UNCHANGED <<status, scheduler, esp, eax, save, found, current_thread, next_thread, sp,
                   stack, remaining, created, ticks>>

\* call thread_switch and its four register pushes.
SchedCallSwitch ==
    /\ pc = "sc_call"
    /\ Push(Frame("sc_end"))
    /\ pc' = "sw_cur"
    /\ UNCHANGED <<status, scheduler, eax, save, found, tcbs, remaining, created, ticks>>

\* No candidate: return to the caller, or exit() if it has no thread to be.
SchedNone ==
    /\ pc = "sc_none"
    /\ IF save = NULL \/ (save # NULL /\ state[save] = FREE)
       THEN Stop("no_runnable")
       ELSE /\ pc' = "sc_end"
            /\ UNCHANGED <<status, scheduler, esp, eax, save, found, tcbs, stack,
                           remaining, created, ticks>>

-----------------------------------------------------------------------------
(***************************************************************************)
(* thread_switch.                                                          *)
(***************************************************************************)

\* movl current_thread, %eax  and, below,  movl next_thread, %eax
SwitchLoad ==
    /\ \/ pc = "sw_cur"  /\ eax' = current_thread /\ pc' = "sw_store"
       \/ pc = "sw_next" /\ eax' = next_thread    /\ pc' = "sw_setcur"
    /\ UNCHANGED <<status, scheduler, esp, save, found, tcbs, stack, remaining, created, ticks>>

\* Mutant: esp is saved in the slot of the thread being switched to.
SwitchStoreNext ==
    /\ pc = "sw_store"
    /\ sp' = [sp EXCEPT ![next_thread] = esp]
    /\ pc' = "sw_next"
    /\ UNCHANGED <<status, scheduler, esp, eax, save, found, current_thread, next_thread,
                   state, stack, remaining, created, ticks>>

\* movl %esp, (%eax)
SwitchStore ==
    /\ pc = "sw_store"
    /\ IF eax \in Threads
       THEN /\ sp' = [sp EXCEPT ![eax] = esp]
            /\ pc' = "sw_next"
            /\ UNCHANGED <<status, scheduler, esp, eax, save, found, current_thread,
                           next_thread, state, stack, remaining, created, ticks>>
       ELSE Stop("wild")

\* Mutant: current_thread is left pointing at the old thread.
SwitchKeepsCurrent ==
    /\ pc = "sw_setcur"
    /\ pc' = "sw_loadsp"
    /\ UNCHANGED <<status, scheduler, esp, eax, save, found, tcbs, stack, remaining, created, ticks>>

\* movl %eax, current_thread
SwitchSetCurrent ==
    /\ pc = "sw_setcur"
    /\ IF eax \in Threads
       THEN /\ current_thread' = eax
            /\ pc' = "sw_loadsp"
            /\ UNCHANGED <<status, scheduler, esp, eax, save, found, next_thread, state, sp,
                           stack, remaining, created, ticks>>
       ELSE Stop("wild")

\* movl (%eax), %esp
SwitchLoadSp ==
    /\ pc = "sw_loadsp"
    /\ IF eax \in Threads
       THEN /\ esp' = sp[eax]
            /\ pc' = "sw_pop"
            /\ UNCHANGED <<status, scheduler, eax, save, found, tcbs, stack, remaining,
                           created, ticks>>
       ELSE Stop("wild")

-----------------------------------------------------------------------------
(***************************************************************************)
(* The timer case of trap(): save eip below esp, resume in the scheduler.  *)
(***************************************************************************)

\* Mutant: the interrupted eip is saved on the process's first stack.
UpcallOnUserStack ==
    /\ pc \in TickPoints
    /\ scheduler
    /\ ticks < MaxTicks
    /\ ticks' = ticks + 1
    /\ stack' = [stack EXCEPT ![UserStack] = [@ EXCEPT ![1] = Frame(pc)]]
    /\ esp' = [stk |-> UserStack, top |-> 1]
    /\ pc' = "sc_save"
    /\ UNCHANGED <<status, scheduler, eax, save, found, tcbs, remaining, created>>

\* copyout of the interrupted eip below the user's esp, then tf->eip is the
\* registered thread_schedule.
Upcall ==
    /\ pc \in TickPoints
    /\ scheduler
    /\ ticks < MaxTicks
    /\ ticks' = ticks + 1
    /\ Push(Frame(pc))
    /\ pc' = "sc_save"
    /\ UNCHANGED <<status, scheduler, eax, save, found, tcbs, remaining, created>>

Init ==
    /\ status = "running"
    /\ scheduler = FALSE
    /\ pc = "init"
    /\ esp = [stk |-> UserStack, top |-> 0]
    /\ eax = Garbage
    /\ save = NULL
    /\ found = NULL
    /\ current_thread = NULL
    /\ next_thread = NULL
    /\ state = [t \in Threads |-> FREE]
    /\ sp = [t \in Threads |-> [stk |-> t, top |-> 0]]
    /\ stack = [s \in Stacks |-> [d \in 1 .. StackDepth |-> JunkCell]]
    /\ remaining = [s \in Stacks |-> 0]
    /\ created = 0
    /\ ticks = 0

\* The instructions of the process itself.
Run ==
    \/ UthreadInit \/ ThreadInitCurrent \/ ThreadInitState \/ ThreadInitStore
    \/ ThreadCreate \/ ThreadCreateStore \/ MainCreated \/ MainCallSchedule \/ MainReturn
    \/ BodyCompare \/ BodyBranch
    \/ ThreadExitFree \/ ThreadExitStore \/ ThreadExitCall \/ ThreadExitReturned
    \/ SchedSave \/ SchedScan \/ SchedNext \/ SchedRun \/ SchedSelf \/ SchedCallSwitch \/ SchedNone
    \/ SwitchLoad \/ SwitchStore \/ SwitchSetCurrent \/ SwitchLoadSp
    \/ Return \/ StackOverflow

\* A process that has ended takes no more steps.
Ended == status # "running" /\ UNCHANGED vars

Next == (status = "running" /\ (Run \/ Upcall)) \/ Ended

\* The kernel keeps scheduling a process that can run.
Spec == Init /\ [][Next]_vars /\ WF_vars(status = "running" /\ Run)

-----------------------------------------------------------------------------
(***************************************************************************)
(* Properties.                                                             *)
(***************************************************************************)

Statuses == {"running", "killed", "wild", "main_returned", "exit_returned", "no_runnable"}

\* The shape of every variable of uthread1.c and of the registers.
ShapeOK ==
    /\ status \in Statuses
    /\ scheduler \in BOOLEAN
    /\ pc \in Labels
    /\ esp \in StackPtr
    /\ eax \in Threads \cup {NULL, Garbage, 0, 1}
    /\ save \in ThreadPtr /\ found \in ThreadPtr
    /\ current_thread \in ThreadPtr /\ next_thread \in ThreadPtr
    /\ state \in [Threads -> {FREE, RUNNING, RUNNABLE}]
    /\ sp \in [Threads -> StackPtr]
    /\ stack \in [Stacks -> [1 .. StackDepth -> Cells]]
    /\ remaining \in [Stacks -> Int]
    /\ created \in 0 .. ToCreate
    /\ ticks \in 0 .. MaxTicks

\* Every variable keeps its type; the loop of mythread, where an upcall does
\* not lose its flags, runs no more than its number of iterations.
TypeOK == ShapeOK /\ remaining \in [Stacks -> 0 .. Work]

UserLabels == (MainLabels \cup BodyLabels) \ {"init", "init_cur", "init_state", "init_store"}

\* Whenever thread code runs, it runs on the stack of current_thread and no
\* other slot of all_thread is marked RUNNING.
CurrentOwnsCpu ==
    (status = "running" /\ pc \in UserLabels) =>
        /\ current_thread \in Threads
        /\ esp.stk = HomeStack(current_thread)
        /\ \A t \in Threads : state[t] = RUNNING => t = current_thread

\* The saved stack pointer of every waiting thread points into the thread's
\* own stack, where trap() or the call of thread_schedule left the address at
\* which that thread goes on.
SavedOnOwnStack ==
    (status = "running" /\ pc \in UserLabels) =>
        \A t \in Threads \ {current_thread} : state[t] = RUNNABLE => sp[t].stk = HomeStack(t)

\* Wherever ticks arrive, main's code runs on the process's stack only and
\* mythread's code on a stack made by thread_create only.
CodeOnItsStack ==
    /\ pc \in MainLabels => esp.stk = UserStack
    /\ pc \in BodyLabels => esp.stk # UserStack

\* A saved context that thread_switch can resume: on the thread's own stack,
\* either the frame thread_create built or thread_schedule's own frame lying
\* on the return address of a label of that thread.
Resumable(t) ==
    LET p == sp[t] IN
    /\ p.stk = HomeStack(t)
    /\ \/ p.top = 1 /\ stack[p.stk][1].ret = "body"
       \/ /\ p.top = 2
          /\ stack[p.stk][2].ret = "sc_end"
          /\ stack[p.stk][1].ret \in (IF t = 0 THEN MainLabels ELSE BodyLabels)

\* thread_switch only ever finds a usable context: while thread code runs,
\* every RUNNABLE thread other than the current one can be resumed.
WaitersResumable ==
    (status = "running" /\ pc \in UserLabels) =>
        \A t \in Threads \ {current_thread} : state[t] = RUNNABLE => Resumable(t)

\* No return ever goes to a wild address and no store through a lost
\* register happens: the process never leaves defined behaviour.
NeverWild == status # "wild"

\* Undefined behaviour only comes from a stack that is full.
WildOnlyByOverflow == status = "wild" => esp.top = StackDepth

\* thread_exit frees the slot of a thread that has finished its loop and
\* never that of another one.
NoThreadLost ==
    \A t \in Threads \ {0} : state[t] = FREE => remaining[t] = 0

\* thread_schedule does not return to a thread that called thread_exit
\* ("thread_exit: scheduler returned unexpectedly").
ThreadExitIsFinal == pc # "exit_ret"

\* The cells of a suspended thread's stack up to its saved sp, and its saved
\* sp, only change in a step that runs on that stack.
Untouched(t) ==
    (state[t] = RUNNABLE /\ esp.stk # HomeStack(t) /\ esp'.stk # HomeStack(t)) =>
        /\ sp'[t] = sp[t]
        /\ \A d \in 1 .. sp[t].top : stack'[HomeStack(t)][d] = stack[HomeStack(t)][d]
SuspendedUntouched == [][\A t \in Threads : Untouched(t)]_vars

\* The process is never stuck: with finitely many ticks it ends.
Terminates == <>(status # "running")
=============================================================================
