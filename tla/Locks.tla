------------------------------- MODULE Locks -------------------------------
(***************************************************************************)
(* The two ways a task keeps others out, at the grain of machine words:    *)
(* critical sections (vTaskEnterCritical, vTaskExitCritical, with the      *)
(* nesting count in the TCB) and vTaskSuspendAll / xTaskResumeAll.         *)
(*                                                                         *)
(* vTaskSuspendAll increments uxSchedulerSuspended without a critical      *)
(* section.  Here that is a read and a write, and interrupts and context   *)
(* switches may come between the two.  Which task is ready is not modelled *)
(* (see Tasks): a switch picks any task of a set its caller gives.         *)
(***************************************************************************)
EXTENDS Naturals

CONSTANTS
  Tasks,
  MaxNesting,   \* bound on nested critical sections
  MaxHeld       \* bound on nested vTaskSuspendAll calls

ASSUME LocksAssumption ==
  /\ Tasks # {}
  /\ MaxNesting \in Nat \ {0} /\ MaxHeld \in Nat \ {0}

VARIABLES
  xSchedulerRunning,
  pxCurrentTCB,
  uxSchedulerSuspended,
  xMissedYield,
  interruptsDisabled,   \* port: the interrupt mask of the processor
  yieldPending,         \* port: a yield was asked for and not yet taken
  uxCriticalNesting,    \* in the TCB of each task
  pc,                   \* where each task is inside a call
  loaded,               \* the register of ++uxSchedulerSuspended
  held                  \* ghost: vTaskSuspendAll calls not yet undone

taskVars == <<uxCriticalNesting, pc, loaded, held>>
lockVars == <<xSchedulerRunning, pxCurrentTCB, uxSchedulerSuspended,
              xMissedYield, interruptsDisabled, yieldPending, taskVars>>

Labels == {"run", "write", "resuming"}

-----------------------------------------------------------------------------
\* Task t executes its own code at label l.  A yield waits for interrupts to
\* be enabled; until then the task runs on.
At(t, l) ==
  /\ xSchedulerRunning /\ t = pxCurrentTCB /\ pc[t] = l
  /\ ~ yieldPending \/ interruptsDisabled

InterruptsOn == xSchedulerRunning /\ ~ interruptsDisabled

Goto(t, l) == pc' = [pc EXCEPT ![t] = l]

\* The effect of vTaskEnterCritical and of vTaskExitCritical for task t.
Mask(t) ==
  /\ interruptsDisabled' = TRUE
  /\ uxCriticalNesting' = [uxCriticalNesting EXCEPT ![t] = @ + 1]

\* Mutant: interrupts are enabled by an inner vTaskExitCritical too.
UnmaskAlways(t) ==
  /\ uxCriticalNesting' = [uxCriticalNesting EXCEPT ![t] = @ - 1]
  /\ interruptsDisabled' = FALSE

Unmask(t) ==
  /\ uxCriticalNesting' = [uxCriticalNesting EXCEPT ![t] = @ - 1]
  /\ interruptsDisabled' = (uxCriticalNesting[t] > 1)

-----------------------------------------------------------------------------
\* main() before the scheduler runs: vTaskEnterCritical masks interrupts but
\* does not count, so the vTaskExitCritical after it does nothing.
EnterCriticalBeforeStart ==
  /\ ~ xSchedulerRunning
  /\ interruptsDisabled' = TRUE
  /\ UNCHANGED <<xSchedulerRunning, pxCurrentTCB, uxSchedulerSuspended,
                 xMissedYield, yieldPending, taskVars>>

\* vTaskStartScheduler; the context of the first task has interrupts enabled.
StartScheduler ==
  /\ ~ xSchedulerRunning
  /\ xSchedulerRunning' = TRUE
  /\ interruptsDisabled' = FALSE
  /\ UNCHANGED <<pxCurrentTCB, uxSchedulerSuspended, xMissedYield,
                 yieldPending, taskVars>>

vTaskEnterCritical(t) ==
  /\ At(t, "run") /\ uxCriticalNesting[t] < MaxNesting
  /\ Mask(t)
  /\ UNCHANGED <<xSchedulerRunning, pxCurrentTCB, uxSchedulerSuspended,
                 xMissedYield, yieldPending, pc, loaded, held>>

vTaskExitCritical(t) ==
  /\ At(t, "run") /\ uxCriticalNesting[t] > 0
  /\ Unmask(t)
  /\ UNCHANGED <<xSchedulerRunning, pxCurrentTCB, uxSchedulerSuspended,
                 xMissedYield, yieldPending, pc, loaded, held>>

\* vTaskSuspendAll: ++uxSchedulerSuspended, its read ...
SuspendAllRead(t) ==
  /\ At(t, "run") /\ held[t] < MaxHeld
  /\ loaded' = [loaded EXCEPT ![t] = uxSchedulerSuspended]
  /\ Goto(t, "write")
  /\ UNCHANGED <<xSchedulerRunning, pxCurrentTCB, uxSchedulerSuspended,
                 xMissedYield, interruptsDisabled, yieldPending,
                 uxCriticalNesting, held>>

\* ... and its write.
SuspendAllWrite(t) ==
  /\ At(t, "write")
  /\ uxSchedulerSuspended' = loaded[t] + 1
  /\ held' = [held EXCEPT ![t] = @ + 1]
  /\ loaded' = [loaded EXCEPT ![t] = 0]
  /\ Goto(t, "run")
  /\ UNCHANGED <<xSchedulerRunning, pxCurrentTCB, xMissedYield,
                 interruptsDisabled, yieldPending, uxCriticalNesting>>

\* xTaskResumeAll: portENTER_CRITICAL and the decrement ...
ResumeAllBegin(t) ==
  /\ At(t, "run") /\ held[t] > 0
  /\ Mask(t)
  /\ uxSchedulerSuspended' = uxSchedulerSuspended - 1
  /\ held' = [held EXCEPT ![t] = @ - 1]
  /\ Goto(t, "resuming")
  /\ UNCHANGED <<xSchedulerRunning, pxCurrentTCB, xMissedYield, yieldPending,
                 loaded>>

\* ... then, by the outermost call, the yield that was missed or that what it
\* readied asks for (`required'); and portEXIT_CRITICAL.
ResumeAllEnd(t, required) ==
  /\ At(t, "resuming")
  /\ IF uxSchedulerSuspended = 0
     THEN /\ yieldPending' = (yieldPending \/ xMissedYield \/ required)
          /\ xMissedYield' = FALSE
     ELSE UNCHANGED <<yieldPending, xMissedYield>>
  /\ Unmask(t)
  /\ Goto(t, "run")
  /\ UNCHANGED <<xSchedulerRunning, pxCurrentTCB, uxSchedulerSuspended, loaded,
                 held>>

\* portYIELD by the current task, or a switch asked for by an interrupt.
Yield ==
  /\ yieldPending' = TRUE
  /\ UNCHANGED <<xSchedulerRunning, pxCurrentTCB, uxSchedulerSuspended,
                 xMissedYield, interruptsDisabled, taskVars>>

portYIELD(t) == At(t, "run") /\ Yield
InterruptYield == InterruptsOn /\ Yield

\* Mutant: switches although the scheduler is suspended.
SwitchAlways(S) ==
  /\ InterruptsOn /\ yieldPending
  /\ yieldPending' = FALSE
  /\ pxCurrentTCB' \in S
  /\ UNCHANGED <<xSchedulerRunning, uxSchedulerSuspended, xMissedYield,
                 interruptsDisabled, taskVars>>

\* vTaskSwitchContext, over the tasks S that are ready.
vTaskSwitchContext(S) ==
  /\ InterruptsOn /\ yieldPending
  /\ yieldPending' = FALSE
  /\ IF uxSchedulerSuspended # 0
     THEN xMissedYield' = TRUE /\ UNCHANGED pxCurrentTCB
     ELSE pxCurrentTCB' \in S /\ UNCHANGED xMissedYield
  /\ UNCHANGED <<xSchedulerRunning, uxSchedulerSuspended, interruptsDisabled,
                 taskVars>>

-----------------------------------------------------------------------------
LocksInit ==
  /\ xSchedulerRunning = FALSE /\ pxCurrentTCB \in Tasks
  /\ uxSchedulerSuspended = 0 /\ xMissedYield = FALSE
  /\ interruptsDisabled = FALSE /\ yieldPending = FALSE
  /\ uxCriticalNesting = [t \in Tasks |-> 0]
  /\ pc = [t \in Tasks |-> "run"]
  /\ loaded = [t \in Tasks |-> 0]
  /\ held = [t \in Tasks |-> 0]

TaskStep(t) ==
  \/ vTaskEnterCritical(t) \/ vTaskExitCritical(t)
  \/ SuspendAllRead(t) \/ SuspendAllWrite(t)
  \/ ResumeAllBegin(t)
  \/ \E required \in BOOLEAN : ResumeAllEnd(t, required)
  \/ portYIELD(t)

LocksNext ==
  \/ EnterCriticalBeforeStart
  \/ StartScheduler
  \/ \E t \in Tasks : TaskStep(t)
  \/ InterruptYield
  \/ vTaskSwitchContext(Tasks)

LocksSpec == LocksInit /\ [][LocksNext]_lockVars

-----------------------------------------------------------------------------
LocksTypeOK ==
  /\ xSchedulerRunning \in BOOLEAN /\ pxCurrentTCB \in Tasks
  /\ uxSchedulerSuspended \in Nat /\ xMissedYield \in BOOLEAN
  /\ interruptsDisabled \in BOOLEAN /\ yieldPending \in BOOLEAN
  /\ uxCriticalNesting \in [Tasks -> Nat]
  /\ pc \in [Tasks -> Labels]
  /\ loaded \in [Tasks -> Nat]
  /\ held \in [Tasks -> Nat]

\* No increment of uxSchedulerSuspended is lost although it is not atomic:
\* the counter is what the current task holds, and no other task holds
\* anything (comment of vTaskSuspendAll: "A critical section is not required").
SuspensionExact ==
  \A t \in Tasks :
    held[t] = IF t = pxCurrentTCB THEN uxSchedulerSuspended ELSE 0

\* Interrupts are masked exactly while the current task is inside a critical
\* section, and a task inside one keeps the processor.
MaskExact ==
  xSchedulerRunning =>
    /\ interruptsDisabled <=> uxCriticalNesting[pxCurrentTCB] > 0
    /\ \A t \in Tasks \ {pxCurrentTCB} : uxCriticalNesting[t] = 0

Hold == INSTANCE SchedulerHold
          WITH owner <- pxCurrentTCB, depth <- uxSchedulerSuspended

\* The read and the write of ++uxSchedulerSuspended behave as one step of an
\* atomic counter whose holder is never switched out.
ImplementsSchedulerHold == Hold!Spec
=============================================================================
