--------------------------- MODULE TimeOut_proofs ---------------------------
(***************************************************************************)
(* Proofs about Locks, for any number of tasks and any depth of nesting,   *)
(* and about TimeOut, for any width of the tick count and of the overflow  *)
(* counter, any waits and increments and any number of tasks.              *)
(*                                                                         *)
(* Neither SuspensionExact nor MaskExact is inductive: that no increment   *)
(* is lost needs what a register may hold while its task is switched out,  *)
(* and that needs a switch to happen only with the counter at zero.        *)
(* The program of TimeOut uses the locks as Locks allows, so what is       *)
(* proved of Locks holds there.  The time a waiter captured and the ghost  *)
(* count of ticks since then agree up to whole periods of the tick count;  *)
(* WaitOK says so without mentioning the number of periods.                *)
(***************************************************************************)
EXTENDS TimeOut, TLAPS

-----------------------------------------------------------------------------
(* Locks                                                                   *)

\* Critical sections: only the current task is inside any, interrupts are
\* masked exactly if it is, and before the start nothing is counted.
NestingOK ==
  /\ \A t \in Tasks \ {pxCurrentTCB} : uxCriticalNesting[t] = 0
  /\ xSchedulerRunning =>
       (interruptsDisabled <=> uxCriticalNesting[pxCurrentTCB] > 0)
  /\ ~ xSchedulerRunning =>
       \A t \in Tasks : uxCriticalNesting[t] = 0 /\ pc[t] = "run"

\* A task switched out between its read and its write has read zero.
LoadedOK ==
  \A t \in Tasks :
    pc[t] = "write" =>
      loaded[t] = IF t = pxCurrentTCB THEN uxSchedulerSuspended ELSE 0

ResumingOK ==
  \A t \in Tasks : pc[t] = "resuming" => uxCriticalNesting[t] > 0

\* The inductive invariant.
LocksInv ==
  /\ LocksTypeOK
  /\ NestingOK
  /\ LoadedOK
  /\ ResumingOK
  /\ SuspensionExact

-----------------------------------------------------------------------------
LEMMA LocksInitInv == LocksInit => LocksInv
<1> SUFFICES ASSUME LocksInit PROVE LocksInv
  OBVIOUS
<1>1. LocksTypeOK
  BY DEF LocksInit, LocksTypeOK, Labels
<1>2. NestingOK
  BY DEF LocksInit, NestingOK
<1>3. LoadedOK /\ ResumingOK /\ SuspensionExact
  BY DEF LocksInit, LoadedOK, ResumingOK, SuspensionExact
<1>4. QED
  BY <1>1, <1>2, <1>3 DEF LocksInv

\* Leaving a critical section, the outermost or an inner one.
LEMMA UnmaskInv ==
  ASSUME LocksTypeOK, NestingOK, NEW t \in Tasks, t = pxCurrentTCB,
         xSchedulerRunning, uxCriticalNesting[t] > 0, Unmask(t),
         UNCHANGED <<xSchedulerRunning, pxCurrentTCB, uxSchedulerSuspended,
                     loaded, held>>,
         pc' \in [Tasks -> Labels],
         yieldPending' \in BOOLEAN, xMissedYield' \in BOOLEAN
  PROVE  LocksTypeOK' /\ NestingOK'
<1>1. /\ uxCriticalNesting' \in [Tasks -> Nat]
      /\ \A s \in Tasks \ {t} : uxCriticalNesting'[s] = uxCriticalNesting[s]
      /\ uxCriticalNesting'[t] = uxCriticalNesting[t] - 1
  BY DEF Unmask, LocksTypeOK
<1>2. interruptsDisabled' = (uxCriticalNesting[t] > 1)
  BY DEF Unmask
<1>3. (uxCriticalNesting[t] > 1) = (uxCriticalNesting'[t] > 0)
  BY <1>1 DEF LocksTypeOK
<1>4. interruptsDisabled' \in BOOLEAN
  BY <1>2
<1>5. LocksTypeOK'
  BY <1>1, <1>4 DEF LocksTypeOK
<1>6. interruptsDisabled' <=> uxCriticalNesting'[t] > 0
  BY <1>2, <1>3
<1>7. \A s \in Tasks \ {t} : uxCriticalNesting'[s] = 0
  BY <1>1 DEF NestingOK
<1>8. QED
  BY <1>5, <1>6, <1>7 DEF NestingOK

\* What task t does keeps the invariant; it is the current task.
LEMMA TaskStepInv ==
  ASSUME LocksInv, NEW t \in Tasks, TaskStep(t)
  PROVE  LocksInv'
<1> USE DEF LocksInv, At, Goto
<1>1. CASE vTaskEnterCritical(t)
  BY <1>1 DEF vTaskEnterCritical, Mask, LocksTypeOK, NestingOK, LoadedOK,
              ResumingOK, SuspensionExact
<1>2. CASE vTaskExitCritical(t)
  <2>1. /\ pc[t] = "run" /\ t = pxCurrentTCB /\ xSchedulerRunning
        /\ uxCriticalNesting[t] > 0 /\ Unmask(t)
        /\ UNCHANGED <<xSchedulerRunning, pxCurrentTCB, uxSchedulerSuspended,
                       xMissedYield, yieldPending, pc, loaded, held>>
    BY <1>2 DEF vTaskExitCritical
  <2>2. LocksTypeOK' /\ NestingOK'
    <3>1. pc' \in [Tasks -> Labels] /\ yieldPending' \in BOOLEAN
          /\ xMissedYield' \in BOOLEAN
      BY <2>1 DEF LocksTypeOK
    <3>2. QED
      BY <2>1, <3>1, UnmaskInv
  <2>3. LoadedOK' /\ ResumingOK' /\ SuspensionExact'
    BY <2>1 DEF Unmask, LocksTypeOK, LoadedOK, ResumingOK, SuspensionExact
  <2>4. QED
    BY <2>2, <2>3
<1>3. CASE SuspendAllRead(t)
  BY <1>3 DEF SuspendAllRead, LocksTypeOK, NestingOK, LoadedOK, ResumingOK,
              SuspensionExact, Labels
<1>4. CASE SuspendAllWrite(t)
  <2>1. loaded[t] = uxSchedulerSuspended
    BY <1>4 DEF SuspendAllWrite, LoadedOK
  <2>2. QED
    BY <1>4, <2>1 DEF SuspendAllWrite, LocksTypeOK, NestingOK, LoadedOK,
                      ResumingOK, SuspensionExact, Labels
<1>5. CASE ResumeAllBegin(t)
  <2>1. uxSchedulerSuspended \in Nat \ {0}
    BY <1>5 DEF ResumeAllBegin, SuspensionExact, LocksTypeOK
  <2>2. QED
    BY <1>5, <2>1 DEF ResumeAllBegin, Mask, LocksTypeOK, NestingOK, LoadedOK,
                      ResumingOK, SuspensionExact, Labels
<1>6. CASE \E required \in BOOLEAN : ResumeAllEnd(t, required)
  <2>1. PICK required \in BOOLEAN : ResumeAllEnd(t, required)
    BY <1>6
  <2>2. yieldPending' \in BOOLEAN /\ xMissedYield' \in BOOLEAN
    BY <2>1 DEF ResumeAllEnd, LocksTypeOK
  <2>3. /\ pc[t] = "resuming" /\ t = pxCurrentTCB /\ xSchedulerRunning
        /\ Unmask(t) /\ pc' = [pc EXCEPT ![t] = "run"]
        /\ UNCHANGED <<xSchedulerRunning, pxCurrentTCB, uxSchedulerSuspended,
                       loaded, held>>
        /\ uxCriticalNesting[t] > 0
    BY <2>1 DEF ResumeAllEnd, ResumingOK
  <2>4. LocksTypeOK' /\ NestingOK'
    BY <2>2, <2>3, UnmaskInv DEF LocksTypeOK, Labels
  <2>5. LoadedOK' /\ ResumingOK' /\ SuspensionExact'
    BY <2>3 DEF Unmask, LocksTypeOK, LoadedOK, ResumingOK, SuspensionExact
  <2>6. QED
    BY <2>4, <2>5
<1>7. CASE portYIELD(t)
  BY <1>7 DEF portYIELD, Yield, taskVars, LocksTypeOK, NestingOK, LoadedOK,
              ResumingOK, SuspensionExact
<1>8. QED
  BY <1>1, <1>2, <1>3, <1>4, <1>5, <1>6, <1>7 DEF TaskStep

\* A switch, to any task that its caller takes for ready.
LEMMA SwitchInv ==
  ASSUME LocksInv, NEW S \in SUBSET Tasks, vTaskSwitchContext(S)
  PROVE  LocksInv'
<1>1. CASE uxSchedulerSuspended # 0
  BY <1>1 DEF vTaskSwitchContext, taskVars, LocksInv, LocksTypeOK, NestingOK,
              LoadedOK, ResumingOK, SuspensionExact
<1>2. CASE uxSchedulerSuspended = 0
  <2>1. /\ pxCurrentTCB' \in Tasks
        /\ UNCHANGED <<xSchedulerRunning, uxSchedulerSuspended, xMissedYield,
                       interruptsDisabled, taskVars>>
        /\ xSchedulerRunning /\ ~ interruptsDisabled /\ yieldPending' = FALSE
    BY <1>2 DEF vTaskSwitchContext, InterruptsOn
  <2>2. /\ \A t \in Tasks : uxCriticalNesting[t] = 0 /\ held[t] = 0
        /\ \A t \in Tasks : pc[t] = "write" => loaded[t] = 0
    BY <1>2, <2>1 DEF LocksInv, LocksTypeOK, NestingOK, SuspensionExact,
                      LoadedOK
  <2>3. QED
    BY <1>2, <2>1, <2>2 DEF taskVars, LocksInv, LocksTypeOK, NestingOK,
                            LoadedOK, ResumingOK, SuspensionExact
<1>3. QED
  BY <1>1, <1>2

\* Every step keeps the invariant.
LEMMA LocksStepInv == LocksInv /\ [LocksNext]_lockVars => LocksInv'
<1> SUFFICES ASSUME LocksInv, [LocksNext]_lockVars PROVE LocksInv'
  OBVIOUS
<1>1. CASE EnterCriticalBeforeStart
  <2>1. LocksTypeOK'
    BY <1>1 DEF EnterCriticalBeforeStart, taskVars, LocksInv, LocksTypeOK
  <2>2. NestingOK'
    BY <1>1 DEF EnterCriticalBeforeStart, taskVars, LocksInv, NestingOK
  <2>3. LoadedOK' /\ ResumingOK' /\ SuspensionExact'
    BY <1>1 DEF EnterCriticalBeforeStart, taskVars, LocksInv, LoadedOK,
                ResumingOK, SuspensionExact
  <2>4. QED
    BY <2>1, <2>2, <2>3 DEF LocksInv
<1>2. CASE StartScheduler
  <2>1. LocksTypeOK'
    BY <1>2 DEF StartScheduler, taskVars, LocksInv, LocksTypeOK
  <2>2. /\ interruptsDisabled' = FALSE /\ xSchedulerRunning' = TRUE
        /\ \A t \in Tasks : uxCriticalNesting'[t] = 0
        /\ pxCurrentTCB' \in Tasks
    BY <1>2 DEF StartScheduler, taskVars, LocksInv, LocksTypeOK, NestingOK
  <2>3. ~ (uxCriticalNesting'[pxCurrentTCB'] > 0)
    BY <2>2
  <2>4. NestingOK'
    BY <2>2, <2>3 DEF NestingOK
  <2>5. LoadedOK' /\ ResumingOK' /\ SuspensionExact'
    BY <1>2 DEF StartScheduler, taskVars, LocksInv, LoadedOK, ResumingOK,
                SuspensionExact
  <2>6. QED
    BY <2>1, <2>4, <2>5 DEF LocksInv
<1>3. CASE \E t \in Tasks : TaskStep(t)
  BY <1>3, TaskStepInv
<1>4. CASE InterruptYield
  BY <1>4 DEF InterruptYield, Yield, taskVars, LocksInv, LocksTypeOK,
              NestingOK, LoadedOK, ResumingOK, SuspensionExact
<1>5. CASE vTaskSwitchContext(Tasks)
  BY <1>5, SwitchInv
<1>6. CASE UNCHANGED lockVars
  BY <1>6 DEF lockVars, taskVars, LocksInv, LocksTypeOK, NestingOK, LoadedOK,
              ResumingOK, SuspensionExact
<1>7. QED
  BY <1>1, <1>2, <1>3, <1>4, <1>5, <1>6 DEF LocksNext

\* Both ways of keeping others out work for any number of tasks: no increment
\* of uxSchedulerSuspended is lost, and interrupts are masked exactly inside
\* a critical section.
THEOREM LocksExact == LocksSpec => [](LocksInv /\ SuspensionExact /\ MaskExact)
<1>1. LocksInv => SuspensionExact /\ MaskExact
  BY DEF LocksInv, NestingOK, MaskExact
<1>2. QED
  BY <1>1, LocksInitInv, LocksStepInv, PTL DEF LocksSpec

-----------------------------------------------------------------------------
\* Every step of the counter's implementation is a step of the atomic one.
LEMMA StepHolds ==
  LocksInv /\ [LocksNext]_lockVars => [Hold!Next]_(Hold!holdVars)
<1> SUFFICES ASSUME LocksInv, [LocksNext]_lockVars
             PROVE  [Hold!Next]_(Hold!holdVars)
  OBVIOUS
<1> USE DEF Hold!Next, Hold!holdVars, Hold!Hold, Hold!Release, Hold!Switch
<1>1. ASSUME NEW t \in Tasks, SuspendAllWrite(t)
      PROVE  Hold!Hold
  BY <1>1 DEF SuspendAllWrite, At, LocksInv, LoadedOK
<1>2. ASSUME NEW t \in Tasks, ResumeAllBegin(t)
      PROVE  Hold!Release
  BY <1>2 DEF ResumeAllBegin, At, LocksInv, SuspensionExact
<1>3. ASSUME vTaskSwitchContext(Tasks)
      PROVE  [Hold!Next]_(Hold!holdVars)
  BY <1>3 DEF vTaskSwitchContext
<1>4. ASSUME NEW t \in Tasks, TaskStep(t)
      PROVE  [Hold!Next]_(Hold!holdVars)
  BY <1>1, <1>2, <1>4 DEF TaskStep, vTaskEnterCritical, vTaskExitCritical,
                          SuspendAllRead, ResumeAllEnd, portYIELD, Yield
<1>5. QED
  BY <1>3, <1>4 DEF LocksNext, EnterCriticalBeforeStart, StartScheduler,
                    InterruptYield, Yield, lockVars

\* The read and the write of ++uxSchedulerSuspended implement one atomic step.
THEOREM LocksHold == LocksSpec => ImplementsSchedulerHold
<1>1. LocksInit => Hold!Init
  BY DEF LocksInit, Hold!Init
<1>2. QED
  BY <1>1, LocksExact, StepHolds, PTL
     DEF LocksSpec, ImplementsSchedulerHold, Hold!Spec

-----------------------------------------------------------------------------
(* Timeouts                                                                *)

\* Every step is a step of Locks or leaves its variables alone.
LEMMA StepUsesLocks == [Next]_vars => [LocksNext]_lockVars
<1> SUFFICES ASSUME [Next]_vars PROVE [LocksNext]_lockVars
  OBVIOUS
<1>1. CASE TickISR
  BY <1>1 DEF TickISR, LocksNext
<1>2. CASE \E t \in Waiters : Waiter(t) \/ EventISR(t)
  <2>1. PICK t \in Waiters : Waiter(t) \/ EventISR(t)
    BY <1>2
  <2>2. t \in Tasks
    BY TimeOutAssumption
  <2>3. CASE EventISR(t)
    BY <2>3 DEF EventISR, LocksNext
  <2>4. CASE \E ticks \in Waits : StartWait(t, ticks)
    BY <2>2, <2>4 DEF StartWait, LocksNext, TaskStep
  <2>5. CASE LeaveCritical(t)
    BY <2>2, <2>5 DEF LeaveCritical, LocksNext, TaskStep
  <2>6. CASE CaptureOverflow(t) \/ CaptureTick(t) \/ xTaskCheckForTimeOut(t)
               \/ Place(t) \/ Served(t)
    BY <2>6 DEF CaptureOverflow, CaptureTick, xTaskCheckForTimeOut, Place,
                Served
  <2>7. QED
    BY <2>1, <2>3, <2>4, <2>5, <2>6 DEF Waiter
<1>3. CASE \E t \in Sleepers : Sleeper(t)
  BY <1>3 DEF Sleeper, StartPeriodic, StopPeriodic, vTaskDelayUntil
<1>4. CASE \E t \in Tasks : SuspendAll(t) \/ ResumeAll(t) \/ ReplayTick(t)
                              \/ YieldOnce(t) \/ LocksOnly(t)
  <2>1. PICK t \in Tasks : SuspendAll(t) \/ ResumeAll(t) \/ ReplayTick(t)
                             \/ YieldOnce(t) \/ LocksOnly(t)
    BY <1>4
  <2>2. TaskStep(t) \/ UNCHANGED lockVars
    BY <2>1 DEF SuspendAll, ResumeAll, ReplayTick, YieldOnce, LocksOnly,
                TaskStep
  <2>3. QED
    BY <2>2 DEF LocksNext
<1>5. CASE Port
  <2>1. CASE vTaskSwitchContext(ReadyTasks)
    <3>1. vTaskSwitchContext(Tasks)
      BY <2>1 DEF vTaskSwitchContext, ReadyTasks
    <3>2. QED
      BY <3>1 DEF LocksNext
  <2>2. QED
    BY <1>5, <2>1 DEF Port, LocksNext
<1>6. CASE UNCHANGED vars
  BY <1>6 DEF vars
<1>7. QED
  BY <1>1, <1>2, <1>3, <1>4, <1>5, <1>6 DEF Next

\* The blocking calls keep to the rules of the locks ...
THEOREM UsesLocks == Spec => LocksSpec
<1>1. Init => LocksInit
  BY DEF Init
<1>2. QED
  BY <1>1, StepUsesLocks, PTL DEF Spec, LocksSpec

\* ... so no increment of uxSchedulerSuspended is lost in any of them,
THEOREM SuspensionNeverLost == Spec => []SuspensionExact
BY UsesLocks, LocksExact, PTL

\* interrupts are masked exactly inside their critical sections,
THEOREM MaskedInside == Spec => []MaskExact
BY UsesLocks, LocksExact, PTL

\* and the counter is an atomic one, whose holder is never switched out.
THEOREM CounterIsAtomic == Spec => ImplementsSchedulerHold
BY UsesLocks, LocksHold, PTL

-----------------------------------------------------------------------------
(* Types *)

\* What the assumptions say of the constants.
LEMMA TimeOutFacts ==
  /\ Period \in Nat \ {0} /\ Period = portMAX_DELAY + 1
  /\ TickType = 0 .. portMAX_DELAY /\ portMAX_DELAY \in Nat \ {0}
  /\ Waits \subseteq TickType /\ Increments \subseteq TickType \ {0}
  /\ Waiters \subseteq Tasks /\ Sleepers \subseteq Tasks
BY TimeOutAssumption DEF Period, TickType

\* The state of TypeOK above the locks.
UpperTypeOK ==
  /\ xTickCount \in TickType /\ xNumOfOverflows \in 0 .. OverflowModulus - 1
  /\ uxMissedTicks \in Nat
  /\ stage \in [Tasks -> Stages]
  /\ left \in [Tasks -> 0 .. Forever]
  /\ xTimeOut \in [Waiters -> [xOverflowCount : 0 .. OverflowModulus - 1,
                               xTimeOnEntering : TickType]]
  /\ xTicksToWait \in [Waiters -> TickType]
  /\ gap \in [Waiters -> Nat] /\ due \in [Waiters -> Int]
  /\ xPreviousWakeTime \in [Sleepers -> TickType]
  /\ since \in [Sleepers -> Int]

\* The initial state has the types ...
LEMMA InitType == Init => UpperTypeOK
BY TimeOutAssumption DEF Init, UpperTypeOK, TickType, Forever, Stages

\* ... a counted tick keeps them ...
LEMMA CountTickType ==
  ASSUME UpperTypeOK, CountTick, uxMissedTicks' \in Nat,
         UNCHANGED <<stage, xTimeOut, xTicksToWait, xPreviousWakeTime>>
  PROVE  UpperTypeOK'
<1>1. /\ xTickCount' \in TickType
      /\ xNumOfOverflows' \in 0 .. OverflowModulus - 1
  BY TimeOutAssumption DEF UpperTypeOK, CountTick, TickType
<1>2. left' \in [Tasks -> 0 .. Forever]
  BY TimeOutFacts DEF UpperTypeOK, CountTick, Forever
<1>3. gap' \in [Waiters -> Nat] /\ due' \in [Waiters -> Int]
  BY DEF UpperTypeOK, CountTick
<1>4. since' \in [Sleepers -> Int]
  BY DEF UpperTypeOK, CountTick
<1>5. QED
  BY <1>1, <1>2, <1>3, <1>4 DEF UpperTypeOK

\* ... every step of a waiting call ...
LEMMA WaiterType ==
  ASSUME UpperTypeOK, NEW t \in Waiters, Waiter(t) \/ EventISR(t)
  PROVE  UpperTypeOK'
<1> USE TimeOutFacts DEF UpperTypeOK, Enter, tickVars, sleepVars, waitVars
<1>0. t \in Tasks
  OBVIOUS
<1>1. ASSUME NEW ticks \in Waits, StartWait(t, ticks)
      PROVE  UpperTypeOK'
  BY <1>0, <1>1 DEF StartWait, Stages
<1>2. CASE CaptureOverflow(t)
  BY <1>0, <1>2 DEF CaptureOverflow, Stages
<1>3. CASE CaptureTick(t)
  <2>1. xTimeOut' \in [Waiters -> [xOverflowCount : 0 .. OverflowModulus - 1,
                                   xTimeOnEntering : TickType]]
    BY <1>3 DEF CaptureTick
  <2>2. due' \in [Waiters -> Int] /\ gap' \in [Waiters -> Nat]
    BY <1>3 DEF CaptureTick
  <2>3. QED
    BY <1>0, <1>3, <2>1, <2>2 DEF CaptureTick, Stages
<1>4. CASE LeaveCritical(t)
  BY <1>0, <1>4 DEF LeaveCritical, Stages
<1>5. CASE xTaskCheckForTimeOut(t)
  <2>1. CASE Expired(xTimeOut[t], xTicksToWait[t])
    BY <1>0, <1>5, <2>1 DEF xTaskCheckForTimeOut, Stages
  <2>2. CASE ~ Expired(xTimeOut[t], xTicksToWait[t])
               /\ xTicksToWait[t] = portMAX_DELAY
    BY <1>0, <1>5, <2>2 DEF xTaskCheckForTimeOut, Stages
  <2>3. CASE ~ Expired(xTimeOut[t], xTicksToWait[t])
               /\ xTicksToWait[t] # portMAX_DELAY
    <3>1. /\ xTimeOut[t].xTimeOnEntering \in TickType
          /\ xTicksToWait[t] \in TickType
      OBVIOUS
    <3>2. /\ Elapsed(xTimeOut[t].xTimeOnEntering) \in TickType
          /\ Elapsed(xTimeOut[t].xTimeOnEntering) < xTicksToWait[t]
      BY <2>3, <3>1 DEF Elapsed, Expired
    <3>3. xTicksToWait[t] - Elapsed(xTimeOut[t].xTimeOnEntering) \in TickType
      BY <3>1, <3>2
    <3>4. /\ stage' = [stage EXCEPT ![t] = "place"]
          /\ xTicksToWait' = [xTicksToWait EXCEPT ![t] =
               xTicksToWait[t] - Elapsed(xTimeOut[t].xTimeOnEntering)]
          /\ xTimeOut' = [xTimeOut EXCEPT
                            ![t] = [xOverflowCount |-> xNumOfOverflows,
                                    xTimeOnEntering |-> xTickCount]]
          /\ gap' = [gap EXCEPT ![t] = 0]
          /\ UNCHANGED <<tickVars, due, sleepVars, left>>
      BY <1>5, <2>3 DEF xTaskCheckForTimeOut
    <3>5. xTicksToWait' \in [Waiters -> TickType]
      BY <3>3, <3>4
    <3>6. xTimeOut' \in [Waiters -> [xOverflowCount : 0 .. OverflowModulus - 1,
                                     xTimeOnEntering : TickType]]
      BY <3>4
    <3>7. stage' \in [Tasks -> Stages] /\ gap' \in [Waiters -> Nat]
      BY <1>0, <3>4 DEF Stages
    <3>8. QED
      BY <3>4, <3>5, <3>6, <3>7
  <2>4. QED
    BY <2>1, <2>2, <2>3
<1>6. CASE Place(t)
  BY <1>0, <1>6 DEF Place, Stages, Forever
<1>7. CASE Served(t)
  BY <1>0, <1>7 DEF Served, Stages
<1>8. CASE EventISR(t)
  BY <1>0, <1>8 DEF EventISR, Forever
<1>9. QED
  BY <1>1, <1>2, <1>3, <1>4, <1>5, <1>6, <1>7, <1>8 DEF Waiter

\* ... and of a periodic one ...
LEMMA SleeperType ==
  ASSUME UpperTypeOK, NEW t \in Sleepers, Sleeper(t)
  PROVE  UpperTypeOK'
<1> USE TimeOutFacts DEF UpperTypeOK, Enter, tickVars, sleepVars, waitVars
<1>0. t \in Tasks
  OBVIOUS
<1>1. CASE StartPeriodic(t)
  BY <1>0, <1>1 DEF StartPeriodic, Stages
<1>2. CASE StopPeriodic(t)
  BY <1>0, <1>2 DEF StopPeriodic, Stages
<1>3. ASSUME NEW increment \in Increments, vTaskDelayUntil(t, increment)
      PROVE  UpperTypeOK'
  <2> DEFINE wake == IF xPreviousWakeTime[t] + increment > portMAX_DELAY
                     THEN xPreviousWakeTime[t] + increment - Period
                     ELSE xPreviousWakeTime[t] + increment
             ticks == IF ~ ShouldDelay(xPreviousWakeTime[t], wake) THEN 0
                      ELSE IF wake < xTickCount THEN wake + Period - xTickCount
                      ELSE wake - xTickCount
  <2>1. wake \in TickType
    OBVIOUS
  <2>2. ticks \in 0 .. Forever
    <3> HIDE DEF wake
    <3>1. wake \in 0 .. portMAX_DELAY /\ xTickCount \in 0 .. portMAX_DELAY
      BY <2>1
    <3>2. ~ (wake < xTickCount) => wake - xTickCount \in 0 .. Forever
      BY ONLY <3>1, TimeOutFacts DEF Forever
    <3>3. wake < xTickCount => wake + Period - xTickCount \in 0 .. Forever
      BY ONLY <3>1, TimeOutFacts DEF Forever
    <3>4. 0 \in 0 .. Forever
      BY ONLY TimeOutFacts DEF Forever
    <3>5. QED
      BY ONLY <3>2, <3>3, <3>4 DEF ticks
  <2>3. /\ stage' = [stage EXCEPT ![t] = "release"]
        /\ xPreviousWakeTime' = [xPreviousWakeTime EXCEPT ![t] = wake]
        /\ since' = [since EXCEPT ![t] = @ - increment]
        /\ left' = [left EXCEPT ![t] = ticks]
        /\ UNCHANGED <<tickVars, waitVars>>
    BY <1>3 DEF vTaskDelayUntil
  <2> HIDE DEF wake, ticks
  <2>4. increment \in Int
    OBVIOUS
  <2>5. QED
    BY <1>0, <2>1, <2>2, <2>3, <2>4 DEF Stages
<1>4. QED
  BY <1>1, <1>2, <1>3 DEF Sleeper

\* ... the steps both have ...
LEMMA BothCallsType ==
  ASSUME UpperTypeOK, NEW t \in Tasks,
         SuspendAll(t) \/ ResumeAll(t) \/ YieldOnce(t) \/ LocksOnly(t)
  PROVE  UpperTypeOK'
<1> USE DEF UpperTypeOK, Enter, tickVars, sleepVars, waitVars
<1>1. CASE SuspendAll(t)
  BY <1>1 DEF SuspendAll, Stages
<1>2. CASE ResumeAll(t)
  <2>1. /\ stage' = stage \/ \E s \in Stages : stage' = [stage EXCEPT ![t] = s]
        /\ gap' = gap \/ gap' = [gap EXCEPT ![t] = 0]
        /\ due' = due \/ due' = [due EXCEPT ![t] = 0]
        /\ UNCHANGED <<tickVars, xTimeOut, xTicksToWait, sleepVars, left>>
    BY <1>2 DEF ResumeAll, Stages, Resumed
  <2>2. QED
    BY <2>1
<1>3. CASE YieldOnce(t)
  BY <1>3 DEF YieldOnce, Resumed, Stages
<1>4. CASE LocksOnly(t)
  BY <1>4 DEF LocksOnly
<1>5. QED
  BY <1>1, <1>2, <1>3, <1>4

\* ... and so every step.
LEMMA StepType == UpperTypeOK /\ [Next]_vars => UpperTypeOK'
<1> SUFFICES ASSUME UpperTypeOK, [Next]_vars PROVE UpperTypeOK'
  OBVIOUS
<1>1. CASE TickISR
  <2>1. CASE uxSchedulerSuspended = 0
    BY <1>1, <2>1, CountTickType DEF TickISR, UpperTypeOK
  <2>2. CASE uxSchedulerSuspended # 0
    BY <1>1, <2>2 DEF TickISR, UpperTypeOK
  <2>3. QED
    BY <2>1, <2>2
<1>2. ASSUME NEW t \in Tasks, ReplayTick(t)
      PROVE  UpperTypeOK'
  <2>1. uxMissedTicks' \in Nat
    BY <1>2 DEF ReplayTick, UpperTypeOK
  <2>2. QED
    BY <1>2, <2>1, CountTickType DEF ReplayTick
<1>3. CASE Port
  BY <1>3 DEF Port, tickVars, waitVars, sleepVars, UpperTypeOK
<1>4. CASE UNCHANGED vars
  BY <1>4 DEF vars, tickVars, waitVars, sleepVars, UpperTypeOK
<1>5. QED
  BY <1>1, <1>2, <1>3, <1>4, WaiterType, SleeperType, BothCallsType DEF Next

-----------------------------------------------------------------------------
(* What a waiter captured *)

\* The tick count, the overflow counter and the time captured agree with g
\* ticks having passed; within a period they tell g.
Agrees(tick, overflows, entered, captured, g) ==
  LET elapsed == IF tick >= entered THEN tick - entered
                 ELSE tick - entered + Period
  IN  /\ g >= elapsed
      /\ overflows # captured /\ tick >= entered => g >= Period
      /\ g < Period => /\ g = elapsed
                       /\ tick >= entered <=> overflows = captured
      /\ g = Period => tick = entered /\ overflows # captured

\* A waiter between its two reads is inside its critical section, and has
\* read the overflow counter as it still is; it makes no periodic call.
CaptureOK(t) ==
  /\ stage[t] \notin {"periodic", "until"}
  /\ stage[t] \in {"capture", "captureTick"} =>
       uxCriticalNesting[t] > 0 /\ pc[t] = "run"
  /\ stage[t] = "captureTick" => xTimeOut[t].xOverflowCount = xNumOfOverflows

GapOK(t) ==
  stage[t] \in Captured =>
    Agrees(xTickCount, xNumOfOverflows, xTimeOut[t].xTimeOnEntering,
           xTimeOut[t].xOverflowCount, gap[t])

\* What is left of a wait is no less than what the call counts with.
DueOK(t) ==
  /\ stage[t] \in Captured /\ xTicksToWait[t] # portMAX_DELAY =>
       due[t] <= xTicksToWait[t] - gap[t]
  /\ stage[t] = "expired" => due[t] <= 0 /\ xTicksToWait[t] # portMAX_DELAY

WaitOK(t) == CaptureOK(t) /\ GapOK(t) /\ DueOK(t)

\* The inductive invariant.
WaitInv == LocksInv /\ UpperTypeOK /\ \A t \in Waiters : WaitOK(t)

\* One more tick, with or without a wrap of either counter.
LEMMA AgreesTick ==
  ASSUME NEW tick \in 0 .. portMAX_DELAY, NEW next \in 0 .. portMAX_DELAY,
         NEW entered \in 0 .. portMAX_DELAY, NEW g \in Nat,
         NEW o \in 0 .. OverflowModulus - 1, NEW o2 \in 0 .. OverflowModulus - 1,
         NEW c \in 0 .. OverflowModulus - 1,
         next = IF tick = portMAX_DELAY THEN 0 ELSE tick + 1,
         o2 = IF tick # portMAX_DELAY THEN o
              ELSE IF o = OverflowModulus - 1 THEN 0 ELSE o + 1,
         Agrees(tick, o, entered, c, g)
  PROVE  Agrees(next, o2, entered, c, g + 1)
<1>1. Period = portMAX_DELAY + 1 /\ portMAX_DELAY \in Nat \ {0}
      /\ OverflowModulus \in Nat \ {0, 1}
  BY TimeOutAssumption DEF Period
<1>2. CASE tick # portMAX_DELAY
  BY <1>1, <1>2 DEF Agrees
<1>3. CASE tick = portMAX_DELAY
  <2>1. o2 # o /\ next = 0
    BY <1>1, <1>3
  <2>2. QED
    BY <1>1, <1>3, <2>1 DEF Agrees
<1>4. QED
  BY <1>2, <1>3

\* Between its two reads a waiter has the processor, and interrupts are off.
LEMMA CaptureMasked ==
  ASSUME WaitInv, NEW t \in Waiters, stage[t] \in {"capture", "captureTick"}
  PROVE  /\ t = pxCurrentTCB /\ xSchedulerRunning /\ interruptsDisabled
         /\ pc[t] = "run"
<1>1. uxCriticalNesting[t] > 0 /\ pc[t] = "run" /\ t \in Tasks
  BY TimeOutFacts DEF WaitInv, WaitOK, CaptureOK
<1>2. uxCriticalNesting[t] # 0
  BY <1>1
<1>3. t = pxCurrentTCB /\ xSchedulerRunning
  BY <1>1, <1>2 DEF WaitInv, LocksInv, NestingOK
<1>4. interruptsDisabled
  BY <1>1, <1>3 DEF WaitInv, LocksInv, NestingOK
<1>5. QED
  BY <1>1, <1>3, <1>4

\* A counted tick keeps what is said of a waiter.
LEMMA WaitCount ==
  ASSUME WaitInv, NEW t \in Waiters, CountTick,
         stage[t] \notin {"capture", "captureTick"},
         UNCHANGED <<stage, xTimeOut, xTicksToWait>>
  PROVE  WaitOK(t)'
<1>1. CaptureOK(t)'
  BY DEF WaitInv, WaitOK, CaptureOK
<1>2. ASSUME stage[t] \in Captured
      PROVE  GapOK(t)' /\ DueOK(t)'
  <2>1. /\ gap'[t] = gap[t] + 1
        /\ xTicksToWait[t] # portMAX_DELAY => due'[t] = due[t] - 1
    BY <1>2 DEF CountTick
  <2>2. /\ xTickCount \in 0 .. portMAX_DELAY
        /\ xTimeOut[t].xTimeOnEntering \in 0 .. portMAX_DELAY
        /\ xNumOfOverflows \in 0 .. OverflowModulus - 1
        /\ xTimeOut[t].xOverflowCount \in 0 .. OverflowModulus - 1
        /\ gap[t] \in Nat /\ due[t] \in Int /\ xTicksToWait[t] \in Nat
    BY DEF WaitInv, UpperTypeOK, TickType
  <2>3. /\ xTickCount' = IF xTickCount = portMAX_DELAY THEN 0 ELSE xTickCount + 1
        /\ xNumOfOverflows' =
             IF xTickCount # portMAX_DELAY THEN xNumOfOverflows
             ELSE IF xNumOfOverflows = OverflowModulus - 1 THEN 0
             ELSE xNumOfOverflows + 1
    BY DEF CountTick
  <2>4. /\ xTickCount' \in 0 .. portMAX_DELAY
        /\ xNumOfOverflows' \in 0 .. OverflowModulus - 1
    BY <2>2, <2>3, TimeOutAssumption
  <2>5. Agrees(xTickCount, xNumOfOverflows, xTimeOut[t].xTimeOnEntering,
               xTimeOut[t].xOverflowCount, gap[t])
    BY <1>2 DEF WaitInv, WaitOK, GapOK
  <2>6. Agrees(xTickCount', xNumOfOverflows', xTimeOut[t].xTimeOnEntering,
               xTimeOut[t].xOverflowCount, gap[t] + 1)
    BY <2>2, <2>3, <2>4, <2>5, AgreesTick
  <2>7. GapOK(t)'
    BY <2>1, <2>6 DEF GapOK
  <2>8. DueOK(t)'
    BY <1>2, <2>1, <2>2 DEF WaitInv, WaitOK, DueOK
  <2>9. QED
    BY <2>7, <2>8
<1>3. ASSUME stage[t] \notin Captured
      PROVE  GapOK(t)' /\ DueOK(t)'
  BY <1>3 DEF GapOK, DueOK, Captured
<1>4. QED
  BY <1>1, <1>2, <1>3 DEF WaitOK

\* A step that neither counts a tick nor captures or checks the time of t.
LEMMA WaitQuiet ==
  ASSUME NEW t \in Waiters, WaitOK(t),
         UNCHANGED <<xTickCount, xNumOfOverflows>>,
         xTimeOut'[t] = xTimeOut[t], xTicksToWait'[t] = xTicksToWait[t],
         \/ stage'[t] = "idle"
         \/ /\ stage'[t] = stage[t]
            /\ stage[t] \in {"capture", "captureTick"} =>
                 uxCriticalNesting'[t] = uxCriticalNesting[t] /\ pc'[t] = pc[t]
            /\ gap'[t] = gap[t] /\ due'[t] = due[t]
         \/ /\ stage[t] \in Captured
            /\ stage'[t] \in Captured \ {"expired"}
            /\ gap'[t] = gap[t] /\ due'[t] = due[t]
  PROVE  WaitOK(t)'
<1>1. CaptureOK(t)'
  BY DEF WaitOK, CaptureOK, Captured
<1>2. GapOK(t)'
  BY DEF WaitOK, GapOK, Captured
<1>3. DueOK(t)'
  BY DEF WaitOK, DueOK, Captured
<1>4. QED
  BY <1>1, <1>2, <1>3 DEF WaitOK

\* What u does in its own blocking call, for the waiter u itself.
LEMMA OwnWait ==
  ASSUME WaitInv, NEW t \in Waiters, Waiter(t)
  PROVE  WaitOK(t)'
<1>0. /\ t \in Tasks /\ stage \in [Tasks -> Stages]
      /\ xTimeOut \in [Waiters -> [xOverflowCount : 0 .. OverflowModulus - 1,
                                   xTimeOnEntering : TickType]]
      /\ xTicksToWait \in [Waiters -> TickType]
      /\ gap \in [Waiters -> Nat] /\ due \in [Waiters -> Int]
      /\ WaitOK(t)
  BY TimeOutFacts DEF WaitInv, UpperTypeOK
<1> USE DEF Enter, Stage, At, tickVars, sleepVars, waitVars
<1>1. ASSUME NEW ticks \in Waits, StartWait(t, ticks)
      PROVE  WaitOK(t)'
  <2>1. stage'[t] = "capture"
    BY <1>0, <1>1 DEF StartWait
  <2>2. uxCriticalNesting[t] \in Nat /\ uxCriticalNesting \in [Tasks -> Nat]
    BY <1>0 DEF WaitInv, LocksInv, LocksTypeOK
  <2>3. uxCriticalNesting'[t] > 0 /\ pc'[t] = "run"
    BY <1>0, <1>1, <2>2 DEF StartWait, vTaskEnterCritical, Mask
  <2>4. QED
    BY <2>1, <2>3 DEF WaitOK, CaptureOK, GapOK, DueOK, Captured
<1>2. CASE CaptureOverflow(t)
  <2>1. /\ stage[t] = "capture" /\ stage'[t] = "captureTick"
        /\ xTimeOut'[t].xOverflowCount = xNumOfOverflows
        /\ UNCHANGED <<lockVars, tickVars>>
    BY <1>0, <1>2 DEF CaptureOverflow
  <2>2. QED
    BY <1>0, <2>1 DEF WaitOK, CaptureOK, GapOK, DueOK, Captured, lockVars,
                      taskVars
<1>3. CASE CaptureTick(t)
  <2>1. /\ stage[t] = "captureTick" /\ stage'[t] = "leave"
        /\ xTimeOut'[t].xOverflowCount = xTimeOut[t].xOverflowCount
        /\ xTimeOut'[t].xTimeOnEntering = xTickCount
        /\ gap'[t] = 0 /\ due'[t] = xTicksToWait[t]
        /\ UNCHANGED <<tickVars, xTicksToWait>>
    BY <1>0, <1>3 DEF CaptureTick
  <2>2. xTimeOut[t].xOverflowCount = xNumOfOverflows
    BY <1>0, <2>1 DEF WaitOK, CaptureOK
  <2>3. /\ xTickCount \in 0 .. portMAX_DELAY /\ xTicksToWait[t] \in Nat
    BY <1>0, TimeOutFacts DEF WaitInv, UpperTypeOK, TickType
  <2>4. Agrees(xTickCount, xNumOfOverflows, xTickCount, xNumOfOverflows, 0)
    BY <2>3, TimeOutFacts DEF Agrees
  <2>5. GapOK(t)'
    BY <2>1, <2>2, <2>4 DEF GapOK
  <2>6. QED
    BY <2>1, <2>3, <2>5 DEF WaitOK, CaptureOK, DueOK
<1>4. CASE LeaveCritical(t)
  <2>1. /\ stage[t] = "leave" /\ stage'[t] = "hold"
        /\ UNCHANGED <<tickVars, waitVars>>
    BY <1>0, <1>4 DEF LeaveCritical
  <2>2. QED
    BY <1>0, <2>1, WaitQuiet DEF Captured
<1>5. CASE xTaskCheckForTimeOut(t)
  <2> DEFINE e == Elapsed(xTimeOut[t].xTimeOnEntering)
  <2>1. /\ stage[t] = "check" /\ stage[t] \in Captured
    BY <1>5 DEF xTaskCheckForTimeOut, Captured
  <2>2. /\ xTickCount \in 0 .. portMAX_DELAY
        /\ xTimeOut[t].xTimeOnEntering \in 0 .. portMAX_DELAY
        /\ gap[t] \in Nat /\ due[t] \in Int
        /\ xTicksToWait[t] \in 0 .. portMAX_DELAY
    BY <1>0, TimeOutFacts DEF WaitInv, UpperTypeOK, TickType
  <2>3. /\ gap[t] >= e /\ e \in Nat
        /\ /\ xNumOfOverflows # xTimeOut[t].xOverflowCount
           /\ xTickCount >= xTimeOut[t].xTimeOnEntering
           => gap[t] >= Period
    BY <1>0, <2>1, <2>2, TimeOutFacts DEF WaitOK, GapOK, Agrees, Elapsed
  <2>4. xTicksToWait[t] # portMAX_DELAY => due[t] <= xTicksToWait[t] - gap[t]
    BY <1>0, <2>1 DEF WaitOK, DueOK
  <2>5. CASE Expired(xTimeOut[t], xTicksToWait[t])
    <3>1. /\ stage'[t] = "expired" /\ UNCHANGED <<tickVars, waitVars>>
      BY <1>0, <1>5, <2>5 DEF xTaskCheckForTimeOut
    <3>2. xTicksToWait[t] # portMAX_DELAY /\ gap[t] >= xTicksToWait[t]
      BY <2>2, <2>3, <2>5, TimeOutFacts DEF Expired
    <3>3. DueOK(t)'
      BY <2>2, <2>4, <3>1, <3>2 DEF DueOK
    <3>4. GapOK(t)'
      BY <1>0, <2>1, <3>1 DEF GapOK, WaitOK
    <3>5. QED
      BY <3>1, <3>3, <3>4 DEF WaitOK, CaptureOK
  <2>6. CASE ~ Expired(xTimeOut[t], xTicksToWait[t])
               /\ xTicksToWait[t] = portMAX_DELAY
    <3>1. stage'[t] = "place" /\ UNCHANGED <<tickVars, waitVars>>
      BY <1>0, <1>5, <2>6 DEF xTaskCheckForTimeOut
    <3>2. QED
      BY <1>0, <2>1, <3>1, WaitQuiet DEF Captured
  <2>7. CASE ~ Expired(xTimeOut[t], xTicksToWait[t])
               /\ xTicksToWait[t] # portMAX_DELAY
    <3>1. /\ stage'[t] = "place"
          /\ xTicksToWait'[t] = xTicksToWait[t] - e
          /\ xTimeOut'[t].xOverflowCount = xNumOfOverflows
          /\ xTimeOut'[t].xTimeOnEntering = xTickCount
          /\ gap'[t] = 0 /\ due'[t] = due[t]
          /\ UNCHANGED tickVars
      BY <1>0, <1>5, <2>7 DEF xTaskCheckForTimeOut
    <3>2. Agrees(xTickCount, xNumOfOverflows, xTickCount, xNumOfOverflows, 0)
      BY <2>2, TimeOutFacts DEF Agrees
    <3>3. GapOK(t)'
      BY <3>1, <3>2 DEF GapOK
    <3> HIDE DEF e
    <3>4. due'[t] <= xTicksToWait'[t] - gap'[t]
      BY <2>2, <2>3, <2>4, <2>7, <3>1
    <3>5. QED
      BY <3>1, <3>3, <3>4 DEF WaitOK, CaptureOK, DueOK
  <2>8. QED
    BY <2>5, <2>6, <2>7
<1>6. CASE Place(t)
  <2>1. /\ stage[t] = "place" /\ stage'[t] = "release"
        /\ UNCHANGED <<tickVars, waitVars>>
    BY <1>0, <1>6 DEF Place
  <2>2. QED
    BY <1>0, <2>1, WaitQuiet DEF Captured
<1>7. CASE Served(t)
  <2>1. /\ stage'[t] = "idle" /\ UNCHANGED <<tickVars, xTimeOut, xTicksToWait>>
    BY <1>0, <1>7 DEF Served
  <2>2. QED
    BY <1>0, <2>1, WaitQuiet DEF Captured
<1>8. QED
  BY <1>1, <1>2, <1>3, <1>4, <1>5, <1>6, <1>7 DEF Waiter

\* A step of the locks by the running task, for a waiter between its reads:
\* there is none but its own.
LEMMA CaptureAlone ==
  ASSUME WaitInv, NEW t \in Waiters, NEW u \in Tasks,
         stage[t] \in {"capture", "captureTick"},
         \/ SuspendAll(u) \/ ResumeAll(u) \/ ReplayTick(u) \/ YieldOnce(u)
         \/ LocksOnly(u)
         \/ u # t /\ Waiter(u)
  PROVE  FALSE
<1>1. /\ t = pxCurrentTCB /\ xSchedulerRunning /\ interruptsDisabled
      /\ pc[t] = "run"
  BY CaptureMasked
<1>2. ASSUME TaskStep(u) PROVE u = pxCurrentTCB
  BY <1>2 DEF TaskStep, vTaskEnterCritical, vTaskExitCritical, SuspendAllRead,
              SuspendAllWrite, ResumeAllBegin, ResumeAllEnd, portYIELD, At
<1>3. CASE u # t /\ Waiter(u)
  BY <1>1, <1>3 DEF Waiter, StartWait, vTaskEnterCritical, CaptureOverflow,
                    CaptureTick, LeaveCritical, vTaskExitCritical,
                    xTaskCheckForTimeOut, Place, Served, Stage, At
<1>4. CASE ReplayTick(u)
  BY <1>1, <1>4 DEF ReplayTick, At
<1>5. CASE SuspendAll(u)
  BY <1>1, <1>2, <1>5 DEF SuspendAll, TaskStep
<1>6. CASE ResumeAll(u)
  BY <1>1, <1>2, <1>6 DEF ResumeAll, TaskStep
<1>7. CASE YieldOnce(u)
  BY <1>1, <1>2, <1>7 DEF YieldOnce, TaskStep
<1>8. CASE LocksOnly(u)
  BY <1>1, <1>2, <1>8 DEF LocksOnly
<1>9. QED
  BY <1>3, <1>4, <1>5, <1>6, <1>7, <1>8

\* What another waiter does.
LEMMA OtherWait ==
  ASSUME WaitInv, NEW t \in Waiters, NEW u \in Waiters \ {t}, Waiter(u)
  PROVE  WaitOK(t)'
<1>0. /\ t \in Tasks /\ u \in Tasks /\ WaitOK(t)
      /\ stage[t] \notin {"capture", "captureTick"}
  BY TimeOutFacts, CaptureAlone DEF WaitInv
<1>1. /\ stage'[t] = stage[t] /\ gap'[t] = gap[t] /\ due'[t] = due[t]
      /\ xTimeOut'[t] = xTimeOut[t] /\ xTicksToWait'[t] = xTicksToWait[t]
      /\ UNCHANGED <<xTickCount, xNumOfOverflows>>
  <2>0. /\ stage \in [Tasks -> Stages]
        /\ xTimeOut \in [Waiters -> [xOverflowCount : 0 .. OverflowModulus - 1,
                                     xTimeOnEntering : TickType]]
        /\ xTicksToWait \in [Waiters -> TickType]
        /\ gap \in [Waiters -> Nat] /\ due \in [Waiters -> Int]
    BY DEF WaitInv, UpperTypeOK
  <2> USE <1>0, <2>0 DEF Enter, tickVars, waitVars
  <2>1. CASE \E ticks \in Waits : StartWait(u, ticks)
    BY <2>1 DEF StartWait
  <2>2. CASE CaptureOverflow(u) \/ CaptureTick(u) \/ LeaveCritical(u)
    BY <2>2 DEF CaptureOverflow, CaptureTick, LeaveCritical
  <2>3. CASE xTaskCheckForTimeOut(u)
    BY <2>3 DEF xTaskCheckForTimeOut
  <2>4. CASE Place(u) \/ Served(u)
    BY <2>4 DEF Place, Served
  <2>5. QED
    BY <2>1, <2>2, <2>3, <2>4 DEF Waiter
<1>2. QED
  BY <1>0, <1>1, WaitQuiet

\* The steps of both calls that give and take the scheduler.
LEMMA BothCallsWait ==
  ASSUME WaitInv, NEW t \in Waiters, NEW u \in Tasks,
         SuspendAll(u) \/ ResumeAll(u) \/ YieldOnce(u) \/ LocksOnly(u)
  PROVE  WaitOK(t)'
<1>0. /\ t \in Tasks /\ stage \in [Tasks -> Stages] /\ WaitOK(t)
      /\ gap \in [Waiters -> Nat] /\ due \in [Waiters -> Int]
      /\ stage[t] \notin {"capture", "captureTick"}
  BY TimeOutFacts, CaptureAlone DEF WaitInv, UpperTypeOK
<1>1. UNCHANGED <<tickVars, xTimeOut, xTicksToWait>>
  BY DEF SuspendAll, ResumeAll, YieldOnce, LocksOnly, waitVars
<1>2. \/ stage'[t] = stage[t] /\ gap'[t] = gap[t] /\ due'[t] = due[t]
      \/ stage'[t] = "idle"
      \/ /\ stage[t] \in {"hold", "release", "yield"}
         /\ stage'[t] \in {"check", "hold", "yield"}
         /\ gap'[t] = gap[t] /\ due'[t] = due[t]
  <2> USE <1>0 DEF Enter, waitVars
  <2>1. CASE SuspendAll(u)
    <3>1. UNCHANGED <<gap, due>>
      BY <2>1 DEF SuspendAll
    <3>2. CASE u # t
      BY <2>1, <3>1, <3>2 DEF SuspendAll
    <3>3. CASE u = t
      <4>1. stage[t] \in {"hold", "periodic"}
        BY <2>1, <3>3 DEF SuspendAll
      <4>2. stage' = stage \/ stage' = [stage EXCEPT ![t] = "check"]
        BY <2>1, <3>3 DEF SuspendAll
      <4>3. stage[t] # "periodic"
        BY DEF WaitOK, CaptureOK
      <4>4. QED
        BY <3>1, <4>1, <4>2, <4>3
    <3>4. QED
      BY <3>2, <3>3
  <2>2. CASE ResumeAll(u)
    BY <2>2 DEF ResumeAll, Resumed
  <2>3. CASE YieldOnce(u)
    BY <2>3 DEF YieldOnce, Resumed
  <2>4. CASE LocksOnly(u)
    BY <2>4 DEF LocksOnly
  <2>5. QED
    BY <2>1, <2>2, <2>3, <2>4
<1>3. QED
  BY <1>0, <1>1, <1>2, WaitQuiet DEF Captured, tickVars

\* Every step keeps what is said of a waiter.
LEMMA WaitStep ==
  ASSUME WaitInv, [Next]_vars, NEW t \in Waiters
  PROVE  WaitOK(t)'
<1>0. WaitOK(t) /\ t \in Tasks
  BY TimeOutFacts DEF WaitInv
<1>1. CASE TickISR
  <2>1. /\ xSchedulerRunning /\ ~ interruptsDisabled
        /\ UNCHANGED <<taskVars, stage, xTimeOut, xTicksToWait>>
    BY <1>1 DEF TickISR, InterruptYield, InterruptsOn, Yield
  <2>2. stage[t] \notin {"capture", "captureTick"}
    BY <2>1, CaptureMasked
  <2>3. CASE uxSchedulerSuspended = 0
    BY <1>1, <2>1, <2>2, <2>3, WaitCount DEF TickISR
  <2>4. CASE uxSchedulerSuspended # 0
    <3>1. UNCHANGED <<xTickCount, xNumOfOverflows, gap, due>>
      BY <1>1, <2>4 DEF TickISR
    <3>2. QED
      BY <1>0, <2>1, <2>2, <3>1, WaitQuiet
  <2>5. QED
    BY <2>3, <2>4
<1>2. ASSUME NEW u \in Waiters, Waiter(u)
      PROVE  WaitOK(t)'
  BY <1>2, OwnWait, OtherWait
<1>3. ASSUME NEW u \in Waiters, EventISR(u)
      PROVE  WaitOK(t)'
  <2>1. UNCHANGED <<tickVars, stage, waitVars, taskVars>>
    BY <1>3 DEF EventISR, InterruptYield, Yield
  <2>2. QED
    BY <1>0, <2>1, WaitQuiet DEF tickVars, waitVars, taskVars
<1>4. ASSUME NEW u \in Sleepers, Sleeper(u)
      PROVE  WaitOK(t)'
  <2>1. u # t
    BY TimeOutAssumption
  <2>2. UNCHANGED <<tickVars, waitVars, lockVars>> /\ stage'[t] = stage[t]
    BY <1>0, <1>4, <2>1 DEF Sleeper, StartPeriodic, StopPeriodic,
         vTaskDelayUntil, Enter, WaitInv, UpperTypeOK
  <2>3. QED
    BY <1>0, <2>2, WaitQuiet DEF tickVars, waitVars, lockVars, taskVars
<1>5. ASSUME NEW u \in Tasks, ReplayTick(u)
      PROVE  WaitOK(t)'
  <2>1. stage[t] \notin {"capture", "captureTick"}
    BY <1>5, CaptureAlone
  <2>2. QED
    BY <1>5, <2>1, WaitCount DEF ReplayTick
<1>6. ASSUME NEW u \in Tasks,
             SuspendAll(u) \/ ResumeAll(u) \/ YieldOnce(u) \/ LocksOnly(u)
      PROVE  WaitOK(t)'
  BY <1>6, BothCallsWait
<1>7. CASE Port
  <2>1. UNCHANGED <<tickVars, stage, waitVars, taskVars>>
    BY <1>7 DEF Port, EnterCriticalBeforeStart, StartScheduler,
                vTaskSwitchContext
  <2>2. QED
    BY <1>0, <2>1, WaitQuiet DEF tickVars, waitVars, taskVars
<1>8. CASE UNCHANGED vars
  BY <1>0, <1>8, WaitQuiet DEF vars, tickVars, waitVars, lockVars, taskVars
<1>9. QED
  BY <1>1, <1>2, <1>3, <1>4, <1>5, <1>6, <1>7, <1>8 DEF Next

\* WaitInv holds initially ...
LEMMA WaitInitInv == Init => WaitInv
<1> SUFFICES ASSUME Init PROVE WaitInv
  OBVIOUS
<1>1. LocksInv /\ UpperTypeOK
  BY LocksInitInv, InitType DEF Init
<1>2. \A t \in Waiters : WaitOK(t)
  BY TimeOutFacts DEF Init, WaitOK, CaptureOK, GapOK, DueOK, Captured
<1>3. QED
  BY <1>1, <1>2 DEF WaitInv

\* ... and every step keeps it.
LEMMA WaitStepInv == WaitInv /\ [Next]_vars => WaitInv'
<1> SUFFICES ASSUME WaitInv, [Next]_vars PROVE WaitInv'
  OBVIOUS
<1>1. LocksInv'
  BY StepUsesLocks, LocksStepInv DEF WaitInv
<1>2. UpperTypeOK'
  BY StepType DEF WaitInv
<1>3. \A t \in Waiters : WaitOK(t)'
  BY WaitStep
<1>4. QED
  BY <1>1, <1>2, <1>3 DEF WaitInv

\* The inductive invariant of the waiters holds in every reachable state.
THEOREM WaitInvariantHolds == Spec => []WaitInv
BY WaitInitInv, WaitStepInv, PTL DEF Spec

\* The variables keep their types: no tick arithmetic leaves its range.
THEOREM TimeOutTypeCorrect == Spec => []TypeOK
<1>1. WaitInv => TypeOK
  BY DEF WaitInv, LocksInv, UpperTypeOK, TypeOK
<1>2. QED
  BY <1>1, WaitInvariantHolds, PTL

\* No wait ends before its ticks have passed, for any width of the counters
\* and however long the caller was kept from looking.
THEOREM NeverEarly == Spec => []NoEarlyTimeOut
<1>1. WaitInv => NoEarlyTimeOut
  BY DEF WaitInv, WaitOK, DueOK, NoEarlyTimeOut
<1>2. QED
  BY <1>1, WaitInvariantHolds, PTL

-----------------------------------------------------------------------------
(* The check is exact *)

\* Only its own check takes a waiter out of the stage "check".
LEMMA OnlyTheCheck ==
  ASSUME WaitInv, [Next]_vars, NEW t \in Waiters,
         stage[t] = "check", stage'[t] # "check"
  PROVE  xTaskCheckForTimeOut(t)
<1>0. t \in Tasks /\ stage \in [Tasks -> Stages]
  BY TimeOutFacts DEF WaitInv, UpperTypeOK
<1> USE DEF Enter, Stage
<1>1. ASSUME NEW u \in Waiters, Waiter(u) \/ EventISR(u)
      PROVE  xTaskCheckForTimeOut(t)
  BY <1>0, <1>1 DEF Waiter, EventISR, StartWait, CaptureOverflow, CaptureTick,
                    LeaveCritical, xTaskCheckForTimeOut, Place, Served
<1>2. ASSUME NEW u \in Sleepers, Sleeper(u)
      PROVE  FALSE
  BY <1>0, <1>2 DEF Sleeper, StartPeriodic, StopPeriodic, vTaskDelayUntil
<1>3. ASSUME NEW u \in Tasks, SuspendAll(u) \/ ResumeAll(u) \/ ReplayTick(u)
                                \/ YieldOnce(u) \/ LocksOnly(u)
      PROVE  FALSE
  BY <1>0, <1>3 DEF SuspendAll, ResumeAll, ReplayTick, YieldOnce, LocksOnly
<1>4. CASE TickISR \/ Port \/ UNCHANGED vars
  BY <1>4 DEF TickISR, Port, vars
<1>5. QED
  BY <1>1, <1>2, <1>3, <1>4 DEF Next

\* A check that is not later than one period tells exactly what has passed.
THEOREM ChecksAreExact == Spec => CheckExact
<1>1. ASSUME WaitInv, [Next]_vars, NEW t \in Waiters,
             stage[t] = "check", stage'[t] # "check",
             gap[t] <= Period, xTicksToWait[t] # portMAX_DELAY
      PROVE  /\ stage'[t] = "expired" <=> gap[t] >= xTicksToWait[t]
             /\ stage'[t] # "expired" =>
                  xTicksToWait'[t] = xTicksToWait[t] - gap[t]
  <2> DEFINE e == Elapsed(xTimeOut[t].xTimeOnEntering)
  <2>1. xTaskCheckForTimeOut(t)
    BY <1>1, OnlyTheCheck
  <2>2. /\ xTickCount \in 0 .. portMAX_DELAY
        /\ xTimeOut[t].xTimeOnEntering \in 0 .. portMAX_DELAY
        /\ gap[t] \in Nat /\ xTicksToWait[t] \in 0 .. portMAX_DELAY
        /\ t \in Tasks /\ stage \in [Tasks -> Stages]
        /\ xTicksToWait \in [Waiters -> TickType]
    BY <1>1, TimeOutFacts DEF WaitInv, UpperTypeOK, TickType
  <2>3. Agrees(xTickCount, xNumOfOverflows, xTimeOut[t].xTimeOnEntering,
               xTimeOut[t].xOverflowCount, gap[t])
    BY <1>1 DEF WaitInv, WaitOK, GapOK, Captured
  <2>4. /\ gap[t] < Period => gap[t] = e
        /\ gap[t] = Period => e = 0
    BY <2>2, <2>3 DEF Agrees, Elapsed
  <2>5. Expired(xTimeOut[t], xTicksToWait[t]) <=> gap[t] >= xTicksToWait[t]
    BY <1>1, <2>2, <2>3, <2>4, TimeOutFacts DEF Agrees, Expired
  <2>6. CASE Expired(xTimeOut[t], xTicksToWait[t])
    BY <2>1, <2>2, <2>5, <2>6 DEF xTaskCheckForTimeOut, Enter
  <2>7. CASE ~ Expired(xTimeOut[t], xTicksToWait[t])
    <3>1. /\ stage'[t] = "place" /\ xTicksToWait'[t] = xTicksToWait[t] - e
      BY <1>1, <2>1, <2>2, <2>7 DEF xTaskCheckForTimeOut, Enter
    <3>2. gap[t] = e
      BY <1>1, <2>2, <2>4, <2>5, <2>7, TimeOutFacts
    <3>3. QED
      BY <2>5, <2>7, <3>1, <3>2
  <2>8. QED
    BY <2>6, <2>7
<1>2. WaitInv /\ [Next]_vars =>
        [\A t \in Waiters :
           /\ stage[t] = "check" /\ stage'[t] # "check"
           /\ gap[t] <= Period /\ xTicksToWait[t] # portMAX_DELAY
           => /\ stage'[t] = "expired" <=> gap[t] >= xTicksToWait[t]
              /\ stage'[t] # "expired" =>
                   xTicksToWait'[t] = xTicksToWait[t] - gap[t]]_vars
  BY <1>1
<1>3. QED
  BY <1>2, WaitInvariantHolds, PTL DEF Spec, CheckExact

-----------------------------------------------------------------------------
(* vTaskDelayUntil *)

\* a and b differ by whole periods of the tick count.
SameTick(a, b) == \E k \in Int : a + k * Period = b

\* One period more or less makes no difference ...
LEMMA OnePeriod ==
  ASSUME NEW a \in Int, NEW b \in Int, SameTick(a, b)
  PROVE  /\ SameTick(a, b - Period) /\ SameTick(a - Period, b)
         /\ SameTick(a + 1, b + 1) /\ SameTick(a + 1 - Period, b + 1)
<1>1. PICK k \in Int : a + k * Period = b
  BY DEF SameTick
<1>2. /\ Period \in Int /\ k * Period \in Int
      /\ (k + 1) * Period = k * Period + Period
      /\ (k - 1) * Period = k * Period - Period
  BY TimeOutFacts
<1>3. a + (k - 1) * Period = b - Period
  BY <1>1, <1>2
<1>4. (a - Period) + (k + 1) * Period = b
  BY <1>1, <1>2
<1>5. (a + 1) + k * Period = b + 1
  BY <1>1, <1>2
<1>6. (a + 1 - Period) + (k + 1) * Period = b + 1
  BY <1>1, <1>2
<1>7. k + 1 \in Int /\ k - 1 \in Int
  BY <1>1
<1>8. QED
  BY <1>1, <1>3, <1>4, <1>5, <1>6, <1>7 DEF SameTick

\* ... and within two periods there are two possibilities.
LEMMA WithinTwoPeriods ==
  ASSUME NEW a \in 0 .. portMAX_DELAY, NEW b \in Int,
         b >= 0, b < 2 * Period, SameTick(a, b)
  PROVE  b = a \/ b = a + Period
<1>1. PICK k \in Int : a + k * Period = b
  BY DEF SameTick
<1>2. /\ Period \in Int /\ k * Period \in Int
      /\ k >= 2 => k * Period >= 2 * Period
      /\ k <= -1 => k * Period <= - Period
      /\ k = 0 => k * Period = 0
      /\ k = 1 => k * Period = Period
  BY TimeOutFacts
<1>3. a < Period /\ a >= 0
  BY TimeOutFacts
<1>4. k < 2 /\ k > -1
  BY <1>1, <1>2, <1>3
<1>5. k = 0 \/ k = 1
  BY <1>4
<1>6. QED
  BY <1>1, <1>2, <1>5

\* A sleeper makes no other blocking call, and its wake time and the ghost
\* count of ticks since then agree with the tick count up to whole periods.
SleepOK(t) ==
  /\ stage[t] \in {"idle", "periodic", "until", "release", "yield"}
  /\ stage[t] # "idle" => SameTick(xTickCount, xPreviousWakeTime[t] + since[t])

SleepInv == UpperTypeOK /\ \A t \in Sleepers : SleepOK(t)

\* A tick keeps a sleeper in step.
LEMMA SleepCount ==
  ASSUME SleepInv, NEW t \in Sleepers, CountTick,
         UNCHANGED <<stage, xPreviousWakeTime>>
  PROVE  SleepOK(t)'
<1>1. /\ SleepOK(t) /\ xTickCount \in 0 .. portMAX_DELAY
      /\ xPreviousWakeTime[t] \in Int /\ since[t] \in Int
  BY DEF SleepInv, UpperTypeOK, TickType
<1>2. CASE stage[t] = "idle"
  BY <1>2 DEF SleepOK
<1>3. CASE stage[t] # "idle"
  <2> DEFINE b == xPreviousWakeTime[t] + since[t]
  <2>1. SameTick(xTickCount, b) /\ b \in Int /\ xTickCount \in Int
    BY <1>1, <1>3 DEF SleepOK
  <2>2. since'[t] = since[t] + 1
    BY <1>3 DEF CountTick
  <2>3. (xPreviousWakeTime[t] + since[t] + 1) = b + 1
    BY <1>1
  <2>4. /\ xTickCount' = xTickCount + 1 \/ xTickCount' = xTickCount + 1 - Period
    BY <1>1, TimeOutFacts DEF CountTick
  <2> HIDE DEF b
  <2>5. SameTick(xTickCount', b + 1)
    BY <2>1, <2>4, OnePeriod
  <2>6. xPreviousWakeTime'[t] + since'[t] = b + 1
    BY <1>1, <2>2 DEF b
  <2>7. QED
    BY <1>1, <2>5, <2>6 DEF SleepOK
<1>4. QED
  BY <1>2, <1>3

\* So does its own call.
LEMMA OwnSleep ==
  ASSUME SleepInv, NEW t \in Sleepers, Sleeper(t)
  PROVE  SleepOK(t)'
<1>0. /\ t \in Tasks /\ SleepOK(t) /\ xTickCount \in 0 .. portMAX_DELAY
      /\ xPreviousWakeTime \in [Sleepers -> TickType]
      /\ since \in [Sleepers -> Int] /\ stage \in [Tasks -> Stages]
      /\ xPreviousWakeTime[t] \in Int /\ since[t] \in Int
  BY TimeOutFacts DEF SleepInv, UpperTypeOK, TickType
<1> USE DEF Enter, tickVars
<1>1. CASE StartPeriodic(t)
  <2>1. /\ stage'[t] = "periodic" /\ xTickCount' = xTickCount
        /\ xPreviousWakeTime'[t] = xTickCount /\ since'[t] = 0
    BY <1>0, <1>1 DEF StartPeriodic
  <2>2. SameTick(xTickCount, xTickCount + 0)
    <3>1. xTickCount + 0 * Period = xTickCount + 0
      BY <1>0, TimeOutFacts
    <3>2. QED
      BY <3>1 DEF SameTick
  <2>3. QED
    BY <2>1, <2>2 DEF SleepOK
<1>2. CASE StopPeriodic(t)
  BY <1>0, <1>2 DEF StopPeriodic, SleepOK
<1>3. ASSUME NEW increment \in Increments, vTaskDelayUntil(t, increment)
      PROVE  SleepOK(t)'
  <2> DEFINE b == xPreviousWakeTime[t] + since[t]
  <2>1. /\ stage[t] = "until" /\ stage'[t] = "release"
        /\ since'[t] = since[t] - increment /\ xTickCount' = xTickCount
        /\ \/ xPreviousWakeTime'[t] = xPreviousWakeTime[t] + increment
           \/ xPreviousWakeTime'[t] = xPreviousWakeTime[t] + increment - Period
    BY <1>0, <1>3 DEF vTaskDelayUntil, Stage
  <2>2. /\ SameTick(xTickCount, b) /\ b \in Int /\ xTickCount \in Int
        /\ increment \in Int /\ Period \in Int
    BY <1>0, <2>1, TimeOutFacts DEF SleepOK
  <2>3. \/ xPreviousWakeTime'[t] + since'[t] = b
        \/ xPreviousWakeTime'[t] + since'[t] = b - Period
    BY <1>0, <2>1, <2>2
  <2> HIDE DEF b
  <2>4. SameTick(xTickCount, b - Period)
    BY <2>2, OnePeriod
  <2>5. QED
    BY <2>1, <2>2, <2>3, <2>4 DEF SleepOK
<1>4. QED
  BY <1>1, <1>2, <1>3 DEF Sleeper

\* Nothing else disturbs it.
LEMMA SleepStep ==
  ASSUME SleepInv, [Next]_vars, NEW t \in Sleepers
  PROVE  SleepOK(t)'
<1>0. /\ t \in Tasks /\ t \notin Waiters /\ SleepOK(t)
      /\ stage \in [Tasks -> Stages] /\ since \in [Sleepers -> Int]
      /\ xPreviousWakeTime \in [Sleepers -> TickType]
  BY TimeOutAssumption DEF SleepInv, UpperTypeOK
<1> USE <1>0 DEF Enter, tickVars, sleepVars
<1>1. ASSUME UNCHANGED <<xTickCount, xPreviousWakeTime, since>>,
             \/ stage'[t] = stage[t]
             \/ stage[t] # "idle"
                  /\ stage'[t] \in {"periodic", "until", "release", "yield"}
      PROVE  SleepOK(t)'
  BY <1>1 DEF SleepOK
<1>2. CASE TickISR
  <2>1. CASE uxSchedulerSuspended = 0
    BY <1>2, <2>1, SleepCount DEF TickISR
  <2>2. CASE uxSchedulerSuspended # 0
    BY <1>1, <1>2, <2>2 DEF TickISR
  <2>3. QED
    BY <2>1, <2>2
<1>3. ASSUME NEW u \in Tasks, ReplayTick(u)
      PROVE  SleepOK(t)'
  BY <1>3, SleepCount DEF ReplayTick
<1>4. ASSUME NEW u \in Waiters, Waiter(u) \/ EventISR(u)
      PROVE  SleepOK(t)'
  <2>1. u # t
    OBVIOUS
  <2>2. /\ UNCHANGED <<xTickCount, xPreviousWakeTime, since>>
        /\ stage'[t] = stage[t]
    BY <1>4, <2>1 DEF Waiter, EventISR, StartWait, CaptureOverflow, CaptureTick,
         LeaveCritical, xTaskCheckForTimeOut, Place, Served
  <2>3. QED
    BY <1>1, <2>2
<1>5. ASSUME NEW u \in Sleepers \ {t}, Sleeper(u)
      PROVE  SleepOK(t)'
  <2>1. /\ xTickCount' = xTickCount /\ stage'[t] = stage[t]
        /\ xPreviousWakeTime'[t] = xPreviousWakeTime[t] /\ since'[t] = since[t]
    BY <1>5 DEF Sleeper, StartPeriodic, StopPeriodic, vTaskDelayUntil
  <2>2. QED
    BY <2>1 DEF SleepOK
<1>6. ASSUME NEW u \in Tasks,
             SuspendAll(u) \/ ResumeAll(u) \/ YieldOnce(u) \/ LocksOnly(u)
      PROVE  SleepOK(t)'
  <2>1. UNCHANGED <<xTickCount, xPreviousWakeTime, since>>
    BY <1>6 DEF SuspendAll, ResumeAll, YieldOnce, LocksOnly
  <2>2. \/ stage'[t] = stage[t]
        \/ stage[t] # "idle"
             /\ stage'[t] \in {"periodic", "until", "release", "yield"}
    BY <1>6 DEF SuspendAll, ResumeAll, YieldOnce, LocksOnly, Resumed, SleepOK
  <2>3. QED
    BY <1>1, <2>1, <2>2
<1>7. CASE Port \/ UNCHANGED vars
  BY <1>1, <1>7 DEF Port, vars
<1>8. QED
  BY <1>2, <1>3, <1>4, <1>5, <1>6, <1>7, OwnSleep DEF Next

\* Only vTaskDelayUntil takes a sleeper out of the stage "until".
LEMMA OnlyDelayUntil ==
  ASSUME SleepInv, [Next]_vars, NEW t \in Sleepers,
         stage[t] = "until", stage'[t] # "until"
  PROVE  \E increment \in Increments : vTaskDelayUntil(t, increment)
<1>0. t \in Tasks /\ stage \in [Tasks -> Stages] /\ t \notin Waiters
  BY TimeOutAssumption DEF SleepInv, UpperTypeOK
<1> USE <1>0 DEF Enter, Stage
<1>1. ASSUME NEW u \in Waiters, Waiter(u) \/ EventISR(u)
      PROVE  FALSE
  BY <1>1 DEF Waiter, EventISR, StartWait, CaptureOverflow, CaptureTick,
              LeaveCritical, xTaskCheckForTimeOut, Place, Served
<1>2. ASSUME NEW u \in Sleepers, Sleeper(u)
      PROVE  \E increment \in Increments : vTaskDelayUntil(t, increment)
  BY <1>2 DEF Sleeper, StartPeriodic, StopPeriodic, vTaskDelayUntil
<1>3. ASSUME NEW u \in Tasks, SuspendAll(u) \/ ResumeAll(u) \/ ReplayTick(u)
                                \/ YieldOnce(u) \/ LocksOnly(u)
      PROVE  FALSE
  BY <1>3 DEF SuspendAll, ResumeAll, ReplayTick, YieldOnce, LocksOnly
<1>4. CASE TickISR \/ Port \/ UNCHANGED vars
  BY <1>4 DEF TickISR, Port, vars
<1>5. QED
  BY <1>1, <1>2, <1>3, <1>4 DEF Next

\* vTaskDelayUntil delays by exactly what is left of the period, for any width
\* of the tick count and any increment, unless it is a whole wrap late.
THEOREM DelayUntilIsExact == Spec => DelayUntilExact
<1>1. Init => SleepInv
  BY InitType, TimeOutFacts DEF Init, SleepInv, SleepOK
<1>2. SleepInv /\ [Next]_vars => SleepInv'
  BY StepType, SleepStep DEF SleepInv
<1>3. ASSUME SleepInv, [Next]_vars, NEW t \in Sleepers,
             stage[t] = "until", stage'[t] # "until", since[t] \in TickType
      PROVE  left'[t] = IF since'[t] < 0 THEN - since'[t] ELSE 0
  <2>1. PICK increment \in Increments : vTaskDelayUntil(t, increment)
    BY <1>3, OnlyDelayUntil
  <2> DEFINE tick == xTickCount
             previous == xPreviousWakeTime[t]
             wake == IF previous + increment > portMAX_DELAY
                     THEN previous + increment - Period ELSE previous + increment
             s == since[t]
  <2>2. /\ tick \in 0 .. portMAX_DELAY /\ previous \in 0 .. portMAX_DELAY
        /\ s \in 0 .. portMAX_DELAY /\ increment \in 1 .. portMAX_DELAY
        /\ left \in [Tasks -> 0 .. Forever] /\ t \in Tasks
        /\ since \in [Sleepers -> Int]
    BY <1>3, TimeOutFacts DEF SleepInv, UpperTypeOK, TickType
  <2>3. SameTick(tick, previous + s)
    BY <1>3 DEF SleepInv, SleepOK
  <2>4. since'[t] = s - increment
    BY <2>1, <2>2 DEF vTaskDelayUntil
  <2>5. left'[t] = IF ~ ShouldDelay(previous, wake) THEN 0
                   ELSE IF wake < tick THEN wake + Period - tick
                   ELSE wake - tick
    BY <2>1, <2>2 DEF vTaskDelayUntil
  <2>6. ShouldDelay(previous, wake) <=>
          IF tick < previous THEN wake < previous /\ wake > tick
          ELSE wake < previous \/ wake > tick
    BY DEF ShouldDelay
  <2> HIDE DEF tick, previous, s
  <2>7. previous + s = tick \/ previous + s = tick + Period
    <3>1. previous + s \in Int /\ previous + s >= 0 /\ previous + s < 2 * Period
      BY <2>2, TimeOutFacts
    <3>2. QED
      BY <2>2, <2>3, <3>1, WithinTwoPeriods
  <2>8. QED
    BY <2>2, <2>4, <2>5, <2>6, <2>7, TimeOutFacts
<1>4. SleepInv /\ [Next]_vars =>
        [\A t \in Sleepers :
           /\ stage[t] = "until" /\ stage'[t] # "until"
           /\ since[t] \in TickType
           => left'[t] = IF since'[t] < 0 THEN - since'[t] ELSE 0]_vars
  BY <1>3
<1>5. QED
  BY <1>1, <1>2, <1>4, PTL DEF Spec, DelayUntilExact
=============================================================================
