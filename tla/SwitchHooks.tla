---------------------------- MODULE SwitchHooks ----------------------------
(***************************************************************************)
(* The optional facilities of tasks.c that hang on vTaskSwitchContext or   *)
(* on the TCB: run-time statistics, the trace buffer, the stack checks and *)
(* the task tags.  Each is a compile-time option and shares no variable    *)
(* with the others, so an instance names the builds to look at.  Which     *)
(* task is selected is left open: see Tasks.                               *)
(***************************************************************************)
EXTENDS Integers, Sequences, FiniteSets

CONSTANTS
  Tasks,
  None,              \* no task, no tag
  Builds,            \* sets of options that are compiled in
  CounterModulus,    \* the run-time counter is an unsigned long
  Hundred,           \* the 100 of the percentages
  BufferSizes,       \* ulBufferSize arguments, in words
  TickModulus,
  StackWords,        \* usStackDepth
  GuardWords,        \* words at the end of a stack the second check looks at
  Tags,              \* hook functions
  TagArguments       \* pxTagValue arguments: hook functions, or None for NULL

Options == {"stats", "trace", "stack", "tags"}

ASSUME SwitchHooksAssumption ==
  /\ Tasks # {} /\ None \notin Tasks \cup Tags
  /\ Builds \subseteq SUBSET Options
  /\ CounterModulus \in Nat \ {0} /\ TickModulus \in Nat \ {0}
  /\ Hundred \in Nat \ {0}
  /\ BufferSizes \subseteq Nat \ {0, 1}
  /\ StackWords \in Nat \ {0} /\ GuardWords \in 1 .. StackWords
  /\ TagArguments \subseteq Tags \cup {None}

VARIABLES
  build,
  pxCurrentTCB, uxSchedulerSuspended,
  ulTime,                   \* the hardware counter of the statistics
  ulTaskSwitchedInTime, ulRunTimeCounter,
  ran,                      \* ghost: time each task had the processor
  wrapped,                  \* ghost: the counter has wrapped
  xTickCount,
  xTracing, uxPreviousTask,
  pcTraceBuffer,            \* offset of the next write, in words
  ulBufferSize,             \* of the buffer given to vTaskStartTrace
  trace,                    \* the lines in the buffer
  shown,                    \* ghost: the lines that ought to be there
  ending,                   \* ghost: words of the trace t has just stopped
  used,                     \* words on each stack: pxTopOfStack
  written,                  \* words of each stack that differ from the fill
  deepest,                  \* ghost: the most words there have been
  overflowed,               \* tasks vApplicationStackOverflowHook got
  pxTaskTag,
  calling, tested,          \* a xTaskCallApplicationTaskHook in progress
  called                    \* ghost: what such calls have gone to

switchVars == <<build, pxCurrentTCB, uxSchedulerSuspended>>
statsVars  == <<ulTime, ulTaskSwitchedInTime, ulRunTimeCounter, ran, wrapped>>
traceVars  == <<xTickCount, xTracing, uxPreviousTask, pcTraceBuffer,
                ulBufferSize, trace, shown, ending>>
stackVars  == <<used, written, deepest, overflowed>>
tagVars    == <<pxTaskTag, calling, tested, called>>
hookVars   == <<switchVars, statsVars, traceVars, stackVars, tagVars>>

Built(o) == o \in build

-----------------------------------------------------------------------------
(* Run-time statistics *)

\* The time the current task has been running: unsigned subtraction.
Slice == (ulTime - ulTaskSwitchedInTime) % CounterModulus

\* Mutant: ulTaskSwitchedInTime is not updated.
CountSliceAgain ==
  /\ ulRunTimeCounter' = [ulRunTimeCounter EXCEPT
                            ![pxCurrentTCB] = (@ + Slice) % CounterModulus]
  /\ UNCHANGED <<ulTime, ulTaskSwitchedInTime, ran, wrapped>>

\* The part of vTaskSwitchContext before the new task is selected.
CountSlice ==
  /\ ulRunTimeCounter' = [ulRunTimeCounter EXCEPT
                            ![pxCurrentTCB] = (@ + Slice) % CounterModulus]
  /\ ulTaskSwitchedInTime' = ulTime
  /\ UNCHANGED <<ulTime, ran, wrapped>>

\* The counter runs on while the current task does.
TimePasses ==
  /\ Built("stats")
  /\ ulTime' = (ulTime + 1) % CounterModulus
  /\ ran' = [ran EXCEPT ![pxCurrentTCB] = (@ + 1) % CounterModulus]
  /\ wrapped' = (wrapped \/ ulTime = CounterModulus - 1)
  /\ UNCHANGED <<switchVars, ulTaskSwitchedInTime, ulRunTimeCounter, traceVars,
                 stackVars, tagVars>>

\* The percentage vTaskGetRunTimeStats prints, when it prints any: the total
\* is divided by 100 first.
Prints == ulTime \div Hundred > 0
Percentage(t) == ulRunTimeCounter[t] \div (ulTime \div Hundred)

-----------------------------------------------------------------------------
(* The trace buffer *)

LineWords == 2
pcTraceBufferEnd == ulBufferSize - LineWords

\* vWriteTraceToBuffer, with t the task just selected.
vWriteTraceToBuffer(t) ==
  IF xTracing /\ uxPreviousTask # t
  THEN IF pcTraceBuffer + LineWords < pcTraceBufferEnd
       THEN /\ uxPreviousTask' = t
            /\ trace' = Append(trace, <<xTickCount, t>>)
            /\ pcTraceBuffer' = pcTraceBuffer + LineWords
            /\ UNCHANGED xTracing
       ELSE /\ xTracing' = FALSE
            /\ UNCHANGED <<uxPreviousTask, trace, pcTraceBuffer>>
  ELSE UNCHANGED <<xTracing, uxPreviousTask, trace, pcTraceBuffer>>

\* What a reader expects of it: a line whenever another task is selected.
Show(t) ==
  shown' = IF xTracing /\ (shown = << >> \/ shown[Len(shown)][2] # t)
           THEN Append(shown, <<xTickCount, t>>) ELSE shown

\* Mutant: pcTraceBuffer stays where the last trace left it.
StartTraceGoesOn(size) ==
  /\ Built("trace") /\ ending[pxCurrentTCB] = None
  /\ xTracing' = TRUE /\ ulBufferSize' = size
  /\ trace' = << >> /\ shown' = << >>
  /\ UNCHANGED <<pcTraceBuffer, switchVars, statsVars, xTickCount,
                 uxPreviousTask, ending, stackVars, tagVars>>

vTaskStartTrace(size) ==
  /\ Built("trace") /\ ending[pxCurrentTCB] = None
  /\ xTracing' = TRUE /\ ulBufferSize' = size /\ pcTraceBuffer' = 0
  /\ trace' = << >> /\ shown' = << >>
  /\ UNCHANGED <<switchVars, statsVars, xTickCount, uxPreviousTask, ending,
                 stackVars, tagVars>>

\* ulTaskEndTrace: its critical section ...
EndTraceStop ==
  /\ Built("trace") /\ ending[pxCurrentTCB] = None
  /\ xTracing' = FALSE
  /\ ending' = [ending EXCEPT ![pxCurrentTCB] = LineWords * Len(trace)]
  /\ UNCHANGED <<switchVars, statsVars, xTickCount, uxPreviousTask,
                 pcTraceBuffer, ulBufferSize, trace, shown, stackVars, tagVars>>

\* ... and behind it pcTraceBuffer - pcTraceBufferStart is returned.
EndTraceReturn ==
  /\ ending[pxCurrentTCB] # None
  /\ ending' = [ending EXCEPT ![pxCurrentTCB] = None]
  /\ UNCHANGED <<switchVars, statsVars, xTickCount, xTracing, uxPreviousTask,
                 pcTraceBuffer, ulBufferSize, trace, shown, stackVars, tagVars>>

Tick ==
  /\ Built("trace")
  /\ xTickCount' = (xTickCount + 1) % TickModulus
  /\ UNCHANGED <<switchVars, statsVars, xTracing, uxPreviousTask,
                 pcTraceBuffer, ulBufferSize, trace, shown, ending, stackVars,
                 tagVars>>

-----------------------------------------------------------------------------
(* Stacks.  Word 1 is used first; the last GuardWords are the extremity. *)

Extremity == StackWords - GuardWords + 1 .. StackWords

\* Mutant: only the first check.
ChecksFirstOnly(t) == used[t] >= StackWords

\* taskFIRST_ and taskSECOND_CHECK_FOR_STACK_OVERFLOW
Overflows(t) ==
  \/ used[t] >= StackWords
  \/ written[t] \cap Extremity # {}

CheckStack ==
  /\ overflowed' = IF Overflows(pxCurrentTCB)
                   THEN overflowed \cup {pxCurrentTCB} ELSE overflowed
  /\ UNCHANGED <<used, written, deepest>>

\* The current task pushes a word, which may look like the fill, or pops one.
Push(visible) ==
  LET t == pxCurrentTCB
  IN  /\ Built("stack") /\ used[t] <= StackWords
      /\ used' = [used EXCEPT ![t] = @ + 1]
      /\ deepest' = [deepest EXCEPT ![t] = IF used[t] + 1 > @ THEN used[t] + 1
                                           ELSE @]
      /\ written' = IF used[t] = StackWords THEN written
                    ELSE [written EXCEPT ![t] = IF visible
                                                THEN @ \cup {used[t] + 1}
                                                ELSE @ \ {used[t] + 1}]
      /\ UNCHANGED <<switchVars, statsVars, traceVars, overflowed, tagVars>>

Pop ==
  /\ Built("stack") /\ used[pxCurrentTCB] > 1
  /\ used' = [used EXCEPT ![pxCurrentTCB] = @ - 1]
  /\ UNCHANGED <<switchVars, statsVars, traceVars, written, deepest,
                 overflowed, tagVars>>

\* usTaskCheckFreeStackSpace: the words from the end up to one that was written.
FreeStackSpace(t) ==
  CHOOSE n \in 0 .. StackWords :
    /\ \A w \in written[t] : w <= StackWords - n
    /\ n < StackWords => StackWords - n \in written[t]

-----------------------------------------------------------------------------
(* Task tags *)

vTaskSetApplicationTaskTag(x, tag) ==
  /\ Built("tags") /\ calling[pxCurrentTCB] = None
  /\ pxTaskTag' = [pxTaskTag EXCEPT ![x] = tag]
  /\ UNCHANGED <<switchVars, statsVars, traceVars, stackVars, calling, tested,
                 called>>

\* Mutant: no comparison with NULL.
CallHookUntested(x) ==
  LET t == pxCurrentTCB
  IN  /\ Built("tags") /\ calling[t] = None
      /\ calling' = [calling EXCEPT ![t] = x]
      /\ tested' = [tested EXCEPT ![t] = pxTaskTag[x]]
      /\ UNCHANGED <<switchVars, statsVars, traceVars, stackVars, pxTaskTag,
                     called>>

\* xTaskCallApplicationTaskHook tests the tag without a critical section ...
CallHookTest(x) ==
  LET t == pxCurrentTCB
  IN  /\ Built("tags") /\ calling[t] = None /\ pxTaskTag[x] # None
      /\ calling' = [calling EXCEPT ![t] = x]
      /\ tested' = [tested EXCEPT ![t] = pxTaskTag[x]]
      /\ UNCHANGED <<switchVars, statsVars, traceVars, stackVars, pxTaskTag,
                     called>>

\* ... and calls through it: the value tested, or one read anew.
HookToCall(t) == {tested[t], pxTaskTag[calling[t]]}

CallHook(f) ==
  LET t == pxCurrentTCB
  IN  /\ calling[t] # None /\ f \in HookToCall(t)
      /\ calling' = [calling EXCEPT ![t] = None]
      /\ called' = called \cup {f}
      /\ UNCHANGED <<switchVars, statsVars, traceVars, stackVars, pxTaskTag,
                     tested>>

-----------------------------------------------------------------------------
(* The switch *)

\* vTaskSuspendAll and xTaskResumeAll
SuspendOrResume ==
  /\ uxSchedulerSuspended' = 1 - uxSchedulerSuspended
  /\ UNCHANGED <<build, pxCurrentTCB, statsVars, traceVars, stackVars, tagVars>>

\* vTaskSwitchContext; while the scheduler is suspended it only notes the yield.
vTaskSwitchContext(next) ==
  /\ uxSchedulerSuspended = 0
  /\ IF Built("stats") THEN CountSlice ELSE UNCHANGED statsVars
  /\ IF Built("stack") THEN CheckStack ELSE UNCHANGED stackVars
  /\ pxCurrentTCB' = next
  /\ IF Built("trace")
     THEN vWriteTraceToBuffer(next) /\ Show(next)
     ELSE UNCHANGED <<xTracing, uxPreviousTask, trace, pcTraceBuffer, shown>>
  /\ UNCHANGED <<build, uxSchedulerSuspended, xTickCount, ulBufferSize,
                 ending, tagVars>>

Init ==
  /\ build \in Builds /\ pxCurrentTCB \in Tasks /\ uxSchedulerSuspended = 0
  /\ ulTime = 0 /\ ulTaskSwitchedInTime = 0 /\ wrapped = FALSE
  /\ ulRunTimeCounter = [t \in Tasks |-> 0] /\ ran = [t \in Tasks |-> 0]
  /\ xTickCount = 0 /\ xTracing = FALSE /\ uxPreviousTask = None
  /\ pcTraceBuffer = 0 /\ ulBufferSize = 0
  /\ trace = << >> /\ shown = << >> /\ ending = [t \in Tasks |-> None]
  /\ used = [t \in Tasks |-> 1] /\ deepest = [t \in Tasks |-> 1]
  /\ written = [t \in Tasks |-> {1}] /\ overflowed = {}
  /\ pxTaskTag = [t \in Tasks |-> None] /\ calling = [t \in Tasks |-> None]
  /\ tested = [t \in Tasks |-> None] /\ called = {}

Next ==
  \/ \E t \in Tasks : vTaskSwitchContext(t)
  \/ SuspendOrResume
  \/ TimePasses
  \/ \E size \in BufferSizes : vTaskStartTrace(size)
  \/ EndTraceStop \/ EndTraceReturn \/ Tick
  \/ \E visible \in BOOLEAN : Push(visible)
  \/ Pop
  \/ \E x \in Tasks, tag \in TagArguments : vTaskSetApplicationTaskTag(x, tag)
  \/ \E x \in Tasks : CallHookTest(x)
  \/ \E f \in Tags \cup {None} : CallHook(f)

Spec == Init /\ [][Next]_hookVars

-----------------------------------------------------------------------------
\* Every moment is attributed to the task that had the processor, the slice
\* in progress included, also across a wrap of the counter (the comment in
\* vTaskSwitchContext: "no overflow protection").
RunTimeExact ==
  Built("stats") =>
    \A t \in Tasks :
      ran[t] = IF t = pxCurrentTCB
               THEN (ulRunTimeCounter[t] + Slice) % CounterModulus
               ELSE ulRunTimeCounter[t]

\* A printed percentage is not above what the task's time is of the total
\* (tasks.c, prvGenerateRunTimeStatsForTasksInList: "This will always be rounded
\* down to the nearest integer").  The code divides by a total that has been
\* rounded down itself.
PercentageRoundedDown ==
  Built("stats") /\ ~ wrapped /\ Prints =>
    \A t \in Tasks : Percentage(t) * ulTime <= Hundred * ulRunTimeCounter[t]

\* The positions kept beside the trace fit its lines and its buffer.
TraceInBuffer ==
  /\ pcTraceBuffer = LineWords * Len(trace)
  /\ pcTraceBuffer <= ulBufferSize

\* From its first line on a running trace tells every switch to another task,
\* and when.
TraceTells ==
  xTracing /\ trace # << >> =>
    \E n \in 1 .. Len(shown) : trace = SubSeq(shown, n, Len(shown))

\* Whoever starts and stops traces, however full the buffer is: the position
\* says what has been written, inside the buffer, and no line is missing
\* behind the first one (task.h of vTaskStartTrace: "The trace will continue
\* until either the buffer in full, or ulTaskEndTrace () is called").
TraceSound == TraceInBuffer /\ TraceTells

\* A running trace tells every task that was selected since it began (task.h of
\* vTaskStartTrace: "The trace logs the identity of which task is running
\* when").  uxPreviousTask outlives a trace, so the first line may be missing.
TraceComplete == xTracing => trace = shown

\* What ulTaskEndTrace is about to return is what the trace it stopped had
\* written (task.h: "The number of bytes that have been written into the trace
\* buffer").  It is read behind the critical section.
EndTraceLength ==
  \A t \in Tasks : ending[t] # None => pcTraceBuffer = ending[t]

\* A task that is not running and is over its stack, or has left a mark at the
\* end of it, has been reported; none is that never came that near.
OverflowReported ==
  Built("stack") =>
    \A t \in Tasks :
      /\ t # pxCurrentTCB /\ (used[t] >= StackWords
                                \/ written[t] \cap Extremity # {})
           => t \in overflowed
      /\ t \in overflowed => deepest[t] > StackWords - GuardWords

\* The high water mark is never below the least space there has been, and is
\* exact if the deepest word shows.
HighWaterMark ==
  \A t \in Tasks :
    /\ FreeStackSpace(t) >= StackWords - deepest[t]
    /\ deepest[t] \in written[t] => FreeStackSpace(t) = StackWords - deepest[t]

\* What the stack checks and the high water mark tell of a task is true of all
\* it has ever done, as far as what it wrote can be told from the fill
\* (StackMacros.h: "does not guarantee that an overflowed stack will always
\* be recognised").
StackSound == OverflowReported /\ HighWaterMark

\* No hook call goes through NULL, although the tag is tested and read again
\* without the critical section that its other readers use (task.h of
\* xTaskCallApplicationTaskHook: "Calls the hook function associated with
\* xTask").
HookIsCallable == None \notin called
=============================================================================
