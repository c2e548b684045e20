# TLA+ models and proofs of the FreeRTOS V6.1.1 scheduler and list package

The repository freezes two upstream translation units, `list.c` and `tasks.c`
(under `src/upstream/FreeRTOSV6.1.1/Source/`), with a proof port and a
configuration (`src/proof_port/scheduler/`), runs them in a trace harness
(`src/harness/`) and proves facts about the C heap of single calls in Isabelle
(`src/theories/`). This directory looks at the same code from the other side:
what happens over *sequences* of calls, by several tasks and interrupts, in any
order.

Line numbers below are those of `tasks.c` unless another file is named.

## 1. Inventory

### Components

| Component | State | Operations | Here |
|---|---|---|---|
| List package (`list.c`, `list.h`) | per list: `uxNumberOfItems`, `pxIndex`, `xListEnd`; per item: `pxNext`, `pxPrevious`, `xItemValue`, `pvContainer` | initialise, `vListInsertEnd`, `vListInsert`, `vListRemove`, `listGET_OWNER_OF_NEXT_ENTRY`, `listSET_LIST_ITEM_VALUE`, queries | `ListHeap` (pointers), `XList`/`XListSpec` (sequences), proofs |
| Scheduler core (`tasks.c`) | TCBs; ready, delayed, overflow, pending, suspended, termination lists; tick count; `uxTopReadyPriority`; suspension depth; missed ticks and yields | create, delete, suspend, resume (task and ISR), priority set, delay, delay until, suspend-all/resume-all, tick, context switch, event-list block and wake, idle task | `Tasks`, `Tasks_proofs`, `Deferred_proofs` |
| Queues | a lock, a count of posts while locked, an event list per direction; for a mutex its holder | block, unlock, post; take, give | external: `queue.c` is not in the repository; modelled in `Tasks`, `TimeOut` and `PriorityInheritance` from the comments of `tasks.c` and `task.h` |
| Scheduler suspension and critical sections (1098-1102, 2347-) | `uxSchedulerSuspended` as a machine word, `uxCriticalNesting`, the interrupt mask | `++` without a critical section, its undoing; enter, exit | `Locks`, `SchedulerHold`, `TimeOut_proofs` |
| Timeouts (1759-1815, 604-674) | `xTimeOutType`: overflow count and tick count at entry | `vTaskSetTimeOutState`, `xTaskCheckForTimeOut`, `vTaskDelayUntil` against a caller's own time | `TimeOut`, `TimeOut_proofs` |
| Task memory and shutdown (2044-, 2228-, 1087-1096, 1455-1510) | the TCB and the stack as blocks of the heap | `prvAllocateTCBAndStack`, `prvDeleteTCB`, `vTaskEndScheduler`, `vTaskCleanUpResources` | `Lifecycle`, `Lifecycle_proofs` |
| Priority inheritance (2289-, 764-860) | base priority, mutex holder | inherit, disinherit, `vTaskPrioritySet` with two priorities | `PriorityInheritance`, `PriorityInheritance_proofs` (the `configUSE_MUTEXES` build) |
| Run-time statistics, trace buffer, stack checks, task tags | `ulRunTimeCounter`, the trace buffer, the stack's fill, `pxTaskTag` | what hangs on `vTaskSwitchContext`, start and end of a trace, hook calls | `SwitchHooks`, `SwitchHooks_proofs` (options off in the frozen configuration) |
| `vTaskList`, `vTaskGetRunTimeStats` | the walk over all lists | walk, state character | the walk in `Lifecycle`; the layout of the text is not modelled |
| Port (`portmacro.h`, `scheduler_port_contract.c`) | interrupt mask, outstanding yield | critical section, yield, tick interrupt | `Locks`; `InterruptsOn`, `yieldPending` in `Tasks`; the contract's stubs only count calls |
| Trace harness (`src/harness`) | a recorded scenario | structural checks | its checks are the source of `ListsAgree`, `LinksOK`, `HighestRuns`; a scenario is one run of the modelled actions |
| Abstract list model (`src/theories/model`) | ring, cursor, keys | three operations | corresponds to `XListSpec` |
| Abstract scheduler model, heap proofs, scripts, ledgers | - | - | not modelled, see section 5 |

### How they interact

`tasks.c` owns every list and calls `list.c` from three kinds of code: inside a
critical section, from an interrupt with interrupts masked, and - the
interesting one - with only the scheduler suspended, so that interrupts may
come between two instructions. Which list may be used from where is a
convention: ready and delayed lists belong to whoever suspended the scheduler,
and an interrupt that readies a task meanwhile must put it on
`xPendingReadyList` instead. `xTaskResumeAll` settles what was left: it drains
that list, replays missed ticks and yields if anything higher became ready.
A yield is a request: the port switches context some time later, and if the
scheduler is suspended by then, `vTaskSwitchContext` only records it.

### What is hard

* **Interleaving.** A task is preempted between a critical section and the
  yield that follows it; by the time it goes on it may have been resumed,
  deleted or given another priority. A call blocks in several stretches with
  interrupts between them. `vListInsert` walks a list with interrupts on.
* **Deferred work.** Ticks, wake-ups and yields that come while the scheduler is
  suspended must neither be lost nor done twice.
* **Wrap-around.** The tick count is unsigned; delays across a wrap go to a
  second list, and the two are exchanged when it wraps.
* **Sequences of legal calls** that reach states nobody had in mind: a deleted,
  suspended or re-prioritised task that is current, pending, delayed, or queued
  on an event; the same before the scheduler runs.
* **Caches.** `uxTopReadyPriority`, `uxTasksDeleted`, `pxIndex` are kept beside
  the lists and must stay in step with them; so are `pcTraceBuffer` and
  `uxPreviousTask` beside the trace.
* **Words.** `++uxSchedulerSuspended` is a read and a write; `vTaskSetTimeOutState`
  reads two words that a tick changes together; a hook is tested and called.
* **Half-done work.** A task needs two blocks of memory, and its creator can be
  refused the second one, preempted, or deleted in between.

`PROJECT.json` lists every such place at its line ("hazards"), with the
properties that watch it.

### What makes each part correct

* List package: every list is one ring through its `xListEnd`, links are inverse,
  counts are exact, cursors stay in their ring, ordered lists are ordered, the
  search of `vListInsert` ends - with interrupts between its iterations.
* Scheduler: the right task runs; no tick is lost; a delay ends at exactly its
  tick; tasks of one priority take turns; a suspended scheduler holds the
  processor and its lists; everything deferred is dealt with by the end of
  `xTaskResumeAll`; a deleted task stops and is freed; counters match lists.
* Locks: no suspension is lost, a task inside either kind of lock keeps the
  processor, and a critical section ends with its outermost exit.
* Timeouts: never early; exact for whoever looks within one period of the tick
  count.
* Memory: what a list can reach is allocated; what is allocated has an owner; the
  clean-up frees what it says; a list of all tasks has every task once.
* Inheritance: a holder is not below who waits for it, returns what it was lent,
  and a waiter is not kept waiting by tasks of middle priority.
* Hooks: what statistics, trace, stack checks and tags tell is true of what ran.

## 2. The modules

    XList  <---- XListSpec <== refinement == ListHeap
      ^  ^           (list calls as single      (pointers; InsertStep is one
      |  |            steps)                     iteration of vListInsert)
      | PriorityInheritance
    Tasks  <---- Lifecycle
                 (memory, walks, shutdown)

    SchedulerHold <== refinement == Locks  <---- TimeOut
      (an atomic counter)   (machine words)      (blocking calls over Locks)

    SwitchHooks  (alone: shares no state with the rest)

    XList_proofs <-- Tasks_proofs <-- Deferred_proofs <-- Lifecycle_proofs
      ^
      | PriorityInheritance_proofs

    ListHeap_proofs  (its refinement cites an INSTANCE of XList_proofs)
    TimeOut_proofs (with Locks)    SwitchHooks_proofs

An arrow is an `EXTENDS`. `MCTasks`, `MCLifecycle`, `MCListHeap`, `MCTimeOut`,
`MCSwitchHooks` and `MCPriorityInheritance` name the instances for TLC.

**ListHeap** is `list.c` on its pointers. A node is an item or the `xListEnd`
of a list, written as the list itself. `vListInsertEnd`, `vListRemove`,
`GetOwnerOfNextEntry` and `SetItemValue` are single steps (their callers mask
interrupts or own the list). `vListInsert` is `InsertBegin`, one `InsertStep`
per iteration of its `for` loop, and `InsertLink`: between them any *other* list
may change. `SetItemValue` applies to unlinked items; the one caller that sets
the value of a linked item (`vTaskPrioritySet`) is in `Tasks`.

**XList** has the same calls as operators on a record of sequences: `ring[L]` is
the order in which `pxNext` visits the items, `index[L]` the position of
`pxIndex` (0 is `xListEnd`), `container` and `value` the fields of items.
`vListInsertEnd` inserts *behind `pxIndex`* and moves `pxIndex` onto the new
item, so that it comes last in the round robin: this is not an append.
**XListSpec** makes a state machine of them. `ListHeap` implements it
(`ImplementsXListSpec`): a ring is read off by following `pxNext`.

**Tasks** is `tasks.c` over `XList`.

* *Grain.* A step is what no interrupt can split: a critical section, or the
  stretch between two. `pc[t]` says where task `t` is inside a call:
  `"created"` (behind the critical section of `xTaskGenericCreate`), `"yield"`
  (before its own `portYIELD`), `"vTaskDelay"`, `"vTaskDelayUntil"`, `"place"`,
  `"unlock"`, `"blocked"` (between `vTaskSuspendAll` and `xTaskResumeAll` of a
  blocking call), and the labels of the idle task. The loops that run masked take one
  step per iteration, and while `kernel` is not `"none"` nothing else moves.
* *Yields.* `portYIELD` and an interrupt that asks for a switch set
  `yieldPending`. The task stops, but further interrupts may come before
  `vTaskSwitchContext`.
* *Lists.* Each task owns two items, `Generic(t)` and `Event(t)`. Where the code
  asks `pvContainer`, the model does.
* *Time.* Ticks are counted modulo `portMAX_DELAY + 1`, with `portMAX_DELAY` a
  small constant; `xNumOfOverflows` is kept modulo 2, as no modelled code reads
  it.
* *Faults.* `while( listLIST_IS_EMPTY( &( pxReadyTasksLists[
  uxTopReadyPriority ] ) ) )` decrements below zero when nothing is ready. The
  model stops at `fault`; the invariants say when it cannot happen.
* *What the application may do.* `Calls` selects the API functions of an
  instance. A task that suspended the scheduler makes no call that blocks
  (documented in `task.h`), but may create, resume, delete or re-prioritise
  others. Handles are those of existing, undeleted tasks. `vTaskDelayUntil` is
  given any previous wake time and any increment.
* *Left out.* Memory and its exhaustion are in `Lifecycle`; hooks and statistics in
  `SwitchHooks`; stacks and names are data no property tells apart.
  `++uxSchedulerSuspended` is one step here: that it behaves like one is what
  `Locks` is for.

| Code | Actions and operators of `Tasks` |
|---|---|
| `xTaskGenericCreate` 386 | `CreateBeforeStart`, `xTaskCreate`, `CreatedYield` (all over `CreateTask`) |
| `vTaskDelete` 538 | `DeleteBeforeStart`, `vTaskDelete`, `EndWithYield` |
| `vTaskSuspend` 869, `vTaskResume` 964, `xTaskResumeFromISR` 1006 | the actions of those names, `SuspendBeforeStart`, `ResumeNow` |
| `vTaskPrioritySet` 764 | `vTaskPrioritySet` |
| `vTaskDelay` 681, `vTaskDelayUntil` 604 | `EnterDelay`, then the action of the name, `xTaskResumeAll`, `EndWithYield`; `DelayZero` |
| `vTaskSuspendAll` 1098, `xTaskResumeAll` 1106 | `vTaskSuspendAll`; `xTaskResumeAll`, `DrainPending`*, `DrainDone`, (`ReplayTick`, `WakeOne`*, `ReplayWakeDone`)*, `ResumeAllDone` |
| `vTaskIncrementTick` 1397 | `TickISR`, `WakeOne`*, `TickDone` |
| `vTaskSwitchContext` 1593 | `vTaskSwitchContext` |
| `vTaskPlaceOnEventList` 1643, `xTaskRemoveFromEventList` 1713 | `QueueWait`, `vTaskPlaceOnEventList`, `QueueUnlock`; `Post` in `QueueSend` and `EventISR` |
| `prvIdleTask`, `prvCheckTasksWaitingTermination` 2009 | `IdleCheck`, `IdleLook`, `IdleReap`, `IdleFree`, `IdleYield` |
| `vTaskStartScheduler` 1045 | `vTaskStartScheduler` |

**Locks** is the two ways to keep others out, one machine word at a time. A task
may enter and leave critical sections (`Mask` and `Unmask` are the effect on mask
and nesting count), and `vTaskSuspendAll` is `SuspendAllRead` and
`SuspendAllWrite`, with interrupts and switches between them. Which tasks are
ready is left to whoever uses it. **SchedulerHold** is the promise: a counter
with one owner, which does not change while the count is above zero. `held` is a
ghost: what each task still has to undo.

| Code | Actions of `Locks` |
|---|---|
| `vTaskEnterCritical`, `vTaskExitCritical` | the actions of those names; `EnterCriticalBeforeStart` (masks, counts nothing) |
| `vTaskSuspendAll` 1098 | `SuspendAllRead`, `SuspendAllWrite` |
| `xTaskResumeAll` 1106 | `ResumeAllBegin`, `ResumeAllEnd`; in `TimeOut` `ReplayTick` between them |
| `portYIELD`, yields from interrupts, `vTaskSwitchContext` 1593 | `portYIELD`, `InterruptYield`, `vTaskSwitchContext` |
| `vTaskStartScheduler` 1045 | `StartScheduler` |

**TimeOut** is two kinds of caller over `Locks`. A *waiter* makes a queue call
that blocks: `StartWait` enters the critical section, `CaptureOverflow` and
`CaptureTick` are the two reads of `vTaskSetTimeOutState`, `LeaveCritical`; then,
with the scheduler suspended, `xTaskCheckForTimeOut` and `Place`
(`vTaskPlaceOnEventList` for what is left), again and again until it is `Served`
or expires; `EventISR` wakes it. A *sleeper* starts from the current tick count
(`StartPeriodic`) and calls `vTaskDelayUntil` over and over. `TickISR` and
`ReplayTick` count. The delayed list is reduced to `left[t]`, the ticks until it
wakes the task, as `ExactWake` says of `Tasks`. Ghosts count without wrapping:
`gap`, ticks since a waiter's last capture; `due`, ticks until its wait is over;
`since`, ticks since a sleeper's previous wake time.

**Lifecycle** adds the memory of a task to `Tasks`. `xTaskCreate` of a running task
is `AllocateTCB`, `AllocateStack` or `StackFails`, and `Link` (the critical section
of `Tasks`), with preemption and deletion of the creator in between; a failed
first allocation changes nothing and is a stuttering step. The idle task frees
by `FreeStack` and `FreeTCB`. `vTaskList` is `StartWalk`, then per list
`SkipEmpty` or `WalkFirst` and `WalkNext`*, and `WalkEnd`; interrupts come between
any two. `vTaskEndScheduler` leads to `CleanUpOne`* and `CleanUpNextList` per list and
`CleanedUp`. A creator that is deleted loses the blocks it had not linked yet;
the ghost `lost` says which. A walk and the clean-up begin at `uxTopUsedPriority`,
which only a creation raises; `SetsAboveUsed` says whether `vTaskPrioritySet` takes a
task above it.

**PriorityInheritance** is the `configUSE_MUTEXES` build, in which a task has the
priority it uses and the one it was given. `vTaskPriorityInherit`,
`vTaskPriorityDisinherit` and the list operations of a call are operators on the
lists, the priorities and `uxTopReadyPriority`; the actions `Take`, `Wait`, `GiveUp`
and `Give` are the queue calls on a mutex, each one step, as the scheduler is
suspended or interrupts are masked inside them. `Sleep` and `Tick` stand for delays
and timeouts of any length. The ghost `settled` holds the waiters since whose
wait no priority was set and the mutex kept its holder.

**SwitchHooks** has four options, each alone in a build, as they share no variable:
`CountSlice`, `TimePasses` and `Percentage` (run-time statistics);
`vWriteTraceToBuffer`, `vTaskStartTrace`, `EndTraceStop`, `EndTraceReturn` (trace
buffer, `ulTaskEndTrace` in two steps as its return value is computed behind its critical
section); `Push`, `Pop`, `CheckStack`, `FreeStackSpace` (both stack checks and the
high water mark, on words that may or may not look like the fill);
`vTaskSetApplicationTaskTag`, `CallHookTest`, `CallHook` (the compiler may call what
was tested or read it again). Which task is selected is left open. `TagArguments` are
the tags the application sets: with or without NULL. Ghosts: `ran`, the time a task
really had; `shown`, the trace as a reader expects it; `ending[t]`, the length of the
trace that `t` has stopped and not yet returned, which a trace begun meanwhile does not
change; `called`, what hook calls went to.

Definitions commented "Mutant" are not used by the specification. Each is a
plausible slip in the code; substituted for the definition it stands beside,
it makes TLC report the property `PROJECT.json` pairs it with.

## 3. The runs

Times are for two workers.

| Run | Instance | States | What it shows |
|---|---|---|---|
| `list_heap` | one list of each kind, 3 items, values 0..2 | 217,779 | rings, cursors, counts and order survive every call with other lists in use during an ordered insertion; the pointers implement `XListSpec`; an insertion ends |
| `tasks_delay` | 2 tasks, created, deleted and suspended before the start; ticks 0..3, delays 1..3, suspend depth 2, 2 missed ticks | 267,710 | no tick lost or invented, each task wakes at exactly its tick, wake times always on the right side of the tick count |
| `tasks_control` | 2 tasks and idle, priorities 0..2, one request above the maximum | 330,502 | create, delete, suspend, resume and priority changes in any order with interrupts: the right task runs, in fair turns, counters exact |
| `tasks_events` | 2 tasks, one event list, timeouts and blocking for ever, suspended and deleted while they wait or are pending | 952,194 | posts, resumes and ticks by interrupt in every stretch of a blocking call: items well placed, event list in order, held lists untouched, nothing left behind by `xTaskResumeAll`, the right task runs |
| `tasks_live` | 2 tasks of one priority, delays 1..2 | 27,245 | every delay ends; tasks of the top priority share the processor |
| `lifecycle` | 2 tasks, priorities 0..1, created, deleted and suspended before and after the start, failing allocations, priority changes up to `uxTopUsedPriority`, walks, shutdown | 84,491 | memory always matches tasks; a walk with interrupts writes every task once; the clean-up empties its lists and frees what was on them; a deleted task's memory is freed |
| `timeouts` | a waiter, a sleeper and a third task; ticks 0..3, 2 overflow counts, gaps up to 6 | 2,982,420 | no increment of `uxSchedulerSuspended` lost; no early timeout; checks and periodic delays exact over every wrap; `Locks` implements `SchedulerHold` |
| `switch_hooks` | 2 tasks, counter modulo 8, buffers of 2, 5 and 8 words, stacks of 4 words, two tags that are exchanged but not cleared | 94,912 | statistics attribute every moment; trace and stack checks tell the truth; no hook call goes through NULL |
| `priority_inheritance` | one task each of priority 0, 1, 2, one mutex, priority changes to 1 | 23,271 | inheritance is sound; the top waiter is served whatever the middle task does |

Three further runs are expected to fail and show where the code and its comments
differ:

* `event_order_after_priority_set`: `vTaskPrioritySet` rewrites the value of an event
  item that is linked without moving it, so the event list is no longer in the
  order `xTaskRemoveFromEventList` relies on.
* `suspended_before_start`: `vTaskSuspend` before the scheduler runs switches
  context unless it is the only task; with all tasks suspended, the search for
  a ready list goes below priority 0.
* `tasks_not_listed`: `vTaskList` begins at `uxTopUsedPriority`, and only
  `xTaskGenericCreate` (493) writes it. A task that `vTaskPrioritySet` has taken above
  it, and that is ready, is not listed, though `task.h` says "all the current tasks".

Six more configurations lie beside those of the runs. Each makes TLC refute, within
seconds, the one property it names:

| Configuration | Property | The code, and the comment it differs from |
|---|---|---|
| `MCTasksDeleteEarly` | `DeletedStopped` | `vTaskDelete` before the scheduler runs, of the task `pxCurrentTCB` points to, leaves the pointer (580); that task is then started although it waits for its TCB to be freed ("This will stop the task from be scheduled", 555) |
| `MCLifecycleLeftOver` | `CleanUpFrees` | the cause of `tasks_not_listed` in `vTaskCleanUpResources` (1460): such a task stays on its list with its memory ("Remove any TCB's from the ready queues", 1462) |
| `MCSwitchHooksPercentage` | `PercentageRoundedDown` | the total is divided by 100, rounding down, before a task's counter is divided by it; all of 101 counts are printed as 101 % ("always be rounded down", 2133) |
| `MCSwitchHooksFirstLine` | `TraceComplete` | `uxPreviousTask` outlives a trace, so that a new one does not write its first task if the trace before ended with it ("which task is running when", `task.h` 1067) |
| `MCSwitchHooksEndTrace` | `EndTraceLength` | `ulTaskEndTrace` computes what it returns behind its critical section (1382); after a switch there, and a `vTaskStartTrace` by another task, it is the length of the new trace ("bytes that have been written", `task.h` 1090) |
| `MCSwitchHooksCleared` | `HookIsCallable` | `xTaskCallApplicationTaskHook` tests the tag and reads it again for the call (1578, 1580); a task that clears it in between makes it a call through NULL ("Calls the hook function associated with xTask", `task.h` 1149) |

Where one of these refutes a property a passing run checks, the difference is one
ability of the application, which the passing run leaves out: `vTaskPrioritySet` in
`tasks_events`, deletion before the start in `tasks_control`, a priority above
`uxTopUsedPriority` in `lifecycle` (`SetsAboveUsed`), a tag set to NULL in `switch_hooks`
(`TagArguments`). The theorems assume it away too, by name.

**Bounds.** Two tasks besides the idle task give every pair interaction (equal
priority, above, below; one current and one waiting), and the idle task is a
third ready one. Ticks 0..3 with delays 1..3 put a wake time on either side of
the tick count and make it wrap repeatedly; two missed ticks let a replay pass
the wrap with a task due at each. Suspend depth 2 has an inner and an outer
`xTaskResumeAll`; once they nest, a deeper level behaves as the inner one.
Three items make a ring with a first, a middle and a last. `MaxSuspendDepth` and
`MaxMissedTicks` only limit how far the environment goes: guards of
`vTaskSuspendAll` and `TickISR`. Task symmetry is used in safety runs only.
`CHECK_DEADLOCK FALSE` is set where `fault` (a task suspended before the start, see
above) or the end of the scheduler ends the run: `tasks_delay`, `lifecycle` and
`suspended_before_start`;
`tasks_control`, `tasks_events` and `tasks_live` look for deadlock. `tasks_delay` also
has the deleted task of `MCTasksDeleteEarly` run, which spoils none of its properties.

In `timeouts` gaps go up to 6 and a period is 4, so a caller may look so late that
its tick count has come round: such a check may miss a timeout that is due, but is
never early, and `CheckExact` speaks of gaps up to one period only. A wait of 3
is `portMAX_DELAY`, for ever. In `lifecycle` ticks are off (time adds nothing to
memory); a creator that is deleted half-way while a *third* task is made needs
three tasks: `HeapMatches` holds in that instance too (430,449 states;
not part of the runs because of its time). `switch_hooks` has a counter modulo 8, so
that it wraps; `MCSwitchHooksPercentage` one modulo 256 and the code's hundred.
`priority_inheritance` sets priorities to 1 only; with {0, 2} (120,730 states), and
with two tasks of one priority and all of 0..2 to set (316,081 and 146,488 states),
`InheritanceSound` holds as well.

**Fairness** (liveness runs only). `vTaskStartScheduler` is called and a masked
loop goes on: weak. The tick keeps firing and a pending switch is taken; a task
that is current again and again finishes the call it is in, and gives the
scheduler back: strong, as a masked loop disables these steps now and then.
Nothing is assumed of what the application calls. In `ListHeap` only the task
inside `vListInsert` is assumed to go on. `MaxMissedTicks` does not make
a fair tick vacuous in `tasks_live`: the scheduler is always resumed there.
`LifeFairSpec` assumes the same of the start, the switch and the masked loops,
and that a walk and the idle task's freeing go on if they get to run again and
again: strong, for the same reason. `MemoryIsFreed` is conditional on the idle
task getting to run again and again, since a higher-priority task may lawfully
starve it. In `PriorityInheritance` the port switches when asked and the tick
keeps firing (weak), a sleep ends (weak, per task), and a task that is current
again and again goes on with its mutex or gives it back (strong). That a holder
gives its mutex back at all is the application's duty, and the premise of any
claim about waiting. Safety runs assume no fairness.

**Observations** made on the way, which no run fails on:

* `vTaskList` only suspends the scheduler, though its comment speaks of disabled
  interrupts; as interrupts use `xPendingReadyList` meanwhile the walk is sound
  (`ListedOnce`), but it turns the `pxIndex` of the round robin.
* The trace buffer never uses its last lines.
* Inheritance: a task that holds two mutexes returns its loan at the first give;
  a priority set while a task holds or waits is not inherited again; a task left
  waiting when the mutex goes to another one lends the new holder nothing;
  raising the base priority of a task that uses an inherited one shows at the
  give only, and `vTaskPrioritySet` writes the event item value for the base
  while the inherited one is in use. `settled` marks these limits.

## 4. The proofs

TLAPS proves the following for every value of the constants: any number of
tasks, lists, items, priorities and queues, any tick width.

**`ListHeap_proofs`**: `TypeOK`, `LinksOK`, `CursorsOK`, `CountOK`,
`SortedLinks`, that `pxNext` from any item arrives at the list's end, and the
refinement `ImplementsXListSpec`. Assumption: `HeapAssumption` (lists and items
are distinct, items are finitely many). The inductive invariant adds two facts. `LinksOK` says links are inverse
and stay within one container; a cycle detached from its list's end would
satisfy that, and an insertion into it would break `CursorsOK`, so
`RingsAcyclic` excludes it: the nodes have positions that grow along `pxNext` up
to the end. `EndIsNext` says that an insertion of
value `portMAX_DELAY` starts at the last node, where the loop would not stop.

The refinement rests on `Reads`: following `pxNext` from `xListEnd` visits the
ring of a list state, `pxIndex`, `uxNumberOfItems`, containers and values say the
same, and that state is well formed. `LinkReads`, `UnlinkReads` and
`SetIndexReads` show that each pointer manipulation keeps it, with the list
operator of `XList` applied to the state; `StopsInPlace` that the loop of
`vListInsert` stops where `InsertPosition` says, which needs `SortedLinks` for
every earlier item and `EndIsNext` for the largest value. `ReadOffIsRead` shows
that the mapping, a walk of `uxNumberOfItems` hops, gives exactly the state the
pointers stand for. Statements about every hop are proved by the smallest hop for
which they fail. `InsertBegin` and `InsertStep` map to stuttering steps. With
`ListsImplemented` the operators the scheduler is modelled with stand for the
code of `list.c`. The step from `vListInsert` as many steps to the one step in
`Tasks` rests on what `ListHeap` states: nobody else uses the list meanwhile.

**`XList_proofs`** (lemmas only): each list operator keeps `ListsOK` (container
and ring agree, no duplicates, cursor in range) and moves just the one
item; removal and ordered insertion keep a list in order. `Tasks_proofs` sees
lists through these lemmas alone.

**`Tasks_proofs`**: `TypeOK`, `ListsAgree`, `Placement`, `Accounting`,
`DeletedStopped`, `TopReadyBound` as invariants and `SuspendAllHoldsCPU` as an
action property. Assumptions: `TasksAssumption`, `MaxDelayAssumption`,
`NullAssumption`, and that main() deletes no task before it starts the
scheduler (`"DeleteBeforeStart" \notin Calls`): this is the defect of
`MCTasksDeleteEarly`, and with it `DeletedStopped` is false. `TopReadyBound`
also needs that none is suspended then: the defect of `suspended_before_start`.
The inductive invariant `IInv` adds to the stated ones:

* `LabelsOK`: only the current task can be inside the part of a call that holds
  the scheduler; what the idle task saw on the termination list is still there;
  `reaped` is set exactly between its critical section and `prvDeleteTCB`.
* `KernelOK`: how the masked loops, the suspension depth and the label of the
  current task go together - a replay never meets a suspended scheduler.
* `CurrentOK`: the current task is on its ready list unless it has taken itself
  off in the call it is in, or its yield is outstanding. Without this a
  delete or suspend of "another" task could be of the one that is blocked.
* `IdleOK`: the idle task is always on the list of priority 0, which is why the
  search ends.
* `BeforeOK`: before the scheduler runs no call is in progress.
* `TopOK`: `uxTopReadyPriority` bounds the priority of every ready *task*;
  `TopReadyBound` follows with `ListsAgree`.

There is one lemma per action. Most use `MoveInv` (one task goes from list to
list and the current one is not affected) or `LeaveInv` (the current task
leaves the ready lists). Every lemma about lists is about `Relocated`: the two
items of one task have new containers and all others keep theirs.

**`Deferred_proofs`**: what is put off, what is announced, what is kept in order.
All of it needs the assumption on `"DeleteBeforeStart"`.

* `NothingLeftBehind`, `LockedListsHeld` and `TicksKept`. `Deferred` adds to
  `IInv` that, whenever the scheduler is not suspended and `xTaskResumeAll` is
  not in its loops, nothing is pending and no tick or yield is outstanding, and
  that nothing is pending any more when ticks are replayed. `TicksKept` compares
  tick counts modulo a period: its lemmas are arithmetic on whole periods.
* `HighestRuns`. The statement speaks of stable boundaries only, so `Highest`
  says what holds between them: `uxTopReadyPriority` is the priority of the
  current task unless a switch is `Announced` - by the port's pending yield, by
  `xMissedYield`, by `xYieldRequired` of `xTaskResumeAll`, by a tick in progress,
  or by the label of a call that has its yield still to make. It assumes that main()
  suspends nothing before the start either: a `vTaskSuspend` of the
  only task then leaves `uxTopReadyPriority` behind, and the next
  `xTaskCreate` does not lower it.
* `DelayedWindow` (each delayed list in order and on its side of the tick
  count), `ExactWake`, and `EventListsSorted`. `Kept` says that a list filled by
  `vListInsert` only loses items or stays as it is; every action keeps both kinds
  of list in this sense, except the blocking calls, for which `Joined` and `Waits`
  describe the one insertion. `Window` adds to `DelayedWindow` that the tick
  count is zero before the scheduler runs; that a wake time never equals the
  current tick is what makes `ExactWake` follow. `EventListsInOrder` also
  assumes that nobody calls `vTaskPrioritySet`: the defect of
  `event_order_after_priority_set`.
* `FairShare`. `Turn` counts how far an item is ahead of `pxIndex`, going round.
  `NoLater` says that it gets no further, or the item leaves the list; each list
  operation has a lemma about it (`LaterRemove`, `LaterInsertEnd`, ...), each call
  composes them, and a task that is made ready was on no ready list before.

**`Lifecycle_proofs`**: `HeapMatches`, `ListedOnce` and `CleanUpFrees`, also with
no task deleted before the start. The last two also assume that `vTaskPrioritySet`
takes no task above `uxTopUsedPriority`: then `TopUsedOK` is inductive, no priority in
use is above it; otherwise `tasks_not_listed` and `MCLifecycleLeftOver` refute them. Every step of `Lifecycle` is a step of
`Tasks`, or moves a `pxIndex`, or comes after the end of the scheduler, so `IInv`
carries over (`DeadOK` is what is left of it once TCBs are freed one by one). The
invariant `LifeInv` adds three parts, which TLC checked before they were proved:
`MemoryOK` (only the task the idle task is freeing may lack its stack), `WalkOK` and
`CleanOK`. `PartWalked` is the heart of `WalkOK`: the tasks between the one after
`pxFirstTCB` and the one `pxIndex` points to, going round, are written once,
and the rest of the list not yet. The walk stops at its first task again, so all
are written wherever `pxIndex` stood when it began.

**`PriorityInheritance_proofs`**: every call is a composition of helpers that
`Place` one task, and `KernelOK` holds of each record on the way, not only of
the states between calls. `PrioritiesReturn` (a task is off its own priority only
while it holds a mutex, is on the ready list of the priority it uses or on
none, and is not ready while it waits) holds for any number of mutexes;
`InheritanceHolds` is `InheritanceSound` for one mutex: with two, a holder drops
to its own priority at the first give, below who still waits for the other one.

**`SwitchHooks_proofs`**: `RunTimeExact`, `TraceSound`, `StackSound` and
`HookIsCallable`, for every set of builds. The facilities share only
`pxCurrentTCB`, so each has an invariant of its own. The statistics are sums modulo the
counter: `RunTimeExact` relates them to the time actually run up to whole periods.
`TraceSound` follows from `Behind`: whatever is started and stopped, at most the first
of the lines there ought to be is missing. `HookCallsHold` assumes that NULL is not among
`TagArguments` (see `MCSwitchHooksCleared`): a tag that is set stays set, so the
second read finds one too. `StackChecksHold` assumes that a stack has room for more
than the guard words: one that has not fails the check from its creation on.

**`TimeOut_proofs`**, about `Locks`: `SuspensionExact`, `MaskExact`, and that
`Locks` implements `SchedulerHold`. `LocksInv` says why the unprotected increment
is safe: a task switched out between the read and the write has read zero, and
when it is switched in again the word is zero, as a switch happens at zero only.
About `TimeOut`: every step is a step of `Locks` or leaves it alone, which carries
those properties over; then `NoEarlyTimeOut`, `CheckExact` and
`DelayUntilExact` for every tick width, every width of the overflow counter,
and unbounded gaps. `WaitInv` says that the captured time and `gap` agree up to
whole periods of both counters; `SleepInv` is the like for `xPreviousWakeTime` and
`since`. Assumptions: `LocksAssumption` and `TimeOutAssumption`.

**Model-checked only.** All liveness (`InsertTerminates`, `DelayExpires`,
`TopTasksRun`, `MemoryIsFreed`, `WaiterServed`): temporal reasoning under
fairness and `ENABLED` are out of the prover's reach.

## 5. Not modelled

* `queue.c` is not in the repository. What `tasks.c` and `task.h` say of it is
  modelled as far as the scheduler is concerned; its data is not.
* The text `vTaskList`, `vTaskGetRunTimeStats` and the trace write: formatting.
  The bytes of TCBs and stacks, `pxPortInitialiseStack` and MPU wrappers: port and
  layout, no state of the scheduler.
* The abstract scheduler model of `src/theories`: its record is that of `Tasks`
  without program counters, interrupts and loops, so an abstract copy of the same
  lists would say nothing `Tasks` does not.
* The heap proofs are proofs, and the scripts process text.
* The harness and the port contract's stubs: a scenario of the harness is one run
  of the modelled actions, and the stubs count calls. A little under a third of
  the implementation's lines is modelled; most of the rest is declarations
  and comments in headers, and the harness.
