------------------------- MODULE SwitchHooks_proofs -------------------------
(***************************************************************************)
(* Proofs about SwitchHooks, for every set of builds and any counter,      *)
(* buffer, stack and number of tasks.                                      *)
(*                                                                         *)
(* The facilities share only pxCurrentTCB, so each has an inductive        *)
(* invariant of its own: StatsInv, TraceInv, StackInv and TagInv.  A step  *)
(* of one facility leaves the variables of the others alone.               *)
(***************************************************************************)
EXTENDS SwitchHooks, SequenceTheorems, TLAPS, WellFoundedInduction

\* What every step keeps of the variables all the facilities read.
SwitchInv == pxCurrentTCB \in Tasks

\* The current task is always one of the tasks.
LEMMA SwitchKept == SwitchInv /\ [Next]_hookVars => SwitchInv'
<1> SUFFICES ASSUME SwitchInv, [Next]_hookVars PROVE SwitchInv'
  OBVIOUS
<1> USE DEF SwitchInv, switchVars
<1>1. ASSUME NEW t \in Tasks, vTaskSwitchContext(t) PROVE SwitchInv'
  BY <1>1 DEF vTaskSwitchContext
<1>2. CASE UNCHANGED switchVars
  BY <1>2
<1>3. CASE SuspendOrResume
  BY <1>3 DEF SuspendOrResume
<1>4. QED
  BY <1>1, <1>2, <1>3 DEF Next, TimePasses, vTaskStartTrace, EndTraceStop,
     EndTraceReturn, Tick, Push, Pop, vTaskSetApplicationTaskTag, CallHookTest,
     CallHook, hookVars

-----------------------------------------------------------------------------
(* Counting modulo M.                                                      *)

\* The sums and the difference modulo M of two numbers below M, spelled out.
LEMMA ModFacts ==
  ASSUME NEW M \in Nat \ {0}, NEW a \in 0 .. M - 1, NEW b \in 0 .. M - 1
  PROVE  /\ (a + b) % M = IF a + b < M THEN a + b ELSE a + b - M
         /\ (a - b) % M = IF b <= a THEN a - b ELSE a - b + M
         /\ (a + 1) % M = IF a = M - 1 THEN 0 ELSE a + 1
<1>1. ASSUME NEW q \in Int, NEW r \in 0 .. M - 1
      PROVE  (M * q + r) % M = r
  BY <1>1
<1>2. (a + b) % M = IF a + b < M THEN a + b ELSE a + b - M
  <2>1. CASE a + b < M
    BY <1>1, <2>1, M * 0 + (a + b) = a + b, a + b \in 0 .. M - 1
  <2>2. CASE ~ (a + b < M)
    BY <1>1, <2>2, M * 1 + (a + b - M) = a + b, a + b - M \in 0 .. M - 1
  <2>3. QED
    BY <2>1, <2>2
<1>3. (a - b) % M = IF b <= a THEN a - b ELSE a - b + M
  <2>1. CASE b <= a
    BY <1>1, <2>1, M * 0 + (a - b) = a - b, a - b \in 0 .. M - 1
  <2>2. CASE ~ (b <= a)
    BY <1>1, <2>2, M * (-1) + (a - b + M) = a - b, a - b + M \in 0 .. M - 1
  <2>3. QED
    BY <2>1, <2>2
<1>4. (a + 1) % M = IF a = M - 1 THEN 0 ELSE a + 1
  <2>1. CASE a = M - 1
    BY <1>1, <2>1, M * 1 + 0 = a + 1, 0 \in 0 .. M - 1
  <2>2. CASE a # M - 1
    BY <1>1, <2>2, M * 0 + (a + 1) = a + 1, a + 1 \in 0 .. M - 1
  <2>3. QED
    BY <2>1, <2>2
<1>5. QED
  BY <1>2, <1>3, <1>4

-----------------------------------------------------------------------------
(* Run-time statistics                                                     *)

Counts == 0 .. CounterModulus - 1

StatsTypeOK ==
  /\ ulTime \in Counts /\ ulTaskSwitchedInTime \in Counts
  /\ ulRunTimeCounter \in [Tasks -> Counts] /\ ran \in [Tasks -> Counts]
  /\ wrapped \in BOOLEAN

StatsInv == SwitchInv /\ StatsTypeOK /\ RunTimeExact

\* The constants of the statistics.
LEMMA StatsFacts ==
  /\ CounterModulus \in Nat \ {0} /\ Hundred \in Nat \ {0}
  /\ 0 \in Counts /\ Counts \subseteq Nat
BY SwitchHooksAssumption DEF Counts

\* While the current task runs on ...
LEMMA TimeStats ==
  ASSUME StatsInv, TimePasses
  PROVE  StatsTypeOK' /\ RunTimeExact'
<1> DEFINE c == pxCurrentTCB
           M == CounterModulus
<1>1. /\ M \in Nat \ {0} /\ Counts = 0 .. M - 1
      /\ c \in Tasks /\ ulTime \in Counts /\ ulTaskSwitchedInTime \in Counts
      /\ ulRunTimeCounter \in [Tasks -> Counts] /\ ran \in [Tasks -> Counts]
      /\ wrapped \in BOOLEAN
  BY StatsFacts DEF StatsInv, SwitchInv, StatsTypeOK, Counts
<1>2. /\ ulTime' = (ulTime + 1) % M
      /\ ran' = [ran EXCEPT ![c] = (ran[c] + 1) % M]
      /\ wrapped' = (wrapped \/ ulTime = M - 1)
      /\ UNCHANGED <<build, pxCurrentTCB, ulTaskSwitchedInTime, ulRunTimeCounter>>
  BY DEF TimePasses, switchVars
<1>3. RunTimeExact /\ Built("stats")
  BY DEF StatsInv, TimePasses
<1> HIDE DEF M, c
<1>4. ulTime' = IF ulTime = M - 1 THEN 0 ELSE ulTime + 1
  BY <1>1, <1>2, ModFacts
<1>5. /\ ulTime' \in Counts /\ ran' \in [Tasks -> Counts] /\ wrapped' \in BOOLEAN
  BY <1>1, <1>2, <1>4
<1>6. StatsTypeOK'
  BY <1>1, <1>2, <1>5 DEF StatsTypeOK
<1>7. RunTimeExact'
  <2> DEFINE n == ulRunTimeCounter[c]
             s == (ulTime - ulTaskSwitchedInTime) % M
             u == (ulTime' - ulTaskSwitchedInTime) % M
  <2>1. n \in Counts /\ s \in Counts /\ u \in Counts
    <3>1. \A d \in Int : d % M \in 0 .. M - 1
      BY <1>1
    <3>2. /\ ulTime - ulTaskSwitchedInTime \in Int
          /\ ulTime' - ulTaskSwitchedInTime \in Int
      BY <1>1, <1>5
    <3>3. QED
      BY <1>1, <3>1, <3>2
  <2>2. ran[c] = (n + s) % M
    BY <1>1, <1>3 DEF RunTimeExact, Slice, M, c
  <2>3. s = IF ulTaskSwitchedInTime <= ulTime THEN ulTime - ulTaskSwitchedInTime
            ELSE ulTime - ulTaskSwitchedInTime + M
    BY <1>1, ModFacts
  <2>4. u = IF ulTaskSwitchedInTime <= ulTime' THEN ulTime' - ulTaskSwitchedInTime
            ELSE ulTime' - ulTaskSwitchedInTime + M
    BY <1>1, <1>5, ModFacts
  <2>5. u = IF s = M - 1 THEN 0 ELSE s + 1
    BY <1>1, <1>4, <2>3, <2>4
  <2> HIDE DEF n, s, u
  <2>6. /\ (n + s) % M = IF n + s < M THEN n + s ELSE n + s - M
        /\ (n + u) % M = IF n + u < M THEN n + u ELSE n + u - M
    BY <1>1, <2>1, ModFacts
  <2>7. ran[c] \in Counts /\ ran'[c] = IF ran[c] = M - 1 THEN 0 ELSE ran[c] + 1
    BY <1>1, <1>2, ModFacts
  <2>8. ran'[c] = (n + u) % M
    BY <1>1, <2>1, <2>2, <2>5, <2>6, <2>7
  <2>9. ASSUME NEW t \in Tasks, t # c PROVE ran'[t] = ulRunTimeCounter[t]
    BY <1>1, <1>2, <1>3, <2>9 DEF RunTimeExact, c
  <2>10. QED
    BY <1>2, <2>8, <2>9 DEF RunTimeExact, Slice, n, u, M, c
<1>8. QED
  BY <1>6, <1>7

\* ... and when another one is selected.
LEMMA SwitchStats ==
  ASSUME StatsInv, Built("stats"), NEW next \in Tasks, vTaskSwitchContext(next)
  PROVE  StatsTypeOK' /\ RunTimeExact'
<1> DEFINE c == pxCurrentTCB
           M == CounterModulus
<1>1. /\ M \in Nat \ {0} /\ Counts = 0 .. M - 1
      /\ c \in Tasks /\ ulTime \in Counts /\ ulTaskSwitchedInTime \in Counts
      /\ ulRunTimeCounter \in [Tasks -> Counts] /\ ran \in [Tasks -> Counts]
      /\ wrapped \in BOOLEAN
  BY StatsFacts DEF StatsInv, SwitchInv, StatsTypeOK, Counts
<1>2. /\ ulRunTimeCounter' = [ulRunTimeCounter EXCEPT
                                ![c] = (ulRunTimeCounter[c] + Slice) % M]
      /\ ulTaskSwitchedInTime' = ulTime /\ pxCurrentTCB' = next
      /\ UNCHANGED <<build, ulTime, ran, wrapped>>
  BY DEF vTaskSwitchContext, CountSlice
<1>3. RunTimeExact
  BY DEF StatsInv
<1>4. Slice' = 0
  BY <1>1, <1>2, ModFacts DEF Slice
<1>5. ulRunTimeCounter'[c] = ran[c]
  BY <1>1, <1>2, <1>3 DEF RunTimeExact
<1> HIDE DEF M, c
<1>6. \A t \in Tasks : ulRunTimeCounter'[t] = ran[t]
  BY <1>1, <1>2, <1>3, <1>5 DEF RunTimeExact, c
<1>7. StatsTypeOK'
  <2>1. ulRunTimeCounter' \in [Tasks -> Counts]
    BY <1>1, <1>2, <1>5
  <2>2. QED
    BY <1>1, <1>2, <2>1 DEF StatsTypeOK
<1>8. RunTimeExact'
  <2>1. ASSUME NEW t \in Tasks
        PROVE  (ulRunTimeCounter'[t] + Slice') % M = ran[t]
    <3>1. ran[t] \in 0 .. M - 1 /\ 0 \in 0 .. M - 1
      BY <1>1
    <3>2. (ran[t] + 0) % M = IF ran[t] + 0 < M THEN ran[t] + 0
                             ELSE ran[t] + 0 - M
      BY <1>1, <3>1, ModFacts
    <3>3. (ran[t] + 0) % M = ran[t]
      BY <1>1, <3>1, <3>2
    <3>4. QED
      BY <1>4, <1>6, <3>3
  <2>2. QED
    BY <1>2, <1>6, <2>1 DEF RunTimeExact, M
<1>9. QED
  BY <1>7, <1>8

\* Initially no time has passed.
LEMMA InitStats == Init => StatsInv
<1> SUFFICES ASSUME Init PROVE StatsInv
  OBVIOUS
<1>1. SwitchInv /\ StatsTypeOK
  BY StatsFacts DEF Init, SwitchInv, StatsTypeOK
<1>2. Slice = 0 /\ (0 + 0) % CounterModulus = 0
  BY StatsFacts, ModFacts DEF Init, Slice, Counts
<1>3. RunTimeExact
  BY <1>1, <1>2 DEF Init, RunTimeExact, SwitchInv
<1>4. QED
  BY <1>1, <1>3 DEF StatsInv

\* The other facilities leave the statistics alone.
LEMMA NextStats == StatsInv /\ [Next]_hookVars => StatsInv'
<1> SUFFICES ASSUME StatsInv, [Next]_hookVars PROVE StatsInv'
  OBVIOUS
<1>0. SwitchInv'
  BY SwitchKept DEF StatsInv
<1>1. CASE TimePasses
  BY <1>0, <1>1, TimeStats DEF StatsInv
<1>2. ASSUME NEW t \in Tasks, vTaskSwitchContext(t) PROVE StatsInv'
  <2>1. CASE Built("stats")
    BY <1>0, <1>2, <2>1, SwitchStats DEF StatsInv
  <2>2. CASE ~ Built("stats")
    BY <1>0, <1>2, <2>2 DEF vTaskSwitchContext, statsVars, StatsInv, StatsTypeOK,
       RunTimeExact, Built
  <2>3. QED
    BY <2>1, <2>2
<1>3. CASE UNCHANGED <<build, pxCurrentTCB, statsVars>>
  BY <1>0, <1>3 DEF statsVars, StatsInv, StatsTypeOK, RunTimeExact,
     Built, Slice
<1>4. QED
  BY <1>1, <1>2, <1>3 DEF Next, SuspendOrResume, vTaskStartTrace, EndTraceStop,
     EndTraceReturn, Tick, Push, Pop, vTaskSetApplicationTaskTag, CallHookTest,
     CallHook, hookVars, switchVars

\* Every tick of the hardware counter is attributed to the task that had the
\* processor, for every width of the counter and across its wraps.
THEOREM StatisticsHold == Spec => []RunTimeExact
<1>1. StatsInv => RunTimeExact
  BY DEF StatsInv
<1>2. QED
  BY <1>1, InitStats, NextStats, PTL DEF Spec

-----------------------------------------------------------------------------
(* The trace buffer                                                        *)

TraceTypeOK ==
  /\ xTickCount \in Nat /\ pcTraceBuffer \in Nat /\ ulBufferSize \in Nat
  /\ trace \in Seq(Nat \X Tasks) /\ shown \in Seq(Nat \X Tasks)
  /\ xTracing \in BOOLEAN /\ ending \in [Tasks -> Nat \cup {None}]

\* At most the first line is missing.
Behind == trace = shown \/ trace = SubSeq(shown, 2, Len(shown))

\* While a trace runs uxPreviousTask is the task of the last line there ought to
\* be; before there is any it is that of the trace before.
TraceFollows ==
  xTracing =>
    \/ shown = << >> /\ trace = << >>
    \/ shown # << >> /\ uxPreviousTask = shown[Len(shown)][2] /\ Behind

TraceInv == SwitchInv /\ TraceTypeOK /\ TraceInBuffer /\ TraceFollows

\* A line appended behind the first one is appended to what follows it.
LEMMA AppendBehind ==
  ASSUME NEW S, NEW s \in Seq(S), s # << >>, NEW e \in S
  PROVE  /\ Append(s, e) # << >> /\ Append(s, e)[1] = s[1]
         /\ Append(s, e)[Len(Append(s, e))] = e
         /\ Append(SubSeq(s, 2, Len(s)), e)
              = SubSeq(Append(s, e), 2, Len(Append(s, e)))
<1> DEFINE n == Len(s)
           u == Append(s, e)
           r == SubSeq(s, 2, n)
           v == SubSeq(u, 2, n + 1)
<1>1. n \in Nat \ {0} /\ \A i \in 1 .. n : s[i] \in S
  BY EmptySeq, LenProperties
<1>2. /\ u \in Seq(S) /\ u # << >> /\ Len(u) = n + 1 /\ u[n + 1] = e
      /\ \A i \in 1 .. n : u[i] = s[i]
  BY AppendProperties
<1>3. \A i \in 1 .. n + 1 : u[i] \in S
  BY <1>1, <1>2
<1> HIDE DEF n, u
<1>4. /\ r \in Seq(S) /\ Len(r) = n - 1
      /\ \A i \in 1 .. n - 1 : r[i] = s[i + 1]
  <2>1. \A i \in 2 .. n : s[i] \in S
    BY <1>1
  <2>2. /\ r \in Seq(S) /\ Len(r) = IF 2 <= n THEN n - 2 + 1 ELSE 0
        /\ \A i \in 1 .. n - 2 + 1 : r[i] = s[2 + i - 1]
    BY <1>1, <2>1, 2 \in Int, n \in Int, SubSeqProperties
  <2>3. QED
    BY <1>1, <2>2
<1>5. /\ v \in Seq(S) /\ Len(v) = n
      /\ \A i \in 1 .. n : v[i] = u[i + 1]
  <2>1. \A i \in 2 .. n + 1 : u[i] \in S
    BY <1>1, <1>3
  <2>2. /\ v \in Seq(S) /\ Len(v) = IF 2 <= n + 1 THEN n + 1 - 2 + 1 ELSE 0
        /\ \A i \in 1 .. n + 1 - 2 + 1 : v[i] = u[2 + i - 1]
    BY <1>1, <2>1, 2 \in Int, n + 1 \in Int, SubSeqProperties
  <2>3. QED
    BY <1>1, <2>2
<1> HIDE DEF r, v
<1>6. /\ Append(r, e) \in Seq(S) /\ Len(Append(r, e)) = n
      /\ \A i \in 1 .. n - 1 : Append(r, e)[i] = r[i]
      /\ Append(r, e)[n] = e
  BY <1>1, <1>4, AppendProperties
<1>7. \A i \in 1 .. n : Append(r, e)[i] = v[i]
  <2>1. ASSUME NEW i \in 1 .. n - 1 PROVE Append(r, e)[i] = v[i]
    BY <1>1, <1>2, <1>4, <1>5, <1>6
  <2>2. Append(r, e)[n] = v[n]
    BY <1>1, <1>2, <1>5, <1>6
  <2>3. \A i \in 1 .. n : i \in 1 .. n - 1 \/ i = n
    BY <1>1
  <2>4. QED
    BY <2>1, <2>2, <2>3
<1>8. Append(r, e) = v
  BY <1>5, <1>6, <1>7, SeqEqual
<1>9. u[1] = s[1]
  BY <1>1, <1>2
<1>10. QED
  BY <1>2, <1>8, <1>9 DEF n, u, r, v

\* A single line follows none.
LEMMA FirstLine ==
  ASSUME NEW S, NEW e \in S
  PROVE  /\ Append(<< >>, e) # << >> /\ Len(Append(<< >>, e)) = 1
         /\ Append(<< >>, e)[1] = e
         /\ SubSeq(Append(<< >>, e), 2, Len(Append(<< >>, e))) = << >>
<1>1. << >> \in Seq(S) /\ Len(<< >>) = 0
  BY EmptySeq
<1>2. /\ Append(<< >>, e) # << >> /\ Len(Append(<< >>, e)) = 1
      /\ Append(<< >>, e)[1] = e
  BY <1>1, AppendProperties
<1>3. QED
  BY <1>2, SubSeqEmpty, 2 \in Int, 1 \in Int, 1 < 2

\* Selecting a task goes on with the trace, or stops it.
LEMMA SwitchTrace ==
  ASSUME TraceInv, NEW t \in Tasks, vTaskSwitchContext(t)
  PROVE  TraceTypeOK' /\ TraceInBuffer' /\ TraceFollows'
<1> DEFINE e == <<xTickCount, t>>
<1>1. /\ xTickCount \in Nat /\ pcTraceBuffer \in Nat /\ ulBufferSize \in Nat
      /\ trace \in Seq(Nat \X Tasks) /\ shown \in Seq(Nat \X Tasks)
      /\ xTracing \in BOOLEAN /\ e \in Nat \X Tasks /\ e[2] = t
      /\ Len(trace) \in Nat
  BY LenProperties DEF TraceInv, TraceTypeOK
<1>2. UNCHANGED <<xTickCount, ulBufferSize, ending>>
  BY DEF vTaskSwitchContext
<1>3. CASE ~ Built("trace")
  <2>1. UNCHANGED <<xTracing, uxPreviousTask, trace, pcTraceBuffer, shown>>
    BY <1>3 DEF vTaskSwitchContext
  <2>2. QED
    BY <1>2, <2>1 DEF TraceInv, TraceTypeOK, TraceInBuffer, TraceFollows, Behind
<1>4. CASE Built("trace")
  <2>1. vWriteTraceToBuffer(t) /\ Show(t)
    BY <1>4 DEF vTaskSwitchContext
  <2>2. shown' \in Seq(Nat \X Tasks)
    BY <1>1, <2>1, AppendProperties DEF Show
  <2>3. CASE ~ xTracing
    <3>1. UNCHANGED <<xTracing, uxPreviousTask, trace, pcTraceBuffer>>
      BY <2>1, <2>3 DEF vWriteTraceToBuffer
    <3>2. QED
      BY <1>2, <2>2, <2>3, <3>1 DEF TraceInv, TraceTypeOK, TraceInBuffer,
         TraceFollows
  <2>4. CASE xTracing /\ uxPreviousTask # t
             /\ ~ (pcTraceBuffer + LineWords < pcTraceBufferEnd)
    <3>1. xTracing' = FALSE /\ UNCHANGED <<uxPreviousTask, trace, pcTraceBuffer>>
      BY <2>1, <2>4 DEF vWriteTraceToBuffer
    <3>2. QED
      BY <1>2, <2>2, <3>1 DEF TraceInv, TraceTypeOK, TraceInBuffer, TraceFollows
  <2>5. CASE xTracing /\ uxPreviousTask = t
    <3>1. UNCHANGED <<xTracing, uxPreviousTask, trace, pcTraceBuffer>>
      BY <2>1, <2>5 DEF vWriteTraceToBuffer
    <3>2. TraceTypeOK' /\ TraceInBuffer'
      BY <1>2, <2>2, <3>1 DEF TraceInv, TraceTypeOK, TraceInBuffer
    <3>3. CASE shown # << >> /\ uxPreviousTask = shown[Len(shown)][2] /\ Behind
      <4>1. shown' = shown
        BY <2>1, <2>5, <3>3 DEF Show
      <4>2. QED
        BY <1>2, <3>1, <3>2, <3>3, <4>1 DEF TraceFollows, Behind
    <3>4. CASE shown = << >> /\ trace = << >>
      <4>1. shown' = Append(<< >>, e)
        BY <2>1, <2>5, <3>4 DEF Show
      <4>2. /\ shown' # << >> /\ Len(shown') = 1 /\ shown'[1] = e
            /\ SubSeq(shown', 2, Len(shown')) = << >>
        BY <1>1, <4>1, FirstLine
      <4>3. uxPreviousTask' = shown'[Len(shown')][2]
        BY <1>1, <2>5, <3>1, <4>2
      <4>4. Behind'
        BY <3>1, <3>4, <4>2 DEF Behind
      <4>5. QED
        BY <3>2, <4>2, <4>3, <4>4 DEF TraceFollows
    <3>5. QED
      BY <2>5, <3>3, <3>4 DEF TraceInv, TraceFollows
  <2>6. CASE xTracing /\ uxPreviousTask # t
             /\ pcTraceBuffer + LineWords < pcTraceBufferEnd
    <3>1. /\ xTracing' = xTracing /\ uxPreviousTask' = t /\ trace' = Append(trace, e)
          /\ pcTraceBuffer' = pcTraceBuffer + LineWords
      BY <2>1, <2>6 DEF vWriteTraceToBuffer
    <3>2. trace' \in Seq(Nat \X Tasks) /\ Len(trace') = Len(trace) + 1
      BY <1>1, <3>1, AppendProperties
    <3>3. TraceTypeOK'
      BY <1>1, <1>2, <2>2, <3>1, <3>2 DEF TraceInv, TraceTypeOK, LineWords
    <3>4. TraceInBuffer'
      <4>1. pcTraceBuffer = 2 * Len(trace)
        BY DEF TraceInv, TraceInBuffer, LineWords
      <4>2. /\ pcTraceBuffer' = 2 * Len(trace')
            /\ pcTraceBuffer' <= ulBufferSize
        BY <1>1, <2>6, <3>1, <3>2, <4>1, 2 * (Len(trace) + 1) = 2 * Len(trace) + 2
           DEF LineWords, pcTraceBufferEnd
      <4>3. QED
        BY <1>2, <4>2 DEF TraceInBuffer, LineWords
    <3>5. CASE shown = << >> /\ trace = << >>
      <4>1. shown' = Append(<< >>, e) /\ trace' = shown'
        BY <2>1, <2>6, <3>1, <3>5 DEF Show
      <4>2. shown' # << >> /\ uxPreviousTask' = shown'[Len(shown')][2]
        BY <1>1, <3>1, <4>1, FirstLine
      <4>3. QED
        BY <3>3, <3>4, <4>1, <4>2 DEF TraceFollows, Behind
    <3>6. CASE shown # << >> /\ uxPreviousTask = shown[Len(shown)][2] /\ Behind
      <4>1. shown' = Append(shown, e)
        BY <2>1, <2>6, <3>6 DEF Show
      <4>2. /\ shown' # << >> /\ shown'[Len(shown')] = e
            /\ Append(SubSeq(shown, 2, Len(shown)), e)
                 = SubSeq(shown', 2, Len(shown'))
        BY <1>1, <3>6, <4>1, AppendBehind
      <4>3. uxPreviousTask' = shown'[Len(shown')][2]
        BY <1>1, <3>1, <4>2
      <4>4. Behind'
        BY <1>2, <2>6, <3>1, <3>6, <4>1, <4>2 DEF Behind
      <4>5. QED
        BY <3>3, <3>4, <4>2, <4>3, <4>4 DEF TraceFollows
    <3>7. QED
      BY <2>6, <3>5, <3>6 DEF TraceInv, TraceFollows
  <2>7. QED
    BY <1>1, <2>3, <2>4, <2>5, <2>6
<1>5. QED
  BY <1>3, <1>4

\* Initially there is no trace.
LEMMA InitTrace == Init => TraceInv
<1> SUFFICES ASSUME Init PROVE TraceInv
  OBVIOUS
<1>1. << >> \in Seq(Nat \X Tasks) /\ Len(<< >>) = 0
  BY EmptySeq
<1>2. TraceTypeOK
  BY <1>1 DEF Init, TraceTypeOK
<1>3. TraceInBuffer
  BY <1>1 DEF Init, TraceInBuffer, LineWords
<1>4. QED
  BY <1>1, <1>2, <1>3 DEF Init, TraceInv, SwitchInv, TraceFollows

\* Traces are started, stopped and measured by anyone at any time.
LEMMA NextTrace == TraceInv /\ [Next]_hookVars => TraceInv'
<1> SUFFICES ASSUME TraceInv, [Next]_hookVars
             PROVE  TraceTypeOK' /\ TraceInBuffer' /\ TraceFollows'
  BY SwitchKept DEF TraceInv
<1>1. ASSUME NEW t \in Tasks, vTaskSwitchContext(t)
      PROVE  TraceTypeOK' /\ TraceInBuffer' /\ TraceFollows'
  BY <1>1, SwitchTrace
<1>2. ASSUME NEW size \in BufferSizes, vTaskStartTrace(size)
      PROVE  TraceTypeOK' /\ TraceInBuffer' /\ TraceFollows'
  <2>1. << >> \in Seq(Nat \X Tasks) /\ Len(<< >>) = 0
    BY EmptySeq
  <2>2. size \in Nat
    BY SwitchHooksAssumption
  <2>3. QED
    BY <1>2, <2>1, <2>2 DEF vTaskStartTrace, TraceInv, TraceTypeOK, TraceInBuffer,
       TraceFollows, LineWords
<1>3. CASE EndTraceStop
  <2>1. Len(trace) \in Nat /\ LineWords * Len(trace) \in Nat
    BY LenProperties DEF TraceInv, TraceTypeOK, LineWords
  <2>2. /\ xTracing' = FALSE
        /\ ending' = [ending EXCEPT ![pxCurrentTCB] = LineWords * Len(trace)]
        /\ UNCHANGED <<xTickCount, pcTraceBuffer, ulBufferSize, trace, shown>>
    BY <1>3 DEF EndTraceStop
  <2>3. TraceTypeOK'
    BY <2>1, <2>2 DEF TraceInv, SwitchInv, TraceTypeOK
  <2>4. TraceInBuffer'
    BY <2>1, <2>2 DEF TraceInv, SwitchInv, TraceTypeOK, TraceInBuffer
  <2>5. QED
    BY <2>2, <2>3, <2>4 DEF TraceFollows
<1>4. CASE EndTraceReturn
  BY <1>4 DEF EndTraceReturn, TraceInv, TraceTypeOK, TraceInBuffer, TraceFollows,
     Behind
<1>5. CASE Tick
  <2>1. TickModulus \in Nat \ {0}
    BY SwitchHooksAssumption
  <2>2. xTickCount' \in Nat
    BY <1>5, <2>1 DEF Tick, TraceInv, TraceTypeOK
  <2>3. QED
    BY <1>5, <2>2 DEF Tick, TraceInv, TraceTypeOK, TraceInBuffer, TraceFollows,
       Behind
<1>6. CASE UNCHANGED traceVars
  BY <1>6 DEF traceVars, TraceInv, TraceTypeOK, TraceInBuffer, TraceFollows,
     Behind
<1>7. QED
  BY <1>1, <1>2, <1>3, <1>4, <1>5, <1>6 DEF Next, SuspendOrResume, TimePasses,
     Push, Pop, vTaskSetApplicationTaskTag, CallHookTest, CallHook, hookVars

\* A sequence without its first element, or with it, is what follows an index.
LEMMA Suffixes ==
  ASSUME NEW S, NEW s \in Seq(S), s # << >>
  PROVE  /\ s = SubSeq(s, 1, Len(s))
         /\ SubSeq(s, 2, Len(s)) # << >> => 2 \in 1 .. Len(s)
<1>1. Len(s) \in Nat \ {0} /\ \A i \in 1 .. Len(s) : s[i] \in S
  BY EmptySeq, LenProperties
<1>2. /\ SubSeq(s, 1, Len(s)) \in Seq(S) /\ Len(SubSeq(s, 1, Len(s))) = Len(s)
      /\ \A i \in 1 .. Len(s) : SubSeq(s, 1, Len(s))[i] = s[i]
  BY <1>1, 1 \in Int, Len(s) \in Int, SubSeqProperties
<1>3. s = SubSeq(s, 1, Len(s))
  BY <1>2, SeqEqual
<1>4. Len(s) < 2 => SubSeq(s, 2, Len(s)) = << >>
  BY <1>1, SubSeqEmpty, 2 \in Int, Len(s) \in Int
<1>5. QED
  BY <1>1, <1>3, <1>4

\* A trace never leaves its buffer, says how long it is, and misses no switch
\* behind its first line, for every size of the buffer and however its starts
\* and stops interleave.
THEOREM TraceHolds == Spec => []TraceSound
<1>1. TraceInv => TraceSound
  <2> SUFFICES ASSUME TraceInv, xTracing, trace # << >>
               PROVE  \E n \in 1 .. Len(shown) : trace = SubSeq(shown, n, Len(shown))
    BY DEF TraceInv, TraceSound, TraceTells
  <2>1. shown # << >> /\ Behind /\ shown \in Seq(Nat \X Tasks)
    BY DEF TraceInv, TraceFollows, TraceTypeOK
  <2>2. /\ shown = SubSeq(shown, 1, Len(shown)) /\ 1 \in 1 .. Len(shown)
        /\ trace = SubSeq(shown, 2, Len(shown)) => 2 \in 1 .. Len(shown)
    BY <2>1, Suffixes, EmptySeq, LenProperties
  <2>3. QED
    BY <2>1, <2>2 DEF Behind
<1>2. QED
  BY <1>1, InitTrace, NextTrace, PTL DEF Spec

-----------------------------------------------------------------------------
(* Stacks                                                                  *)

Words == 1 .. StackWords

StackTypeOK ==
  /\ used \in [Tasks -> 1 .. StackWords + 1]
  /\ deepest \in [Tasks -> 1 .. StackWords + 1]
  /\ written \in [Tasks -> SUBSET Words]

\* No stack, and no mark on one, is deeper than the deepest there has been.
Bottomed ==
  \A t \in Tasks : /\ used[t] <= deepest[t]
                   /\ \A w \in written[t] : w <= deepest[t]

StackInv == SwitchInv /\ StackTypeOK /\ Bottomed /\ OverflowReported

\* The constants of the stacks.
LEMMA StackFacts == StackWords \in Nat \ {0} /\ GuardWords \in 1 .. StackWords
BY SwitchHooksAssumption

\* A stack that fails a check has been down to the guard words.
LEMMA OverflowIsDeep ==
  ASSUME StackInv, NEW t \in Tasks, Overflows(t)
  PROVE  deepest[t] > StackWords - GuardWords
<1>1. /\ used[t] \in Nat /\ deepest[t] \in Nat /\ written[t] \subseteq Nat
      /\ used[t] <= deepest[t] /\ \A w \in written[t] : w <= deepest[t]
  BY StackFacts DEF StackInv, StackTypeOK, Bottomed, Words
<1>2. CASE used[t] >= StackWords
  BY <1>1, <1>2, StackFacts
<1>3. ASSUME NEW w \in written[t] \cap Extremity
      PROVE  deepest[t] > StackWords - GuardWords
  BY <1>1, <1>3, StackFacts DEF Extremity
<1>4. QED
  BY <1>2, <1>3 DEF Overflows

\* The switch checks the stack of the task it leaves.
LEMMA SwitchStack ==
  ASSUME StackInv, NEW next \in Tasks, vTaskSwitchContext(next)
  PROVE  StackTypeOK' /\ Bottomed' /\ OverflowReported'
<1>1. UNCHANGED <<build, used, written, deepest>> /\ pxCurrentTCB' = next
  BY DEF vTaskSwitchContext, CheckStack, stackVars
<1>2. StackTypeOK' /\ Bottomed'
  BY <1>1 DEF StackInv, StackTypeOK, Bottomed
<1>3. CASE ~ Built("stack")
  BY <1>1, <1>2, <1>3 DEF OverflowReported, Built
<1>4. CASE Built("stack")
  <2>1. overflowed' = IF Overflows(pxCurrentTCB)
                      THEN overflowed \cup {pxCurrentTCB} ELSE overflowed
    BY <1>4 DEF vTaskSwitchContext, CheckStack
  <2>2. ASSUME NEW t \in Tasks, Overflows(t) PROVE t \in overflowed'
    <3>1. CASE t = pxCurrentTCB
      BY <2>1, <2>2, <3>1
    <3>2. CASE t # pxCurrentTCB
      BY <1>4, <2>1, <2>2, <3>2 DEF StackInv, OverflowReported, Overflows
    <3>3. QED
      BY <3>1, <3>2
  <2>3. ASSUME NEW t \in Tasks, t \in overflowed'
        PROVE  deepest[t] > StackWords - GuardWords
    <3>1. CASE t \in overflowed
      BY <1>4, <3>1 DEF StackInv, OverflowReported
    <3>2. CASE t \notin overflowed
      BY <2>1, <2>3, <3>2, OverflowIsDeep
    <3>3. QED
      BY <3>1, <3>2
  <2>4. QED
    BY <1>1, <1>2, <2>2, <2>3 DEF OverflowReported, Overflows, Extremity
<1>5. QED
  BY <1>3, <1>4

\* A push deepens the stack of the current task only.
LEMMA PushStack ==
  ASSUME StackInv, NEW visible \in BOOLEAN, Push(visible)
  PROVE  StackTypeOK' /\ Bottomed' /\ OverflowReported'
<1> DEFINE c == pxCurrentTCB
<1>1. /\ c \in Tasks /\ used[c] <= StackWords
      /\ used' = [used EXCEPT ![c] = used[c] + 1]
      /\ deepest' = [deepest EXCEPT ![c] = IF used[c] + 1 > deepest[c]
                                           THEN used[c] + 1 ELSE deepest[c]]
      /\ written' = IF used[c] = StackWords THEN written
                    ELSE [written EXCEPT ![c] = IF visible
                                                THEN written[c] \cup {used[c] + 1}
                                                ELSE written[c] \ {used[c] + 1}]
      /\ UNCHANGED <<build, pxCurrentTCB, overflowed>>
  BY DEF Push, StackInv, SwitchInv, switchVars
<1>2. /\ used \in [Tasks -> 1 .. StackWords + 1]
      /\ deepest \in [Tasks -> 1 .. StackWords + 1]
      /\ written \in [Tasks -> SUBSET Words] /\ StackWords \in Nat
  BY StackFacts DEF StackInv, StackTypeOK
<1> HIDE DEF c
<1>3. used[c] \in 1 .. StackWords /\ deepest[c] \in 1 .. StackWords + 1
  BY <1>1, <1>2
<1>4. StackTypeOK'
  <2>1. used' \in [Tasks -> 1 .. StackWords + 1]
    BY <1>1, <1>2, <1>3
  <2>2. deepest' \in [Tasks -> 1 .. StackWords + 1]
    BY <1>1, <1>2, <1>3
  <2>3. used[c] # StackWords => used[c] + 1 \in Words
    BY <1>2, <1>3 DEF Words
  <2>4. written' \in [Tasks -> SUBSET Words]
    BY <1>1, <1>2, <2>3
  <2>5. QED
    BY <2>1, <2>2, <2>4 DEF StackTypeOK
<1>5. deepest'[c] >= deepest[c] /\ deepest'[c] >= used[c] + 1
  BY <1>1, <1>2, <1>3
<1>6. \A t \in Tasks : t # c => /\ used'[t] = used[t] /\ deepest'[t] = deepest[t]
                                /\ written'[t] = written[t]
  BY <1>1, <1>2
<1>7. Bottomed'
  <2>1. \A w \in written[c] : w \in Nat /\ w <= deepest[c]
    BY <1>1, <1>2 DEF StackInv, Bottomed, Words
  <2>2. \A w \in written'[c] : w \in written[c] \/ w = used[c] + 1
    BY <1>1, <1>2
  <2>3. \A w \in written'[c] : w <= deepest'[c]
    BY <1>3, <1>4, <1>5, <2>1, <2>2, <1>1 DEF StackTypeOK
  <2>4. used'[c] <= deepest'[c]
    BY <1>1, <1>2, <1>5
  <2>5. QED
    BY <1>6, <2>3, <2>4 DEF StackInv, Bottomed
<1>8. OverflowReported'
  <2>1. Built("stack") /\ OverflowReported
    BY DEF Push, StackInv
  <2>2. c \in overflowed => deepest'[c] > StackWords - GuardWords
    <3>1. c \in overflowed => deepest[c] > StackWords - GuardWords
      BY <1>1, <2>1 DEF OverflowReported
    <3>2. deepest'[c] \in Nat
      BY <1>1, <1>4 DEF StackTypeOK
    <3>3. QED
      BY <1>3, <1>5, <3>1, <3>2, StackFacts
  <2>3. QED
    BY <1>1, <1>6, <2>1, <2>2 DEF OverflowReported, c, Built
<1>9. QED
  BY <1>4, <1>7, <1>8

\* A pop leaves the marks where they are.
LEMMA PopStack ==
  ASSUME StackInv, Pop
  PROVE  StackTypeOK' /\ Bottomed' /\ OverflowReported'
<1> DEFINE c == pxCurrentTCB
<1>1. /\ c \in Tasks /\ used[c] > 1 /\ used' = [used EXCEPT ![c] = used[c] - 1]
      /\ UNCHANGED <<build, pxCurrentTCB, written, deepest, overflowed>>
  BY DEF Pop, StackInv, SwitchInv, switchVars
<1>2. /\ used \in [Tasks -> 1 .. StackWords + 1] /\ StackWords \in Nat
      /\ deepest \in [Tasks -> 1 .. StackWords + 1]
  BY StackFacts DEF StackInv, StackTypeOK
<1> HIDE DEF c
<1>3. /\ used' \in [Tasks -> 1 .. StackWords + 1] /\ used'[c] <= used[c]
      /\ \A t \in Tasks : t # c => used'[t] = used[t]
  BY <1>1, <1>2
<1>4. StackTypeOK'
  BY <1>1, <1>3 DEF StackInv, StackTypeOK
<1>5. Bottomed'
  <2>1. used'[c] <= deepest[c]
    BY <1>1, <1>2, <1>3 DEF StackInv, Bottomed
  <2>2. QED
    BY <1>1, <1>3, <2>1 DEF StackInv, Bottomed
<1>6. OverflowReported'
  BY <1>1, <1>3 DEF StackInv, OverflowReported, Built, c
<1>7. QED
  BY <1>4, <1>5, <1>6

\* Initially one word of each stack is in use, and that is not a guard word.
LEMMA InitStack ==
  ASSUME GuardWords < StackWords
  PROVE  Init => StackInv
<1> SUFFICES ASSUME Init PROVE StackInv
  OBVIOUS
<1>1. StackTypeOK
  BY StackFacts DEF Init, StackTypeOK, Words
<1>2. Bottomed
  BY DEF Init, Bottomed
<1>3. \A t \in Tasks : t # pxCurrentTCB /\ Overflows(t) => t \in overflowed
  <2>1. 1 \notin Extremity /\ ~ (1 >= StackWords)
    BY StackFacts DEF Extremity
  <2>2. \A t \in Tasks : used[t] = 1 /\ written[t] = {1}
    BY DEF Init
  <2>3. QED
    BY <2>1, <2>2 DEF Overflows
<1>4. QED
  BY <1>1, <1>2, <1>3, StackFacts DEF Init, StackInv, SwitchInv, OverflowReported,
     Extremity, Overflows

\* The other facilities leave the stacks alone.
LEMMA NextStack == StackInv /\ [Next]_hookVars => StackInv'
<1> SUFFICES ASSUME StackInv, [Next]_hookVars
             PROVE  StackTypeOK' /\ Bottomed' /\ OverflowReported'
  BY SwitchKept DEF StackInv
<1>1. ASSUME NEW t \in Tasks, vTaskSwitchContext(t)
      PROVE  StackTypeOK' /\ Bottomed' /\ OverflowReported'
  BY <1>1, SwitchStack
<1>2. ASSUME NEW visible \in BOOLEAN, Push(visible)
      PROVE  StackTypeOK' /\ Bottomed' /\ OverflowReported'
  BY <1>2, PushStack
<1>3. CASE Pop
  BY <1>3, PopStack
<1>4. CASE UNCHANGED <<build, pxCurrentTCB, stackVars>>
  BY <1>4 DEF stackVars, StackInv, StackTypeOK, Bottomed, OverflowReported, Built
<1>5. QED
  BY <1>1, <1>2, <1>3, <1>4 DEF Next, SuspendOrResume, TimePasses,
     vTaskStartTrace, EndTraceStop, EndTraceReturn, Tick,
     vTaskSetApplicationTaskTag, CallHookTest, CallHook, hookVars, switchVars

\* A set of words has a last one.
LEMMA LastWord ==
  ASSUME NEW W, W \subseteq Words, W # {}
  PROVE  \E m \in W : \A w \in W : w <= m
<1> DEFINE U == {n \in Nat : \A w \in W : w <= n}
<1>1. W \subseteq Nat \ {0} /\ StackWords \in U
  BY StackFacts DEF Words
<1>2. U \subseteq Nat /\ U # {}
  BY <1>1
<1> HIDE DEF U
<1>3. PICK m \in U : \A n \in U : ~ (<<n, m>> \in OpToRel(<, Nat))
  BY <1>2, NatLessThanWellFounded, WFMin
<1>4. \A n \in U : ~ (n < m)
  BY <1>2, <1>3 DEF OpToRel
<1>5. m \in Nat /\ \A w \in W : w <= m
  BY <1>2, <1>3 DEF U
<1>6. m \in W
  <2>1. SUFFICES ASSUME m \notin W PROVE FALSE
    OBVIOUS
  <2>2. \A w \in W : w <= m - 1
    BY <1>1, <1>5, <2>1
  <2>3. m - 1 \in Nat
    <3>1. PICK w \in W : w \in Nat \ {0} /\ w <= m - 1
      BY <1>1, <2>2
    <3>2. QED
      BY <1>5, <3>1
  <2>4. m - 1 \in U
    BY <2>2, <2>3 DEF U
  <2>5. QED
    BY <1>4, <1>5, <2>3, <2>4
<1>7. QED
  BY <1>5, <1>6

\* What usTaskCheckFreeStackSpace counts ends at the last word written.
LEMMA FreeSpaceIs ==
  ASSUME StackTypeOK, NEW t \in Tasks
  PROVE  /\ FreeStackSpace(t) \in 0 .. StackWords
         /\ \A w \in written[t] : w <= StackWords - FreeStackSpace(t)
         /\ FreeStackSpace(t) < StackWords
              => StackWords - FreeStackSpace(t) \in written[t]
<1> DEFINE Ends(n) == /\ \A w \in written[t] : w <= StackWords - n
                      /\ n < StackWords => StackWords - n \in written[t]
<1>1. written[t] \subseteq Words
  BY DEF StackTypeOK
<1>2. \E n \in 0 .. StackWords : Ends(n)
  <2>1. CASE written[t] = {}
    BY <2>1, StackFacts
  <2>2. CASE written[t] # {}
    <3>1. PICK m \in written[t] : \A w \in written[t] : w <= m
      BY <1>1, <2>2, LastWord
    <3>2. m \in Words /\ StackWords - m \in 0 .. StackWords
          /\ StackWords - (StackWords - m) = m
      BY <1>1, <3>1, StackFacts DEF Words
    <3>3. Ends(StackWords - m)
      BY <3>1, <3>2
    <3>4. QED
      BY <3>2, <3>3
  <2>3. QED
    BY <2>1, <2>2
<1>3. FreeStackSpace(t) = CHOOSE n \in 0 .. StackWords : Ends(n)
  BY DEF FreeStackSpace
<1> HIDE DEF Ends
<1>4. FreeStackSpace(t) \in 0 .. StackWords /\ Ends(FreeStackSpace(t))
  BY <1>2, <1>3
<1>5. QED
  BY <1>4 DEF Ends

\* A task is reported when, and only when, the checks can tell that its stack
\* was down to the guard words; the high water mark never reports less room
\* than there was at the worst, and exactly that room if the mark there shows.
\* A stack that has no room but the guard words fails the checks when its task
\* is created, and is not reported before that task has run: the assumption.
THEOREM StackChecksHold ==
  ASSUME GuardWords < StackWords
  PROVE  Spec => []StackSound
<1>1. StackInv => StackSound
  <2> SUFFICES ASSUME StackInv PROVE HighWaterMark
    BY DEF StackSound, StackInv
  <2> SUFFICES ASSUME NEW t \in Tasks
               PROVE  /\ FreeStackSpace(t) >= StackWords - deepest[t]
                      /\ deepest[t] \in written[t]
                           => FreeStackSpace(t) = StackWords - deepest[t]
    BY DEF HighWaterMark
  <2>1. /\ deepest[t] \in Nat \ {0} /\ StackWords \in Nat
        /\ \A w \in written[t] : w \in Nat /\ w <= deepest[t]
    BY StackFacts DEF StackInv, StackTypeOK, Bottomed, Words
  <2>2. /\ FreeStackSpace(t) \in 0 .. StackWords
        /\ \A w \in written[t] : w <= StackWords - FreeStackSpace(t)
        /\ FreeStackSpace(t) < StackWords
             => StackWords - FreeStackSpace(t) \in written[t]
    BY FreeSpaceIs DEF StackInv
  <2>3. QED
    BY <2>1, <2>2
<1>2. QED
  BY <1>1, InitStack, NextStack, PTL DEF Spec

-----------------------------------------------------------------------------
(* Task tags                                                               *)

TagTypeOK ==
  /\ pxTaskTag \in [Tasks -> Tags \cup {None}]
  /\ calling \in [Tasks -> Tasks \cup {None}]
  /\ tested \in [Tasks -> Tags \cup {None}]

\* A call in progress has found a tag, and there still is one.
TagStands ==
  \A t \in Tasks :
    calling[t] # None => tested[t] # None /\ pxTaskTag[calling[t]] # None

TagInv == SwitchInv /\ TagTypeOK /\ TagStands /\ HookIsCallable

\* Initially there are no tags.
LEMMA InitTag == Init => TagInv
BY DEF Init, TagInv, SwitchInv, TagTypeOK, TagStands, HookIsCallable

\* A tag may change between the two reads of a call, but not to NULL.
LEMMA NextTag ==
  ASSUME None \notin TagArguments
  PROVE  TagInv /\ [Next]_hookVars => TagInv'
<1> SUFFICES ASSUME TagInv, [Next]_hookVars
             PROVE  TagTypeOK' /\ TagStands' /\ HookIsCallable'
  BY SwitchKept DEF TagInv
<1> DEFINE c == pxCurrentTCB
<1>0. /\ c \in Tasks /\ None \notin Tasks /\ TagArguments \subseteq Tags
      /\ pxTaskTag \in [Tasks -> Tags \cup {None}]
      /\ calling \in [Tasks -> Tasks \cup {None}]
      /\ tested \in [Tasks -> Tags \cup {None}]
      /\ TagStands /\ HookIsCallable
  BY SwitchHooksAssumption DEF TagInv, SwitchInv, TagTypeOK
<1>1. ASSUME NEW x \in Tasks, NEW tag \in TagArguments,
             vTaskSetApplicationTaskTag(x, tag)
      PROVE  TagTypeOK' /\ TagStands' /\ HookIsCallable'
  <2>1. /\ pxTaskTag' = [pxTaskTag EXCEPT ![x] = tag] /\ tag # None
        /\ UNCHANGED <<calling, tested, called>>
    BY <1>1 DEF vTaskSetApplicationTaskTag
  <2>2. TagTypeOK' /\ HookIsCallable'
    BY <1>0, <2>1 DEF TagTypeOK, HookIsCallable
  <2>3. TagStands'
    BY <1>0, <2>1 DEF TagStands
  <2>4. QED
    BY <2>2, <2>3
<1>2. ASSUME NEW x \in Tasks, CallHookTest(x)
      PROVE  TagTypeOK' /\ TagStands' /\ HookIsCallable'
  <2>1. /\ calling' = [calling EXCEPT ![c] = x] /\ pxTaskTag[x] # None
        /\ tested' = [tested EXCEPT ![c] = pxTaskTag[x]]
        /\ UNCHANGED <<pxTaskTag, called>> /\ pxTaskTag[x] \in Tags \cup {None}
    BY <1>0, <1>2 DEF CallHookTest
  <2> HIDE DEF c
  <2>2. TagTypeOK' /\ HookIsCallable'
    BY <1>0, <2>1 DEF TagTypeOK, HookIsCallable
  <2>3. TagStands'
    BY <1>0, <2>1 DEF TagStands
  <2>4. QED
    BY <2>2, <2>3
<1>3. ASSUME NEW f \in Tags \cup {None}, CallHook(f)
      PROVE  TagTypeOK' /\ TagStands' /\ HookIsCallable'
  <2>1. /\ calling[c] # None /\ (f = tested[c] \/ f = pxTaskTag[calling[c]])
        /\ calling' = [calling EXCEPT ![c] = None]
        /\ called' = called \cup {f}
        /\ UNCHANGED <<pxTaskTag, tested>>
    BY <1>3 DEF CallHook, HookToCall
  <2> HIDE DEF c
  <2>2. TagTypeOK' /\ TagStands'
    BY <1>0, <2>1 DEF TagTypeOK, TagStands
  <2>3. f # None
    BY <1>0, <2>1 DEF TagStands
  <2>4. HookIsCallable'
    BY <1>0, <2>1, <2>3 DEF HookIsCallable
  <2>5. QED
    BY <2>2, <2>4
<1>4. CASE UNCHANGED tagVars
  BY <1>4 DEF tagVars, TagInv, TagTypeOK, TagStands, HookIsCallable
<1>5. QED
  BY <1>1, <1>2, <1>3, <1>4 DEF Next, vTaskSwitchContext, SuspendOrResume,
     TimePasses, vTaskStartTrace, EndTraceStop, EndTraceReturn, Tick, Push, Pop,
     hookVars

\* As long as no tag is set back to NULL, no hook call goes through NULL, for
\* tasks that have a tag and tasks that have none, whoever sets tags between
\* the two reads of a call.  With NULL among the arguments it is not so.
THEOREM HookCallsHold ==
  ASSUME None \notin TagArguments
  PROVE  Spec => []HookIsCallable
<1>1. TagInv => HookIsCallable
  BY DEF TagInv
<1>2. QED
  BY <1>1, InitTag, NextTag, PTL DEF Spec
=============================================================================
