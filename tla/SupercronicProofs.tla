-------------------------- MODULE SupercronicProofs --------------------------
(***************************************************************************)
(* Theorems about Supercronic: the composition behaves as Cron and as Main *)
(* do, so what is proved of each holds of the process, and what follows    *)
(* from both together.                                                     *)
(***************************************************************************)
EXTENDS Supercronic, TLAPS

CP == INSTANCE CronProofs
MP == INSTANCE MainProofs WITH live <- C!LiveLoops

-----------------------------------------------------------------------------
(* The theorems of the two components are about their own copies of the     *)
(* definitions.                                                             *)

LEMMA SameLoops == C!LiveLoops = CP!LiveLoops /\ C!LiveLoops' = CP!LiveLoops'
    BY DEF C!LiveLoops, CP!LiveLoops, C!Live, CP!Live, C!LoopState, CP!LoopState

LEMMA SameCronInit == C!Init => CP!Init
    BY DEF C!Init, CP!Init, C!Instant, CP!Instant, C!Zero, CP!Zero, C!NoSeries, CP!NoSeries

LEMMA SameCallerSteps ==
    /\ C!Reload <=> CP!Reload
    /\ C!NotifyExit <=> CP!NotifyExit
    /\ \A j : C!StartJob(j) <=> CP!StartJob(j)
    /\ C!Tick <=> CP!Tick
    BY DEF C!Reload, CP!Reload, C!NotifyExit, CP!NotifyExit, C!StartJob, CP!StartJob,
           C!Tick, CP!Tick, C!NoSeries, CP!NoSeries, C!loopVars, CP!loopVars,
           C!runVars, CP!runVars, C!history, CP!history

LEMMA SameNextMatch == \A j, t : C!NextMatch(j, t) = CP!NextMatch(j, t)
    BY DEF C!NextMatch, CP!NextMatch, C!Later, CP!Later, C!Earliest, CP!Earliest,
           C!Zero, CP!Zero

LEMMA SameLoopSteps == \A j : C!LoopStep(j) <=> CP!LoopStep(j)
    BY SameNextMatch
       DEF C!LoopStep, CP!LoopStep, C!ReadClock, CP!ReadClock, C!TooLate, CP!TooLate,
           C!Arm, CP!Arm, C!SelectExit, CP!SelectExit, C!SelectTimer, CP!SelectTimer,
           C!Drain, CP!Drain, C!runVars, CP!runVars, C!history, CP!history

LEMMA SameRunSteps == \A j, s : C!RunStep(j, s) <=> CP!RunStep(j, s)
    BY SameNextMatch
       DEF C!RunStep, CP!RunStep, C!BeginRun, CP!BeginRun, C!RunJob, CP!RunJob,
           C!CountResult, CP!CountResult, C!FinishRun, CP!FinishRun, C!EndRun, CP!EndRun,
           C!loopVars, CP!loopVars, C!history, CP!history

LEMMA SameMonitorSteps == \A j, s : C!MonitorStep(j, s) <=> CP!MonitorStep(j, s)
    BY SameNextMatch
       DEF C!MonitorStep, CP!MonitorStep, C!MonitorDeadline, CP!MonitorDeadline,
           C!MonitorDone, CP!MonitorDone, C!MonitorCancelled, CP!MonitorCancelled,
           C!loopVars, CP!loopVars, C!history, CP!history, C!Zero, CP!Zero

LEMMA SameMainInit == M!Init => MP!Init
    BY DEF M!Init, MP!Init, M!Empty, MP!Empty, M!Content, MP!Content, M!Valid, MP!Valid,
           M!Broken, MP!Broken

LEMMA SameMainSteps == M!MainStep <=> MP!MainStep
    BY DEF M!MainStep, MP!MainStep, M!ReadCrontab, MP!ReadCrontab, M!ReadFails, MP!ReadFails,
           M!Die, MP!Die, M!StartJob, MP!StartJob, M!RecvSignal, MP!RecvSignal,
           M!Joined, MP!Joined, M!ShutdownServer, MP!ShutdownServer, M!Return, MP!Return,
           M!procVars, MP!procVars, M!fileVars, MP!fileVars, M!Empty, MP!Empty

LEMMA SameWatcherSteps == M!WatcherStep <=> MP!WatcherStep
    BY DEF M!WatcherStep, MP!WatcherStep, M!TakeEvent, MP!TakeEvent, M!AddWatch, MP!AddWatch,
           M!AddFails, MP!AddFails, M!SendReload, MP!SendReload, M!Die, MP!Die,
           M!Running, MP!Running, M!procVars, MP!procVars, M!fileVars, MP!fileVars,
           M!Empty, MP!Empty

LEMMA SameEdits ==
    /\ M!Delete <=> MP!Delete
    /\ \A content : M!Write(content) <=> MP!Write(content)
    /\ \A content : M!Swap(content) <=> MP!Swap(content)
    /\ M!Content = MP!Content
    BY DEF M!Delete, MP!Delete, M!Write, MP!Write, M!Swap, MP!Swap, M!Running, MP!Running,
           M!procVars, MP!procVars, M!fileVars, MP!fileVars, M!Absent, MP!Absent,
           M!Unlinked, MP!Unlinked, M!Content, MP!Content, M!Valid, MP!Valid,
           M!Broken, MP!Broken

LEMMA SameKill == \A sig : M!Kill(sig) <=> MP!Kill(sig)
    BY DEF M!Kill, MP!Kill, M!Running, MP!Running, M!procVars, MP!procVars,
           M!fileVars, MP!fileVars, M!Empty, MP!Empty

LEMMA SameOutside == M!Outside <=> MP!Outside
    BY SameEdits, SameKill DEF M!Outside, MP!Outside

LEMMA SameElsewhere ==
    /\ M!RemoveOld <=> MP!RemoveOld
    /\ M!ServeFails <=> MP!ServeFails
    /\ \A j : M!LoopExits(j) <=> MP!LoopExits(j)
    BY DEF M!RemoveOld, MP!RemoveOld, M!ServeFails, MP!ServeFails, M!LoopExits, MP!LoopExits,
           M!Die, MP!Die, M!Running, MP!Running, M!procVars, MP!procVars,
           M!fileVars, MP!fileVars, M!Unlinked, MP!Unlinked

LEMMA SameMainNext == [M!Next]_(M!vars) => [MP!Next]_(MP!vars)
<1>1. M!Next => MP!Next
    BY SameMainSteps, SameWatcherSteps, SameOutside, SameElsewhere DEF M!Next, MP!Next
<1>2. UNCHANGED M!vars => UNCHANGED MP!vars
    BY DEF M!vars, MP!vars, M!procVars, MP!procVars, M!fileVars, MP!fileVars
<1>. QED BY <1>1, <1>2

-----------------------------------------------------------------------------
(* The process is a behaviour of Cron *)

LEMMA CronNext == [Next]_vars => [CP!Next]_(CP!vars)
<1> SUFFICES ASSUME [Next]_vars
             PROVE  CP!Next \/ UNCHANGED cronVars
    BY DEF cronVars, CP!vars, CP!loopVars, CP!runVars, CP!history
<1>1. CASE ReadCrontab
    BY <1>1, SameCallerSteps DEF ReadCrontab, CP!Next, CP!CallerStep
<1>2. ASSUME NEW j \in Job, StartJob(j)
      PROVE  CP!Next
    BY <1>2, SameCallerSteps DEF StartJob, CP!Next, CP!CallerStep
<1>3. CASE RecvSignal
    BY <1>3, SameCallerSteps DEF RecvSignal, CP!Next, CP!CallerStep
<1>4. CASE Tick
    BY <1>4, SameCallerSteps DEF Tick, CP!Next
<1>5. ASSUME NEW j \in Job, LoopStep(j)
      PROVE  CP!Next
    BY <1>5, SameLoopSteps DEF LoopStep, CP!Next
<1>6. ASSUME NEW j \in Job, NEW s \in Schedule[j], RunStep(j, s) \/ MonitorStep(j, s)
      PROVE  CP!Next
    BY <1>6, SameRunSteps, SameMonitorSteps DEF RunStep, MonitorStep, CP!Next
<1>. QED
    BY <1>1, <1>2, <1>3, <1>4, <1>5, <1>6
       DEF Next, MainStep, MainAlone, WatcherStep, Elsewhere, vars

\* What main does to the scheduler is what Cron allows its caller: what is
\* proved of Cron holds of the whole process.
THEOREM CronInside == Spec => CP!Spec
    BY SameCronInit, CronNext, PTL DEF Spec, Init, CP!Spec

\* Cron's invariant holds of the process.
LEMMA CronInvariant == Spec => [](CP!IInv /\ CP!MetricsAddUp)
<1>1. CP!Spec => []CP!IInv
    BY CP!Invariant, ScheduleAssumption, FlagAssumption, BoundAssumption
<1>2. CP!Spec => []CP!MetricsAddUp
    BY CP!SeriesAddUp, ScheduleAssumption, FlagAssumption, BoundAssumption
<1>. QED BY <1>1, <1>2, CronInside, PTL

-----------------------------------------------------------------------------
(* The process is a behaviour of Main *)

\* A step of a goroutine of Cron is the end of a loop, or nothing to main.
LEMMA GoroutineNext ==
    ASSUME CP!IInv, Goroutine,
           \/ Tick
           \/ \E j \in Job :
                 \/ LoopStep(j)
                 \/ \E s \in Schedule[j] : RunStep(j, s) \/ MonitorStep(j, s)
    PROVE  (\E j \in Job : M!LoopExits(j)) \/ UNCHANGED M!vars
<1>0. UNCHANGED exitCtx
    <2>1. CASE Tick
        BY <2>1 DEF Tick, C!Tick
    <2>2. ASSUME NEW j \in Job, LoopStep(j)
          PROVE  UNCHANGED exitCtx
        BY <2>2 DEF LoopStep, C!LoopStep, C!ReadClock, C!TooLate, C!Arm, C!SelectExit,
                    C!SelectTimer, C!Drain
    <2>3. ASSUME NEW j \in Job, NEW s \in Schedule[j], RunStep(j, s) \/ MonitorStep(j, s)
          PROVE  UNCHANGED exitCtx
        BY <2>3 DEF RunStep, MonitorStep, C!RunStep, C!BeginRun, C!RunJob, C!CountResult,
                    C!FinishRun, C!EndRun, C!MonitorStep, C!MonitorDeadline, C!MonitorDone
    <2>. QED BY <2>1, <2>2, <2>3
<1>1. C!LiveLoops' = C!LiveLoops => UNCHANGED M!vars
    BY <1>0 DEF Goroutine, mainVars, M!vars, M!procVars, M!fileVars
<1>2. CASE Tick
    <2>1. C!LiveLoops' = C!LiveLoops
        BY <1>2 DEF Tick, C!Tick, C!loopVars, C!LiveLoops
    <2>. QED BY <1>1, <2>1
<1>3. ASSUME NEW j \in Job, LoopStep(j)
      PROVE  M!LoopExits(j) \/ UNCHANGED M!vars
    <2>1. \/ CP!LiveLoops' = CP!LiveLoops
          \/ /\ CP!Drain(j) /\ exitCtx /\ j \in CP!LiveLoops
             /\ CP!LiveLoops' = CP!LiveLoops \ {j}
        BY <1>3, SameLoopSteps, CP!LoopsStayOrLeave,
           ScheduleAssumption, FlagAssumption, BoundAssumption DEF LoopStep
    <2>2. C!LiveLoops = CP!LiveLoops /\ C!LiveLoops' = CP!LiveLoops'
        BY SameLoops
    <2>3. CASE exitCtx /\ j \in C!LiveLoops /\ C!LiveLoops' = C!LiveLoops \ {j}
        BY <1>0, <2>3 DEF Goroutine, mainVars, M!LoopExits, M!fileVars, M!Running
    <2>. QED BY <1>1, <2>1, <2>2, <2>3
<1>4. ASSUME NEW j \in Job, NEW s \in Schedule[j], RunStep(j, s) \/ MonitorStep(j, s)
      PROVE  UNCHANGED M!vars
    <2>1. CP!LiveLoops' = CP!LiveLoops
        BY <1>4, SameRunSteps, SameMonitorSteps, CP!LoopsOutlastRuns,
           ScheduleAssumption, FlagAssumption, BoundAssumption DEF RunStep, MonitorStep
    <2>. QED BY <1>1, <2>1, SameLoops
<1>. QED BY <1>2, <1>3, <1>4

LEMMA MainNext == CP!IInv /\ [Next]_vars => [M!Next]_(M!vars)
<1> SUFFICES ASSUME CP!IInv, [Next]_vars
             PROVE  M!Next \/ UNCHANGED M!vars
    OBVIOUS
<1>1. CASE MainStep
    BY <1>1 DEF MainStep, ReadCrontab, StartJob, RecvSignal, MainAlone, M!Next, M!MainStep
<1>2. CASE WatcherStep
    BY <1>2 DEF WatcherStep, M!Next
<1>3. CASE Elsewhere
    BY <1>3 DEF Elsewhere, M!Next
<1>4. CASE \/ Tick
           \/ \E j \in Job :
                 \/ LoopStep(j)
                 \/ \E s \in Schedule[j] : RunStep(j, s) \/ MonitorStep(j, s)
    <2>1. Goroutine
        BY <1>4 DEF Tick, LoopStep, RunStep, MonitorStep
    <2>. QED BY <1>4, <2>1, GoroutineNext DEF M!Next
<1>5. CASE UNCHANGED vars
    <2>1. C!LiveLoops' = C!LiveLoops
        BY <1>5 DEF vars, cronVars, C!LiveLoops
    <2>. QED
        BY <1>5, <2>1 DEF vars, cronVars, mainVars, M!vars, M!procVars, M!fileVars
<1>. QED BY <1>1, <1>2, <1>3, <1>4, <1>5 DEF Next

\* Main's picture of the scheduler is right: a job that wg waits for leaves
\* only after notifyExit, and comes to life only when main starts it. So what
\* is proved of Main holds of the whole process.
THEOREM MainInside == Spec => MainSpec
    BY CronInvariant, MainNext, PTL DEF Spec, Init, MainSpec, M!Spec

LEMMA MainInvariant == Spec => []MP!IInv
<1>1. M!Spec => MP!Spec
    BY SameMainInit, SameMainNext, PTL DEF M!Spec, MP!Spec
<1>2. MP!Spec => []MP!IInv
    BY MP!Invariant, CrontabAssumption, FlagAssumption, BoundAssumption
<1>. QED BY <1>1, <1>2, MainInside, PTL DEF MainSpec

-----------------------------------------------------------------------------
(* What follows from both *)

\* A job none of whose loops is live has no run in progress.
LEMMA NoLoopsNoRuns ==
    ASSUME CP!IInv, C!LiveLoops = {}, NEW j \in Job
    PROVE  CP!Active(j) = {}
<1>1. loop[j] \in {"off", "done"}
    BY DEF C!LiveLoops, C!Live, C!LoopState, CP!LoopState, CP!IInv, CP!TypeOK
<1>. QED BY <1>1 DEF CP!IInv, CP!Drained

LEMMA SameActive == \A j : C!Active(j) = CP!Active(j)
    BY DEF C!Active, CP!Active, C!Underway, CP!Underway, C!Gauged, CP!Gauged

\* An exit with status 0 finds no job live.
ExitInv == main = "exited" /\ status = 0 => C!LiveLoops = {}

LEMMA ExitInit == Init => ExitInv
    BY DEF Init, M!Init, ExitInv

LEMMA ExitNext == MP!IInv /\ ExitInv /\ [M!Next]_(M!vars) => ExitInv'
<1> SUFFICES ASSUME MP!IInv, ExitInv, [M!Next]_(M!vars)
             PROVE  ExitInv'
    OBVIOUS
<1>1. CASE M!Return
    BY <1>1 DEF M!Return, ExitInv, MP!IInv, MP!OneGeneration
<1>2. CASE M!ReadFails \/ M!AddFails \/ M!ServeFails
    BY <1>2 DEF M!ReadFails, M!AddFails, M!ServeFails, M!Die, ExitInv
<1>3. CASE UNCHANGED M!vars
    BY <1>3 DEF M!vars, M!procVars, ExitInv
<1>4. CASE main' # "exited"
    BY <1>4 DEF ExitInv
<1>. QED
    BY <1>1, <1>2, <1>3, <1>4
       DEF M!Next, M!MainStep, M!ReadCrontab, M!StartJob, M!RecvSignal, M!Joined,
           M!ShutdownServer, M!WatcherStep, M!TakeEvent, M!AddWatch, M!SendReload,
           M!RemoveOld, M!Outside, M!Delete, M!Kill, M!Write, M!Swap, M!LoopExits,
           M!Running, M!procVars

\* No command outlives a clean exit (main.go:268-287, integration/test.bats:82).
THEOREM CleanExitJoins == Spec => []ExitsWithoutRuns
<1>1. Spec => []ExitInv
    BY ExitInit, ExitNext, MainInvariant, MainInside, PTL DEF Spec, MainSpec, M!Spec
<1>2. CP!IInv /\ MP!IInv /\ ExitInv => ExitsWithoutRuns
    BY NoLoopsNoRuns, SameActive DEF ExitInv, ExitsWithoutRuns, MP!IInv, MP!OneGeneration
<1>. QED BY <1>1, <1>2, CronInvariant, MainInvariant, PTL

\* No series is reset while a run is still to be counted in it.
THEOREM CompleteSeriesReset == Spec => []ResetsCompleteSeries
<1>1. CP!IInv /\ CP!MetricsAddUp /\ MP!IInv => ResetsCompleteSeries
    <2>. SUFFICES ASSUME CP!IInv, CP!MetricsAddUp, MP!IInv, main = "read", NEW j \in Job
                  PROVE  /\ metrics[j].running = 0
                         /\ metrics[j].executions = metrics[j].successes + metrics[j].failures
                         /\ metrics[j].executions = metrics[j].timings
        BY DEF ResetsCompleteSeries
    <2>1. CP!Active(j) = {}
        BY NoLoopsNoRuns DEF MP!IInv, MP!OneGeneration
    <2>. QED
        BY <2>1, CP!CompleteWhenIdle, ScheduleAssumption, FlagAssumption, BoundAssumption
           DEF CP!IInv
<1>. QED BY <1>1, CronInvariant, MainInvariant, PTL

\* Only jobs of the crontab in use are started.
THEOREM ListedJobsStart == Spec => StartsListedJobs
<1>1. MP!IInv => [\A j \in Job : C!SelectTimer(j) => j \in tab]_vars
    <2>. SUFFICES ASSUME MP!IInv, NEW j \in Job, C!SelectTimer(j)
                  PROVE  j \in tab
        OBVIOUS
    <2>1. j \in C!LiveLoops
        BY DEF C!SelectTimer, C!LiveLoops, C!Live, C!LoopState
    <2>. QED BY <2>1 DEF MP!IInv, MP!OneGeneration
<1>. QED BY <1>1, MainInvariant, PTL DEF StartsListedJobs
=============================================================================
