-------------------------------- MODULE Cron --------------------------------
(***************************************************************************)
(* The scheduler of cron/cron.go: for every job a loop goroutine           *)
(* (startFunc), a goroutine or a call per run of the job (runThisJob), and *)
(* a goroutine per run that watches for missed deadlines (monitorJob).     *)
(*                                                                         *)
(* A run is identified by the instant t0 it was scheduled for.  The        *)
(* command of a job is a step that succeeds or fails.                      *)
(***************************************************************************)
EXTENDS Integers, FiniteSets

CONSTANTS
    Job,            \* the jobs of the crontab
    Schedule,       \* the instants that each job's expression matches
    Overlapping,    \* the -overlapping flag
    Horizon,        \* bound: the clock stops there
    MaxDeadlines    \* bound: deadlines counted for one job between resets

\* Instants are positive: 0 is the zero value of time.Time.
ASSUME ScheduleAssumption == Schedule \in [Job -> SUBSET (Nat \ {0})]
ASSUME OverlappingAssumption == Overlapping \in BOOLEAN
ASSUME BoundAssumption == Horizon \in Nat \ {0} /\ MaxDeadlines \in Nat

VARIABLES
    now,        \* the wall clock, time.Now()
    exitCtx,    \* TRUE once notifyExit() has been called
    wg,         \* counter of the caller's WaitGroup
    loop,       \* where the loop goroutine of each job is
    nextRun,    \* the variable nextRun of each loop
    jobWg,      \* counter of each loop's WaitGroup
    run,        \* where the run of each instant is
    watching,   \* the instants whose monitorJob goroutine is alive
    deadline,   \* the variable t of each monitorJob
    metrics,    \* the Prometheus series of each job
    last,       \* history: the latest instant started
    freed       \* history: when the job was handed over, or last became free

loopVars == <<wg, loop, nextRun, jobWg>>
runVars  == <<run, watching, deadline>>
history  == <<last, freed>>
vars     == <<now, exitCtx, loopVars, runVars, metrics, history>>

-----------------------------------------------------------------------------
(* Time *)

Zero == 0

Instant == UNION {Schedule[j] : j \in Job}

Later(j, t) == {s \in Schedule[j] : s > t}

Earliest(S) == CHOOSE s \in S : \A u \in S : s <= u

NextMatchInclusive(j, t) ==
    LET reached == {s \in Schedule[j] : s >= t}
    IN  IF t = Zero \/ reached = {} THEN Zero ELSE Earliest(reached)

\* What a job's expression answers: the first match after t, or the zero
\* time when there is none or t is the zero time itself.
NextMatch(j, t) ==
    IF t = Zero \/ Later(j, t) = {} THEN Zero ELSE Earliest(Later(j, t))

-----------------------------------------------------------------------------
(* States *)

LoopState == {"off", "new", "next", "select", "call", "drain", "done"}

RunState == {"none", "begin", "exec", "ok", "err", "counted", "observed", "ended"}

Live == LoopState \ {"off", "done"}

\* The window in which the gauge counts a run, and the one in which the
\* job's WaitGroup does.
Gauged == {"exec", "ok", "err", "counted"}
Underway == Gauged \cup {"begin", "observed"}

LiveLoops == {j \in Job : loop[j] \in Live}

Active(j) == {s \in Schedule[j] : run[j][s] \in Underway}

NoSeries == [running |-> 0, executions |-> 0, successes |-> 0, failures |-> 0,
             deadlines |-> 0, timings |-> 0]

Init ==
    /\ now = 1
    /\ exitCtx = FALSE
    /\ wg = 0
    /\ loop = [j \in Job |-> "off"]
    /\ nextRun = [j \in Job |-> Zero]
    /\ jobWg = [j \in Job |-> 0]
    /\ run = [j \in Job |-> [s \in Instant |-> "none"]]
    /\ watching = [j \in Job |-> {}]
    /\ deadline = [j \in Job |-> [s \in Instant |-> Zero]]
    /\ metrics = [j \in Job |-> NoSeries]
    /\ last = [j \in Job |-> 0]
    /\ freed = [j \in Job |-> 0]

Tick ==
    /\ now < Horizon
    /\ now' = now + 1
    /\ UNCHANGED <<exitCtx, loopVars, runVars, metrics, history>>

-----------------------------------------------------------------------------
(* The caller: StartJob for the jobs of a crontab, then notifyExit, then    *)
(* wg.Wait and, when it reloads, a metrics reset and a new exit context.    *)

StartJob(j) ==
    /\ ~exitCtx
    /\ loop[j] = "off"
    /\ wg' = wg + 1
    /\ loop' = [loop EXCEPT ![j] = "new"]
    /\ freed' = [freed EXCEPT ![j] = now]
    /\ UNCHANGED <<now, exitCtx, nextRun, jobWg, runVars, metrics, last>>

NotifyExit ==
    /\ ~exitCtx
    /\ exitCtx' = TRUE
    /\ UNCHANGED <<now, loopVars, runVars, metrics, history>>

ReloadAtOnce ==
    /\ exitCtx
    /\ exitCtx' = FALSE
    /\ loop' = [j \in Job |-> "off"]
    /\ metrics' = [j \in Job |-> NoSeries]
    /\ UNCHANGED <<now, wg, nextRun, jobWg, runVars, history>>

Reload ==
    /\ exitCtx
    /\ wg = 0
    /\ exitCtx' = FALSE
    /\ loop' = [j \in Job |-> "off"]
    /\ metrics' = [j \in Job |-> NoSeries]
    /\ UNCHANGED <<now, wg, nextRun, jobWg, runVars, history>>

-----------------------------------------------------------------------------
(* The loop goroutine of startFunc *)

ReadClockAndWait(j) ==
    /\ loop[j] = "new"
    /\ loop' = [loop EXCEPT ![j] = "select"]
    /\ nextRun' = [nextRun EXCEPT ![j] = now]
    /\ UNCHANGED <<now, exitCtx, wg, jobWg, runVars, metrics, history>>

ReadClock(j) ==
    /\ loop[j] = "new"
    /\ loop' = [loop EXCEPT ![j] = "next"]
    /\ nextRun' = [nextRun EXCEPT ![j] = now]
    /\ UNCHANGED <<now, exitCtx, wg, jobWg, runVars, metrics, history>>

TooLateByOneMore(j) ==
    /\ loop[j] = "next"
    /\ NextMatch(j, nextRun[j]) < now
    /\ nextRun' = [nextRun EXCEPT ![j] = now + 1]
    /\ UNCHANGED <<now, exitCtx, wg, loop, jobWg, runVars, metrics, history>>

\* delay < 0: take the present for the previous run and try again.
TooLate(j) ==
    /\ loop[j] = "next"
    /\ NextMatch(j, nextRun[j]) < now
    /\ nextRun' = [nextRun EXCEPT ![j] = now]
    /\ UNCHANGED <<now, exitCtx, wg, loop, jobWg, runVars, metrics, history>>

ArmCatchingUp(j) ==
    /\ loop[j] = "next"
    /\ loop' = [loop EXCEPT ![j] = "select"]
    /\ nextRun' = [nextRun EXCEPT ![j] = NextMatch(j, nextRun[j])]
    /\ UNCHANGED <<now, exitCtx, wg, jobWg, runVars, metrics, history>>

Arm(j) ==
    /\ loop[j] = "next"
    /\ NextMatch(j, nextRun[j]) >= now
    /\ loop' = [loop EXCEPT ![j] = "select"]
    /\ nextRun' = [nextRun EXCEPT ![j] = NextMatch(j, nextRun[j])]
    /\ UNCHANGED <<now, exitCtx, wg, jobWg, runVars, metrics, history>>

SelectExitAnyTime(j) ==
    /\ loop[j] = "select"
    /\ loop' = [loop EXCEPT ![j] = "drain"]
    /\ UNCHANGED <<now, exitCtx, wg, nextRun, jobWg, runVars, metrics, history>>

\* The select: both of its cases can be ready at once.
SelectExit(j) ==
    /\ loop[j] = "select"
    /\ exitCtx
    /\ loop' = [loop EXCEPT ![j] = "drain"]
    /\ UNCHANGED <<now, exitCtx, wg, nextRun, jobWg, runVars, metrics, history>>

SelectTimerAlwaysGo(j) ==
    /\ loop[j] = "select"
    /\ now >= nextRun[j]
    /\ loop' = [loop EXCEPT ![j] = "next"]
    /\ jobWg' = [jobWg EXCEPT ![j] = @ + 1]
    /\ run' = [run EXCEPT ![j][nextRun[j]] = "begin"]
    /\ last' = [last EXCEPT ![j] = nextRun[j]]
    /\ UNCHANGED <<now, exitCtx, wg, nextRun, watching, deadline, metrics, freed>>

SelectTimerEarly(j) ==
    /\ loop[j] = "select"
    /\ now + 1 >= nextRun[j]
    /\ loop' = [loop EXCEPT ![j] = IF Overlapping THEN "next" ELSE "call"]
    /\ jobWg' = [jobWg EXCEPT ![j] = @ + 1]
    /\ run' = [run EXCEPT ![j][nextRun[j]] = "begin"]
    /\ last' = [last EXCEPT ![j] = nextRun[j]]
    /\ UNCHANGED <<now, exitCtx, wg, nextRun, watching, deadline, metrics, freed>>

SelectTimerSkipsBusy(j) ==
    /\ loop[j] = "select"
    /\ now >= nextRun[j]
    /\ IF jobWg[j] > 0
       THEN /\ loop' = [loop EXCEPT ![j] = "next"]
            /\ UNCHANGED <<jobWg, run, last>>
       ELSE /\ loop' = [loop EXCEPT ![j] = IF Overlapping THEN "next" ELSE "call"]
            /\ jobWg' = [jobWg EXCEPT ![j] = @ + 1]
            /\ run' = [run EXCEPT ![j][nextRun[j]] = "begin"]
            /\ last' = [last EXCEPT ![j] = nextRun[j]]
    /\ UNCHANGED <<now, exitCtx, wg, nextRun, watching, deadline, metrics, freed>>

\* The timer fires: a goroutine for the run, or a call that the loop stays in.
SelectTimer(j) ==
    /\ loop[j] = "select"
    /\ now >= nextRun[j]
    /\ loop' = [loop EXCEPT ![j] = IF Overlapping THEN "next" ELSE "call"]
    /\ jobWg' = [jobWg EXCEPT ![j] = @ + 1]
    /\ run' = [run EXCEPT ![j][nextRun[j]] = "begin"]
    /\ last' = [last EXCEPT ![j] = nextRun[j]]
    /\ UNCHANGED <<now, exitCtx, wg, nextRun, watching, deadline, metrics, freed>>

DrainWithoutWait(j) ==
    /\ loop[j] = "drain"
    /\ loop' = [loop EXCEPT ![j] = "done"]
    /\ wg' = wg - 1
    /\ UNCHANGED <<now, exitCtx, nextRun, jobWg, runVars, metrics, history>>

\* The deferred jobWg.Wait and wg.Done.
Drain(j) ==
    /\ loop[j] = "drain"
    /\ jobWg[j] = 0
    /\ loop' = [loop EXCEPT ![j] = "done"]
    /\ wg' = wg - 1
    /\ UNCHANGED <<now, exitCtx, nextRun, jobWg, runVars, metrics, history>>

-----------------------------------------------------------------------------
(* A run: runThisJob of startFunc around runThisJob of StartJob *)

BeginRun(j, s) ==
    /\ run[j][s] = "begin"
    /\ run' = [run EXCEPT ![j][s] = "exec"]
    /\ watching' = [watching EXCEPT ![j] = @ \cup {s}]
    /\ deadline' = [deadline EXCEPT ![j][s] = NextMatch(j, s)]
    /\ metrics' = [metrics EXCEPT ![j].running = @ + 1]
    /\ UNCHANGED <<now, exitCtx, loopVars, history>>

\* runJob returns nil or an error: the command could not be started, or failed.
RunJob(j, s) ==
    /\ run[j][s] = "exec"
    /\ \E result \in {"ok", "err"} : run' = [run EXCEPT ![j][s] = result]
    /\ metrics' = [metrics EXCEPT ![j].executions = @ + 1]
    /\ UNCHANGED <<now, exitCtx, loopVars, watching, deadline, history>>

CountResult(j, s) ==
    /\ run[j][s] \in {"ok", "err"}
    /\ run' = [run EXCEPT ![j][s] = "counted"]
    /\ metrics' = IF run[j][s] = "ok"
                  THEN [metrics EXCEPT ![j].successes = @ + 1]
                  ELSE [metrics EXCEPT ![j].failures = @ + 1]
    /\ UNCHANGED <<now, exitCtx, loopVars, watching, deadline, history>>

FinishRunKeepingGauge(j, s) ==
    /\ run[j][s] = "counted"
    /\ run' = [run EXCEPT ![j][s] = "observed"]
    /\ metrics' = [metrics EXCEPT ![j].timings = @ + 1]
    /\ UNCHANGED <<now, exitCtx, loopVars, watching, deadline, history>>

\* The deferred calls: ObserveDuration, cancelMonitor, Dec.
FinishRun(j, s) ==
    /\ run[j][s] = "counted"
    /\ run' = [run EXCEPT ![j][s] = "observed"]
    /\ metrics' = [metrics EXCEPT ![j].timings = @ + 1, ![j].running = @ - 1]
    /\ UNCHANGED <<now, exitCtx, loopVars, watching, deadline, history>>

EndRunOnlyIfOk(j, s) ==
    /\ run[j][s] = "observed"
    /\ run' = [run EXCEPT ![j][s] = "ended"]
    /\ jobWg' = IF metrics[j].failures > 0 THEN jobWg ELSE [jobWg EXCEPT ![j] = @ - 1]
    /\ IF Overlapping
       THEN UNCHANGED <<loop, freed>>
       ELSE /\ loop' = [loop EXCEPT ![j] = "next"]
            /\ freed' = [freed EXCEPT ![j] = now]
    /\ UNCHANGED <<now, exitCtx, wg, nextRun, watching, deadline, metrics, last>>

\* The deferred jobWg.Done; without overlapping the loop gets control back.
EndRun(j, s) ==
    /\ run[j][s] = "observed"
    /\ run' = [run EXCEPT ![j][s] = "ended"]
    /\ jobWg' = [jobWg EXCEPT ![j] = @ - 1]
    /\ IF Overlapping
       THEN UNCHANGED <<loop, freed>>
       ELSE /\ loop' = [loop EXCEPT ![j] = "next"]
            /\ freed' = [freed EXCEPT ![j] = now]
    /\ UNCHANGED <<now, exitCtx, wg, nextRun, watching, deadline, metrics, last>>

-----------------------------------------------------------------------------
(* The goroutine of monitorJob.  Nobody waits for it. *)

MonitorForgotten(j, s) == FALSE

MonitorCancelled(j, s) == run[j][s] \in {"observed", "ended"}

MonitorDeadline(j, s) ==
    /\ s \in watching[j]
    /\ now >= deadline[j][s]
    /\ metrics[j].deadlines < MaxDeadlines
    /\ deadline' = [deadline EXCEPT ![j][s] = NextMatch(j, @)]
    /\ metrics' = [metrics EXCEPT ![j].deadlines = @ + 1]
    /\ UNCHANGED <<now, exitCtx, loopVars, run, watching, history>>

MonitorDone(j, s) ==
    /\ s \in watching[j]
    /\ MonitorCancelled(j, s)
    /\ watching' = [watching EXCEPT ![j] = @ \ {s}]
    /\ deadline' = [deadline EXCEPT ![j][s] = Zero]
    /\ UNCHANGED <<now, exitCtx, loopVars, run, metrics, history>>

-----------------------------------------------------------------------------
(* Specification *)

LoopStep(j) ==
    \/ ReadClock(j)
    \/ TooLate(j)
    \/ Arm(j)
    \/ SelectExit(j)
    \/ SelectTimer(j)
    \/ Drain(j)

RunStep(j, s) ==
    \/ BeginRun(j, s)
    \/ RunJob(j, s)
    \/ CountResult(j, s)
    \/ FinishRun(j, s)
    \/ EndRun(j, s)

MonitorStep(j, s) ==
    \/ MonitorDeadline(j, s)
    \/ MonitorDone(j, s)

CallerStep ==
    \/ NotifyExit
    \/ Reload
    \/ \E j \in Job : StartJob(j)

Next ==
    \/ Tick
    \/ CallerStep
    \/ \E j \in Job :
          \/ LoopStep(j)
          \/ \E s \in Schedule[j] : RunStep(j, s) \/ MonitorStep(j, s)

Spec == Init /\ [][Next]_vars

\* The Go scheduler runs every runnable goroutine, a select with several ready
\* cases picks each of them sooner or later, commands end, time goes on.
\* Nothing makes the caller reload or exit.
Fairness ==
    /\ WF_vars(Tick)
    /\ \A j \in Job :
          /\ WF_vars(LoopStep(j))
          /\ SF_vars(SelectExit(j))
          /\ \A s \in Schedule[j] :
                /\ WF_vars(RunStep(j, s))
                /\ WF_vars(MonitorStep(j, s))
                /\ SF_vars(MonitorDone(j, s))

FairSpec == Spec /\ Fairness

\* Nothing that a goroutine could do without waiting for the clock or for a
\* command is left undone.
Settled ==
    \A j \in Job :
        /\ loop[j] \notin {"new", "next"}
        /\ loop[j] = "select" => ~exitCtx /\ now < nextRun[j]
        /\ loop[j] = "drain" => jobWg[j] > 0
        /\ \A s \in Schedule[j] : run[j][s] \in {"none", "exec", "ended"}
        /\ \A s \in watching[j] : ~MonitorCancelled(j, s) /\ now < deadline[j][s]

\* A machine that is never short of processor time: the clock advances only
\* when it has nothing left to do.
PromptSpec == Init /\ [][Next /\ (Tick => Settled)]_vars

-----------------------------------------------------------------------------
(* Properties *)

SeriesType == [running : Int, executions : Nat, successes : Nat,
               failures : Nat, deadlines : Nat, timings : Nat]

\* Types, and the one relation between variables that typing needs: a loop
\* that waits for its timer or its call has an instant of the schedule.
TypeOK ==
    /\ now \in Nat \ {0}
    /\ exitCtx \in BOOLEAN
    /\ wg \in Int
    /\ loop \in [Job -> LoopState]
    /\ nextRun \in [Job -> Nat]
    /\ jobWg \in [Job -> Int]
    /\ \A j \in Job : loop[j] \in {"select", "call"} => nextRun[j] \in Schedule[j]
    /\ run \in [Job -> [Instant -> RunState]]
    /\ watching \in [Job -> SUBSET Instant]
    /\ deadline \in [Job -> [Instant -> Nat]]
    /\ metrics \in [Job -> SeriesType]
    /\ last \in [Job -> Nat]
    /\ freed \in [Job -> Nat]

\* Unless overlapping is allowed, a job has at most one run in progress
\* (cron.go:167, "this does not run multiple instances of the job
\* concurrently"), whatever reloads happen meanwhile.
NoOverlap ==
    \/ Overlapping
    \/ \A j \in Job : \A s, u \in Active(j) : s = u

\* When the caller's wg.Wait can return no run is in progress: no command
\* outlives an exit or a reload, and no series is reset under a run.
JoinedRuns == wg = 0 => \A j \in Job : Active(j) = {}

\* The series of a job add up at every moment a scrape may see them, across
\* resets too: the gauge is the number of runs in its window (never negative
\* after a reset), and every execution counted is a success, a failure or
\* about to become one, and timed at most once.
MetricsAddUp ==
    \A j \in Job :
        LET m == metrics[j]
            In(states) == {s \in Schedule[j] : run[j][s] \in states}
        IN  /\ m.running = Cardinality(In(Gauged))
            /\ m.executions = m.successes + m.failures + Cardinality(In({"ok", "err"}))
            /\ m.successes + m.failures = m.timings + Cardinality(In({"counted"}))

\* A run that was started is never started again, not even by the loop that
\* replaces its own after a reload.
StartedOnce ==
    [][\A j \in Job : \A s \in Schedule[j] :
          run[j][s] # "none" => run'[j][s] = run[j][s] \/ run'[j][s] # "begin"]_vars

\* The goroutines keep the promise that CronService states.
Service == INSTANCE CronService
             WITH serving <- LiveLoops, active <- [j \in Job |-> Active(j)]

ServiceSpec == Service!Spec

\* A processor that is fast enough misses nothing: an instant passes without
\* its run having been started only while a run kept the job busy.
NothingMissed ==
    \A j \in LiveLoops :
        ~exitCtx /\ (Overlapping \/ Active(j) = {}) =>
            ~\E s \in Schedule[j] : last[j] < s /\ freed[j] < s /\ s < now

\* After notifyExit the caller's wg.Wait returns (README.md:42-46, "graceful
\* shutdown").
GracefulExit == exitCtx ~> wg = 0

\* What a loop has announced ("job will run next at") is started, unless the
\* caller asks to exit first.
AnnouncedRunStarts ==
    \A j \in Job : \A s \in Schedule[j] :
        loop[j] = "select" /\ nextRun[j] = s /\ s <= Horizon
            ~> run[j][s] # "none" \/ exitCtx

\* Every monitorJob goroutine ends after its run did.
MonitorsStop ==
    \A j \in Job : \A s \in Schedule[j] :
        run[j][s] = "ended" ~> s \notin watching[j]
=============================================================================
