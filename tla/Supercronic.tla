----------------------------- MODULE Supercronic -----------------------------
(***************************************************************************)
(* The whole process: the main goroutine of main.go (module Main) over the *)
(* scheduler of cron/cron.go (module Cron).  They share the exit context   *)
(* and the wait group: a job that Main counts as live is one whose loop    *)
(* goroutine runs in Cron.  When the process exits every goroutine is gone.*)
(***************************************************************************)
EXTENDS Integers, Sequences, FiniteSets

CONSTANTS Job, Schedule, Overlapping, Horizon, MaxDeadlines,
          Crontab, Inotify, Prometheus, MaxEdits

VARIABLES
    \* of Cron
    now, wg, loop, nextRun, jobWg, run, watching, deadline, metrics, last, freed,
    \* of both
    exitCtx,
    \* of Main
    main, tab, toStart, termChan, termSig, watcher, server, status,
    file, version, watch, events, loaded, requested

\* As in Cron and Main.
ASSUME ScheduleAssumption == Schedule \in [Job -> SUBSET (Nat \ {0})]
ASSUME CrontabAssumption == Crontab \subseteq SUBSET Job
ASSUME FlagAssumption ==
    Overlapping \in BOOLEAN /\ Inotify \in BOOLEAN /\ Prometheus \in BOOLEAN
ASSUME BoundAssumption ==
    Horizon \in Nat \ {0} /\ MaxDeadlines \in Nat /\ MaxEdits \in Nat

C == INSTANCE Cron
M == INSTANCE Main WITH live <- C!LiveLoops

cronVars == <<now, exitCtx, wg, loop, nextRun, jobWg, run, watching, deadline,
              metrics, last, freed>>
mainVars == <<main, tab, toStart, termChan, termSig, watcher, server, status,
              file, version, watch, events, loaded, requested>>
vars == <<cronVars, mainVars>>

Init == C!Init /\ M!Init

-----------------------------------------------------------------------------
(* Steps of both *)

\* The metrics are reset and a new exit context made for the crontab that is
\* read; for the first one there is nothing to reset.
ReadCrontab ==
    /\ IF exitCtx THEN C!Reload ELSE UNCHANGED cronVars
    /\ M!ReadCrontab

StartJob(j) == C!StartJob(j) /\ M!StartJob(j)

RecvSignal == C!NotifyExit /\ M!RecvSignal

-----------------------------------------------------------------------------
(* Steps of one *)

MainAlone ==
    /\ UNCHANGED cronVars
    /\ \/ M!ReadFails
       \/ M!Joined
       \/ M!ShutdownServer
       \/ M!Return

WatcherStep == UNCHANGED cronVars /\ M!WatcherStep

Elsewhere ==
    /\ UNCHANGED cronVars
    /\ \/ M!ServeFails
       \/ M!RemoveOld
       \/ M!Outside

Goroutine == M!Running /\ UNCHANGED mainVars

Tick == C!Tick /\ Goroutine

LoopStep(j) == C!LoopStep(j) /\ Goroutine

RunStep(j, s) == C!RunStep(j, s) /\ Goroutine

MonitorStep(j, s) == C!MonitorStep(j, s) /\ Goroutine

-----------------------------------------------------------------------------
(* Specification *)

MainStep ==
    \/ ReadCrontab
    \/ \E j \in Job : StartJob(j)
    \/ RecvSignal
    \/ MainAlone

Next ==
    \/ MainStep
    \/ WatcherStep
    \/ Elsewhere
    \/ Tick
    \/ \E j \in Job :
          \/ LoopStep(j)
          \/ \E s \in Schedule[j] : RunStep(j, s) \/ MonitorStep(j, s)

Spec == Init /\ [][Next]_vars

\* As in Main and Cron.
Fairness ==
    /\ WF_vars(MainStep)
    /\ WF_vars(Tick)
    /\ \A j \in Job :
          /\ WF_vars(LoopStep(j))
          /\ SF_vars(C!SelectExit(j) /\ Goroutine)
          /\ \A s \in Schedule[j] : WF_vars(RunStep(j, s))

FairSpec == Spec /\ Fairness

-----------------------------------------------------------------------------
(* Properties *)

\* The process is a behaviour of Main: the loops of Cron leave only when asked
\* to, and come to life only when started.
MainSpec == M!Spec

\* "It waits for jobs to exit before terminating" (integration/test.bats:82):
\* while main returns, and after an exit with status 0, no command is running.
ExitsWithoutRuns ==
    main = "return" \/ (main = "exited" /\ status = 0) =>
        \A j \in Job : C!Active(j) = {}

\* The series are reset only while they are complete: nothing is running and
\* every execution has been counted as a success or a failure.
ResetsCompleteSeries ==
    main = "read" =>
        \A j \in Job :
            /\ metrics[j].running = 0
            /\ metrics[j].executions = metrics[j].successes + metrics[j].failures
            /\ metrics[j].executions = metrics[j].timings

\* A job that the crontab in use does not list is never started, whatever
\* loops of an earlier crontab were waiting for when it was replaced.
StartsListedJobs ==
    [][\A j \in Job : C!SelectTimer(j) => j \in tab]_vars

\* A terminating signal that main received ends the process, however many
\* runs are to be waited for.
StopEnds == termSig = "TERM" ~> main = "exited"
=============================================================================
