------------------------------ MODULE CronPrompt ------------------------------
(***************************************************************************)
(* Cron on a machine that is never short of processor time (PromptSpec),   *)
(* with two history variables.  They are written and never read by a step: *)
(* they say what the deadlines that monitorJob counts should have been.    *)
(***************************************************************************)
EXTENDS Cron

VARIABLES
    until,      \* the latest instant the clock came to while each run was on
    reset       \* when the series of all jobs were last reset

promptVars == <<vars, until, reset>>

InitPrompt ==
    /\ Init
    /\ until = [j \in Job |-> [s \in Instant |-> 0]]
    /\ reset = 0

\* A run is on from its call of runThisJob to the cancellation of its monitor.
Remember ==
    /\ until' = IF now' = now THEN until
                ELSE [j \in Job |-> [s \in Instant |->
                         IF run[j][s] \in Gauged THEN now' ELSE until[j][s]]]
    /\ reset' = IF exitCtx /\ ~exitCtx' THEN now ELSE reset

NextPrompt == Next /\ (Tick => Settled) /\ Remember

SpecPrompt == InitPrompt /\ [][NextPrompt]_promptVars

-----------------------------------------------------------------------------
(* Properties *)

\* The pairs of a run and a later instant of the schedule, not before the last
\* reset, that came while the run was on; and those of them that the clock has
\* gone beyond with the run still on.
CameDuring(j) ==
    {p \in Schedule[j] \X Schedule[j] :
        p[1] < p[2] /\ reset <= p[2] /\ p[2] <= until[j][p[1]]}

PassedDuring(j) == {p \in CameDuring(j) : p[2] < until[j][p[1]]}

\* The deadlines counted as missed (prommetrics.go:76, "exceeded deadline cron
\* executions") are the instants that came while an earlier run was on: none
\* is counted twice, after its run was over, for a run of before the reset or
\* without being due, and none is left out.  In the instant in which a run
\* ends, and in that of a reset, the select of monitorJob may take either of
\* its cases (cron.go:131-143): what came then may be counted or not.  The
\* schedules must not run out, as the monitor counts without pause if they do.
DeadlinesAreMissed ==
    \A j \in Job :
        /\ Cardinality(PassedDuring(j)) <= metrics[j].deadlines
        /\ metrics[j].deadlines <= Cardinality(CameDuring(j))
=============================================================================
