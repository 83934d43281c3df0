---------------------------- MODULE CronService ----------------------------
(***************************************************************************)
(* What the scheduler of cron/cron.go promises to its caller, without the  *)
(* goroutines, channels and wait groups that keep the promise.             *)
(*                                                                         *)
(* A served job is started at instants of its schedule, never before the   *)
(* instant, each instant at most once and in order.  Unless overlapping is *)
(* allowed a job is never started while it runs, and an instant that       *)
(* passed while it ran is not made up for afterwards.  Once the caller     *)
(* asks it to, the service stops serving a job, but only after the runs of *)
(* that job have ended.                                                    *)
(***************************************************************************)
EXTENDS Integers

CONSTANTS
    Job,            \* the jobs of the crontab
    Schedule,       \* the instants of each job's cron expression
    Overlapping     \* the -overlapping flag

VARIABLES
    now,        \* the wall clock
    exitCtx,    \* TRUE once the caller has cancelled the exit context
    serving,    \* the jobs being served
    active,     \* the instants of each job whose run is in progress
    last,       \* the latest instant of each job that was started
    freed       \* no instant of the job before this time may start any more

vars == <<now, exitCtx, serving, active, last, freed>>

Init ==
    /\ now = 1
    /\ exitCtx = FALSE
    /\ serving = {}
    /\ active = [j \in Job |-> {}]
    /\ last = [j \in Job |-> 0]
    /\ freed = [j \in Job |-> 0]

Tick ==
    /\ now' = now + 1
    /\ UNCHANGED <<exitCtx, serving, active, last, freed>>

\* The caller hands a job over (StartJob).
Accept(j) ==
    /\ ~exitCtx
    /\ j \notin serving
    /\ serving' = serving \cup {j}
    /\ freed' = [freed EXCEPT ![j] = now]
    /\ UNCHANGED <<now, exitCtx, active, last>>

\* The run of an instant begins.
Start(j, s) ==
    /\ j \in serving
    /\ s \in Schedule[j]
    /\ s <= now
    /\ s > last[j]
    /\ s >= freed[j]
    /\ Overlapping \/ active[j] = {}
    /\ active' = [active EXCEPT ![j] = @ \cup {s}]
    /\ last' = [last EXCEPT ![j] = s]
    /\ UNCHANGED <<now, exitCtx, serving, freed>>

\* The run of an instant ends.  Without overlapping the job is free again
\* from this moment on, and not for any earlier instant.
End(j, s) ==
    /\ s \in active[j]
    /\ active' = [active EXCEPT ![j] = @ \ {s}]
    /\ freed' = IF Overlapping THEN freed ELSE [freed EXCEPT ![j] = now]
    /\ UNCHANGED <<now, exitCtx, serving, last>>

RequestExit ==
    /\ ~exitCtx
    /\ exitCtx' = TRUE
    /\ UNCHANGED <<now, serving, active, last, freed>>

\* A job is let go of when none of its runs is left.
Leave(j) ==
    /\ exitCtx
    /\ j \in serving
    /\ active[j] = {}
    /\ serving' = serving \ {j}
    /\ UNCHANGED <<now, exitCtx, active, last, freed>>

\* A new exit context for the next crontab, once every job was let go of.
Reload ==
    /\ exitCtx
    /\ serving = {}
    /\ exitCtx' = FALSE
    /\ UNCHANGED <<now, serving, active, last, freed>>

Next ==
    \/ Tick
    \/ RequestExit
    \/ Reload
    \/ \E j \in Job :
          \/ Accept(j)
          \/ Leave(j)
          \/ \E s \in Schedule[j] : Start(j, s) \/ End(j, s)

Spec == Init /\ [][Next]_vars
=============================================================================
