-------------------------------- MODULE Main --------------------------------
(***************************************************************************)
(* The main goroutine of main.go, from signal.Notify on: it reads the      *)
(* crontab, starts its jobs, waits for a signal, waits for the jobs and    *)
(* starts over or exits; with it the goroutine that turns inotify events   *)
(* into reload signals, the Prometheus server that is shut down at the     *)
(* end, and the world outside: signals and edits of the crontab file.      *)
(*                                                                         *)
(* A job is only known to be live or not: module Cron says what goes on in *)
(* between.  SIGINT, SIGTERM and SIGQUIT are one signal, "TERM".           *)
(***************************************************************************)
EXTENDS Integers, Sequences

CONSTANTS
    Job,            \* every job that some crontab may hold
    Crontab,        \* the sets of jobs that the crontab file may list
    Inotify,        \* the -inotify flag
    Prometheus,     \* TRUE with -prometheus-listen-address
    MaxEdits        \* bound: how often the crontab file changes

ASSUME CrontabAssumption == Crontab \subseteq SUBSET Job
ASSUME FlagAssumption == Inotify \in BOOLEAN /\ Prometheus \in BOOLEAN
ASSUME MaxEditsAssumption == MaxEdits \in Nat

VARIABLES
    main,       \* where the main goroutine is
    tab,        \* the jobs of the crontab that was read last
    toStart,    \* those of them that are still to be started
    live,       \* the jobs that wg waits for
    exitCtx,    \* TRUE once notifyExit() has been called
    termChan,   \* the buffer of termChan, one signal long
    termSig,    \* the variable termSig
    watcher,    \* where the goroutine that serves watcher.Events is
    server,     \* the Prometheus server
    status,     \* exit status of the process
    file,       \* what the path of the crontab leads to
    version,    \* number of edits of the file so far
    watch,      \* what the inotify watch is on
    events,     \* the inotify events not yet taken
    loaded,     \* history: the version that was read last
    requested   \* history: the latest version a SIGUSR2 was sent for

procVars    == <<main, tab, toStart, live, exitCtx, termSig>>
fileVars    == <<file, version, watch>>
vars == <<procVars, termChan, watcher, server, status, fileVars, events,
          loaded, requested>>

-----------------------------------------------------------------------------
(* States *)

Empty == "none"

Valid(jobs) == [kind |-> "valid", jobs |-> jobs]
Broken == [kind |-> "broken", jobs |-> {}]
Absent == [kind |-> "absent", jobs |-> {}]
Content == {Valid(jobs) : jobs \in Crontab} \cup {Broken}

Running == main # "exited"

\* What inotify reports of a watched file whose last name is removed.
Unlinked == <<"chmod", "remove">>

Init ==
    /\ main = "read"
    /\ tab = {}
    /\ toStart = {}
    /\ live = {}
    /\ exitCtx = FALSE
    /\ termChan = Empty
    /\ termSig = Empty
    /\ watcher = "select"
    /\ server = IF Prometheus THEN "serving" ELSE "off"
    /\ status = 0
    /\ file \in Content
    /\ version = 1
    /\ watch = IF Inotify THEN "current" ELSE "off"
    /\ events = <<>>
    /\ loaded = 0
    /\ requested = 0

-----------------------------------------------------------------------------
(* The main goroutine *)

ReadCrontabAdding ==
    /\ main = "read"
    /\ file.kind = "valid"
    /\ main' = "start"
    /\ tab' = file.jobs
    /\ toStart' = tab \cup file.jobs
    /\ exitCtx' = FALSE
    /\ loaded' = version
    /\ UNCHANGED <<live, termSig, termChan, watcher, server, status, fileVars,
                   events, requested>>

\* Reset, readCrontabAtPath, a new exit context.
ReadCrontab ==
    /\ main = "read"
    /\ file.kind = "valid"
    /\ main' = "start"
    /\ tab' = file.jobs
    /\ toStart' = file.jobs
    /\ exitCtx' = FALSE
    /\ loaded' = version
    /\ UNCHANGED <<live, termSig, termChan, watcher, server, status, fileVars,
                   events, requested>>

DieWithTwo ==
    /\ main' = "exited"
    /\ status' = 2

\* logrus.Fatal ends the process at once, whatever is running.
Die ==
    /\ main' = "exited"
    /\ status' = 1

ReadFails ==
    /\ main = "read"
    /\ file.kind # "valid"
    /\ Die
    /\ UNCHANGED <<tab, toStart, live, exitCtx, termSig, termChan, watcher,
                   server, fileVars, events, loaded, requested>>

StartJobDraining(j) ==
    /\ main = "start"
    /\ j \in toStart
    /\ toStart' = toStart \ {j}
    /\ live' = live \cup {j}
    /\ termChan' = Empty
    /\ UNCHANGED <<main, tab, exitCtx, termSig, watcher, server, status, fileVars,
                   events, loaded, requested>>

StartJob(j) ==
    /\ main = "start"
    /\ j \in toStart
    /\ toStart' = toStart \ {j}
    /\ live' = live \cup {j}
    /\ UNCHANGED <<main, tab, exitCtx, termSig, termChan, watcher, server, status,
                   fileVars, events, loaded, requested>>

\* The receive from termChan, and notifyExit.
RecvSignal ==
    /\ main = "start"
    /\ toStart = {}
    /\ termChan # Empty
    /\ termSig' = termChan
    /\ termChan' = Empty
    /\ exitCtx' = TRUE
    /\ main' = "join"
    /\ UNCHANGED <<tab, toStart, live, watcher, server, status, fileVars, events,
                   loaded, requested>>

JoinedAtOnce ==
    /\ main = "join"
    /\ main' = IF termSig = "USR2" THEN "read" ELSE "return"
    /\ UNCHANGED <<tab, toStart, live, exitCtx, termSig, termChan, watcher, server,
                   status, fileVars, events, loaded, requested>>

JoinedKeepingTab ==
    /\ main = "join"
    /\ live = {}
    /\ main' = IF termSig = "USR2" THEN "start" ELSE "return"
    /\ UNCHANGED <<tab, toStart, live, exitCtx, termSig, termChan, watcher, server,
                   status, fileVars, events, loaded, requested>>

JoinedForEver ==
    /\ main = "join"
    /\ live = {}
    /\ main' = "read"
    /\ UNCHANGED <<tab, toStart, live, exitCtx, termSig, termChan, watcher, server,
                   status, fileVars, events, loaded, requested>>

\* wg.Wait returns: around the loop again, or out of it.
Joined ==
    /\ main = "join"
    /\ live = {}
    /\ main' = IF termSig = "USR2" THEN "read" ELSE "return"
    /\ UNCHANGED <<tab, toStart, live, exitCtx, termSig, termChan, watcher, server,
                   status, fileVars, events, loaded, requested>>

\* The deferred promServerShutdownClosure.
ShutdownServer ==
    /\ main = "return"
    /\ server = "serving"
    /\ server' = "closed"
    /\ UNCHANGED <<procVars, termChan, watcher, status, fileVars, events, loaded,
                   requested>>

Return ==
    /\ main = "return"
    /\ server # "serving"
    /\ main' = "exited"
    /\ UNCHANGED <<tab, toStart, live, exitCtx, termSig, termChan, watcher, server,
                   status, fileVars, events, loaded, requested>>

\* Serve returns ErrServerClosed after a shutdown, which is fatal.
ServeFails ==
    /\ Running
    /\ server = "closed"
    /\ Die
    /\ UNCHANGED <<tab, toStart, live, exitCtx, termSig, termChan, watcher,
                   server, fileVars, events, loaded, requested>>

\* The loop goroutine of a job ends (module Cron, Drain).
LoopExits(j) ==
    /\ Running
    /\ exitCtx
    /\ j \in live
    /\ live' = live \ {j}
    /\ UNCHANGED <<main, tab, toStart, exitCtx, termSig, termChan, watcher, server,
                   status, fileVars, events, loaded, requested>>

-----------------------------------------------------------------------------
(* The goroutine that serves the watcher's events *)

TakeEventKeepingWatch ==
    /\ Running
    /\ watcher = "select"
    /\ events # <<>>
    /\ events' = Tail(events)
    /\ watcher' = IF Head(events) \in {"write", "remove"} THEN "send" ELSE "select"
    /\ UNCHANGED <<procVars, termChan, server, status, fileVars, loaded, requested>>

TakeEventOfRemoval ==
    /\ Running
    /\ watcher = "select"
    /\ events # <<>>
    /\ events' = Tail(events)
    /\ watcher' = IF Head(events) = "remove" THEN "add" ELSE "select"
    /\ UNCHANGED <<procVars, termChan, server, status, fileVars, loaded, requested>>

TakeEvent ==
    /\ Running
    /\ watcher = "select"
    /\ events # <<>>
    /\ events' = Tail(events)
    /\ watcher' = CASE Head(events) = "write" -> "send"
                    [] Head(events) = "remove" -> "add"
                    [] OTHER -> "select"
    /\ UNCHANGED <<procVars, termChan, server, status, fileVars, loaded, requested>>

\* watcher.Add puts the watch on the file that is at the path now.
AddWatch ==
    /\ Running
    /\ watcher = "add"
    /\ file.kind # "absent"
    /\ watch' = "current"
    /\ watcher' = "send"
    /\ UNCHANGED <<procVars, termChan, server, status, file, version, events, loaded,
                   requested>>

AddFails ==
    /\ Running
    /\ watcher = "add"
    /\ file.kind = "absent"
    /\ Die
    /\ UNCHANGED <<tab, toStart, live, exitCtx, termSig, termChan, watcher,
                   server, fileVars, events, loaded, requested>>

\* termChan <- SIGUSR2 blocks while the buffer is full.
SendReload ==
    /\ Running
    /\ watcher = "send"
    /\ termChan = Empty
    /\ termChan' = "USR2"
    /\ watcher' = "select"
    /\ UNCHANGED <<procVars, server, status, fileVars, events, loaded, requested>>

-----------------------------------------------------------------------------
(* The world outside *)

\* signal.Notify never blocks: it drops the signal when the buffer is full.
Kill(sig) ==
    /\ Running
    /\ termChan' = IF termChan = Empty THEN sig ELSE termChan
    /\ requested' = IF sig = "USR2" THEN version ELSE requested
    /\ UNCHANGED <<procVars, watcher, server, status, fileVars, events, loaded>>

\* The file is written in place; an absent one is created, on an inode that
\* no watch is on.
Write(content) ==
    /\ Running
    /\ version < MaxEdits
    /\ file' = content
    /\ version' = version + 1
    /\ events' = IF watch = "current" THEN Append(events, "write") ELSE events
    /\ UNCHANGED <<procVars, termChan, watcher, server, status, watch, loaded,
                   requested>>

\* The path now leads to another file (a rename, a new symbolic link): the
\* watch stays on the old one ...
Swap(content) ==
    /\ Running
    /\ version < MaxEdits
    /\ file' = content
    /\ version' = version + 1
    /\ watch' = IF watch = "current" THEN "old" ELSE watch
    /\ UNCHANGED <<procVars, termChan, watcher, server, status, events, loaded,
                   requested>>

\* ... until that is removed, and the watch with it.
RemoveOld ==
    /\ Running
    /\ watch = "old"
    /\ watch' = "gone"
    /\ events' = events \o Unlinked
    /\ UNCHANGED <<procVars, termChan, watcher, server, status, file, version, loaded,
                   requested>>

Delete ==
    /\ Running
    /\ version < MaxEdits
    /\ file.kind # "absent"
    /\ file' = Absent
    /\ version' = version + 1
    /\ IF watch = "current"
       THEN watch' = "gone" /\ events' = events \o Unlinked
       ELSE UNCHANGED <<watch, events>>
    /\ UNCHANGED <<procVars, termChan, watcher, server, status, loaded, requested>>

-----------------------------------------------------------------------------
(* Specification *)

MainStep ==
    \/ ReadCrontab
    \/ ReadFails
    \/ \E j \in Job : StartJob(j)
    \/ RecvSignal
    \/ Joined
    \/ ShutdownServer
    \/ Return

WatcherStep ==
    \/ TakeEvent
    \/ AddWatch
    \/ AddFails
    \/ SendReload

Outside ==
    \/ Delete
    \/ \E sig \in {"USR2", "TERM"} : Kill(sig)
    \/ \E content \in Content : Write(content) \/ Swap(content)

Next ==
    \/ MainStep
    \/ WatcherStep
    \/ ServeFails
    \/ RemoveOld
    \/ Outside
    \/ \E j \in Job : LoopExits(j)

Spec == Init /\ [][Next]_vars

\* Goroutines run when they can, and the jobs' loops end once they are asked
\* to (Cron!GracefulExit).  A blocked sender is the next to fill a channel, so
\* signals cannot keep it waiting for ever.  Whoever replaces the file removes
\* the old one sooner or later.  Nothing is assumed of signals and edits.
Fairness ==
    /\ WF_vars(MainStep)
    /\ WF_vars(WatcherStep)
    /\ SF_vars(SendReload)
    /\ WF_vars(RemoveOld)
    /\ \A j \in Job : WF_vars(LoopExits(j))

FairSpec == Spec /\ Fairness

-----------------------------------------------------------------------------
(* Properties *)

TypeOK ==
    /\ main \in {"read", "start", "join", "return", "exited"}
    /\ tab \subseteq Job
    /\ toStart \subseteq Job
    /\ live \subseteq Job
    /\ exitCtx \in BOOLEAN
    /\ termChan \in {Empty, "USR2", "TERM"}
    /\ termSig \in {Empty, "USR2", "TERM"}
    /\ watcher \in {"select", "add", "send"}
    /\ server \in {"off", "serving", "closed"}
    /\ status \in {0, 1}
    /\ file \in Content \cup {Absent}
    /\ version \in Nat
    /\ watch \in {"off", "current", "old", "gone"}
    /\ events \in Seq({"write", "chmod", "remove"})
    /\ loaded \in Nat
    /\ requested \in Nat

\* Main is on its way to the next read of the crontab, or to the end.
ReadAhead == termChan # Empty \/ main \in {"read", "join", "return", "exited"}

\* SIGUSR2 "reloads the crontab configuration" (README.md:45): a version that
\* the signal was sent for is the one in use, or a newer one is, or main is on
\* its way to read it, even when the buffer of termChan was full and the
\* signal itself was dropped.
NoLostRequest == loaded < requested => ReadAhead

\* The watcher's goroutine has a reload signal to send.
SignalDue ==
    \/ watcher # "select"
    \/ \E i \in DOMAIN events : events[i] \in {"write", "remove"}

\* With -inotify "any update ... will trigger a reload" (README.md:232): an
\* edit that is not in use has a reload coming, unless the file it replaced
\* is still there to be removed.
NoMissedEdit ==
    Inotify /\ loaded < version =>
        watch = "old" \/ SignalDue \/ ReadAhead

\* The jobs of two crontabs are never live together: whatever is live or is
\* about to be started is in the crontab that was read last, and nothing is
\* live while the next one is read.
OneGeneration ==
    /\ live \cup toStart \subseteq tab
    /\ live \cap toStart = {}
    /\ main \in {"read", "return"} => live = {} /\ toStart = {}

\* The same promises about the future.
RequestsAreMet == loaded < requested ~> loaded >= requested \/ ~Running

EditsAreLoaded == Inotify /\ loaded < version ~> loaded = version \/ ~Running

\* A terminating signal that got into the buffer ends the process.
AcceptedStopEnds == "TERM" \in {termChan, termSig} ~> ~Running

\* A shutdown that waited for its jobs ends with status 0, as
\* integration/test.bats:36 expects.
CleanExit == status = 1 => main = "exited" /\ termSig # "TERM"
=============================================================================
