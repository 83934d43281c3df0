------------------------------- MODULE Reaper -------------------------------
(***************************************************************************)
(* The process with pid 1 of reaper.go: it runs supercronic in a child,    *)
(* forwards signals to it, reaps it and every orphan of the container, and *)
(* ends with the child's exit status.  Three goroutines: forkExec with     *)
(* reapChildren, the forwarder of signalToFork, and sigChildHandler.       *)
(*                                                                         *)
(* When pid 1 ends the kernel ends every other process of the container.   *)
(***************************************************************************)
EXTENDS Integers

CONSTANTS
    Orphan,         \* the processes whose parent ends before they do
    Supercronic,    \* the child, superCrondPid
    Code            \* what wstatus.ExitStatus() may answer; -1 after a signal

ASSUME ProcessAssumption == Supercronic \notin Orphan
ASSUME CodeAssumption == Code \subseteq -1..255

VARIABLES
    reaper,         \* where the main goroutine is
    forwarder,      \* where the goroutine of signalToFork is
    termChan,       \* the buffer of termChan, one signal long
    hand,           \* the variable s of the forwarder
    handler,        \* where the goroutine sigChildHandler is
    sigs,           \* how many signals the channel sigs holds
    notifications,  \* how many the channel notifications holds
    proc,           \* the state of each process below pid 1
    code,           \* the exit status of each process that has ended
    stopped,        \* supercronic was sent a terminating signal
    status,         \* exit status of pid 1
    heard,          \* history: some SIGCHLD was put into sigs
    unmet           \* history: a SIGUSR2 came after the last signal forwarded

forwardVars == <<forwarder, termChan, hand, stopped, unmet>>
childVars   == <<proc, code>>
signalVars  == <<handler, sigs, heard>>
vars == <<reaper, forwardVars, signalVars, notifications, childVars, status>>

Process == Orphan \cup {Supercronic}

Empty == "none"

Running == reaper # "exited"

Zombies == {p \in Process : proc[p] = "zombie"}

\* os.Exit keeps the low eight bits.
Shown(c) == c % 256

Init ==
    /\ reaper = "fork"
    /\ forwarder = "off"
    /\ termChan = Empty
    /\ hand = Empty
    /\ handler = "off"
    /\ sigs = 0
    /\ notifications = 0
    /\ proc = [p \in Process |-> "unborn"]
    /\ code = [p \in Process |-> 0]
    /\ stopped = FALSE
    /\ status = 0
    /\ heard = FALSE
    /\ unmet = FALSE

-----------------------------------------------------------------------------
(* The main goroutine *)

ForkExec ==
    /\ reaper = "fork"
    /\ reaper' = "forward"
    /\ proc' = [proc EXCEPT ![Supercronic] = "running"]
    /\ UNCHANGED <<forwardVars, signalVars, notifications, code, status>>

\* logrus.Fatalf
ForkFails ==
    /\ reaper = "fork"
    /\ reaper' = "exited"
    /\ status' = 1
    /\ UNCHANGED <<forwardVars, signalVars, notifications, childVars>>

\* signal.Notify for the signals of signalList, and the forwarder's start.
SignalToFork ==
    /\ reaper = "forward"
    /\ reaper' = "listen"
    /\ forwarder' = "recv"
    /\ UNCHANGED <<termChan, hand, stopped, unmet, signalVars, notifications,
                   childVars, status>>

\* go sigChildHandler(notifications)
StartHandler ==
    /\ reaper = "listen"
    /\ reaper' = "wait"
    /\ handler' = "new"
    /\ UNCHANGED <<forwardVars, sigs, heard, notifications, childVars, status>>

Notified ==
    /\ reaper = "wait"
    /\ notifications = 1
    /\ notifications' = 0
    /\ reaper' = "reap"
    /\ UNCHANGED <<forwardVars, signalVars, childVars, status>>

Wait4ReturningAny ==
    /\ reaper = "reap"
    /\ \E p \in Zombies :
          /\ proc' = [proc EXCEPT ![p] = "gone"]
          /\ reaper' = "exited"
          /\ status' = Shown(code[p])
    /\ UNCHANGED <<forwardVars, signalVars, notifications, code>>

Wait4OncePerSignal ==
    /\ reaper = "reap"
    /\ \E p \in Zombies :
          /\ proc' = [proc EXCEPT ![p] = "gone"]
          /\ IF p = Supercronic
             THEN reaper' = "exited" /\ status' = Shown(code[p])
             ELSE reaper' = "wait" /\ UNCHANGED status
    /\ UNCHANGED <<forwardVars, signalVars, notifications, code>>

Wait4Supercronic ==
    /\ reaper = "reap"
    /\ proc[Supercronic] = "zombie"
    /\ proc' = [proc EXCEPT ![Supercronic] = "gone"]
    /\ reaper' = "exited"
    /\ status' = Shown(code[Supercronic])
    /\ UNCHANGED <<forwardVars, signalVars, notifications, code>>

\* wait4(-1) blocks while no child has ended.  Without any child it fails
\* with ECHILD, and the goroutine waits for a notification again.
Wait4 ==
    /\ reaper = "reap"
    /\ IF \A p \in Process : proc[p] \in {"unborn", "gone"}
       THEN reaper' = "wait" /\ UNCHANGED <<proc, status>>
       ELSE \E p \in Zombies :
               /\ proc' = [proc EXCEPT ![p] = "gone"]
               /\ IF p = Supercronic
                  THEN reaper' = "exited" /\ status' = Shown(code[p])
                  ELSE UNCHANGED <<reaper, status>>
    /\ UNCHANGED <<forwardVars, signalVars, notifications, code>>

-----------------------------------------------------------------------------
(* The forwarder *)

TakeSignal ==
    /\ Running
    /\ forwarder = "recv"
    /\ termChan # Empty
    /\ hand' = termChan
    /\ termChan' = Empty
    /\ forwarder' = "send"
    /\ UNCHANGED <<reaper, stopped, unmet, signalVars, notifications, childVars, status>>

ForwardStopsOnly ==
    /\ Running
    /\ forwarder = "send"
    /\ forwarder' = "recv"
    /\ hand' = Empty
    /\ stopped' = (stopped \/ hand = "TERM")
    /\ unmet' = (unmet /\ hand # "TERM")
    /\ UNCHANGED <<reaper, termChan, signalVars, notifications, childVars, status>>

ForwardOnce ==
    /\ Running
    /\ forwarder = "send"
    /\ forwarder' = "off"
    /\ hand' = Empty
    /\ stopped' = (stopped \/ hand = "TERM")
    /\ unmet' = FALSE
    /\ UNCHANGED <<reaper, termChan, signalVars, notifications, childVars, status>>

\* p.Signal(s); an error (the child is gone) is only logged.
Forward ==
    /\ Running
    /\ forwarder = "send"
    /\ forwarder' = "recv"
    /\ hand' = Empty
    /\ stopped' = (stopped \/ hand = "TERM")
    /\ unmet' = FALSE
    /\ UNCHANGED <<reaper, termChan, signalVars, notifications, childVars, status>>

-----------------------------------------------------------------------------
(* sigChildHandler *)

RegisterHandler ==
    /\ Running
    /\ handler = "new"
    /\ handler' = "recv"
    /\ UNCHANGED <<reaper, forwardVars, sigs, heard, notifications, childVars, status>>

TakeSigchld ==
    /\ Running
    /\ handler = "recv"
    /\ sigs > 0
    /\ sigs' = sigs - 1
    /\ handler' = "publish"
    /\ UNCHANGED <<reaper, forwardVars, heard, notifications, childVars, status>>

PublishBeyondBuffer ==
    /\ Running
    /\ handler = "publish"
    /\ handler' = "recv"
    /\ notifications' = notifications + 1
    /\ UNCHANGED <<reaper, forwardVars, sigs, heard, childVars, status>>

\* Published, or dropped to the floor when one is there already.
Publish ==
    /\ Running
    /\ handler = "publish"
    /\ handler' = "recv"
    /\ notifications' = 1
    /\ UNCHANGED <<reaper, forwardVars, sigs, heard, childVars, status>>

-----------------------------------------------------------------------------
(* The world outside: processes and signals *)

\* The parent of a process ends: pid 1 becomes its parent.
Reparent(p) ==
    /\ Running
    /\ proc[Supercronic] # "unborn"
    /\ proc[p] = "unborn"
    /\ proc' = [proc EXCEPT ![p] = "running"]
    /\ UNCHANGED <<reaper, forwardVars, signalVars, notifications, code, status>>

\* A process ends.  Its SIGCHLD is ignored before sigChildHandler registers,
\* and dropped while sigs is full.
Exit(p) ==
    /\ Running
    /\ proc[p] = "running"
    /\ proc' = [proc EXCEPT ![p] = "zombie"]
    /\ \E c \in Code : code' = [code EXCEPT ![p] = c]
    /\ IF handler \in {"recv", "publish"}
       THEN sigs' = (IF sigs < 3 THEN sigs + 1 ELSE sigs) /\ heard' = TRUE
       ELSE UNCHANGED <<sigs, heard>>
    /\ UNCHANGED <<reaper, forwardVars, handler, notifications, status>>

\* Before signalToFork a terminating signal ends a Go program with status 2,
\* and SIGUSR2 does nothing; after it a signal is dropped when the buffer is full.
Kill(sig) ==
    /\ Running
    /\ IF forwarder = "off"
       THEN /\ IF sig = "TERM" THEN reaper' = "exited" /\ status' = 2
                               ELSE UNCHANGED <<reaper, status>>
            /\ UNCHANGED <<termChan, unmet>>
       ELSE /\ termChan' = IF termChan = Empty THEN sig ELSE termChan
            /\ unmet' = (unmet \/ sig = "USR2")
            /\ UNCHANGED <<reaper, status>>
    /\ UNCHANGED <<forwarder, hand, stopped, signalVars, notifications, childVars>>

-----------------------------------------------------------------------------
(* Specification *)

ReaperStep ==
    \/ ForkExec
    \/ ForkFails
    \/ SignalToFork
    \/ StartHandler
    \/ Notified
    \/ Wait4

ForwarderStep ==
    \/ TakeSignal
    \/ Forward

HandlerStep ==
    \/ RegisterHandler
    \/ TakeSigchld
    \/ Publish

Outside ==
    \/ \E p \in Orphan : Reparent(p)
    \/ \E p \in Process : Exit(p)
    \/ \E sig \in {"USR2", "TERM"} : Kill(sig)

Next ==
    \/ ReaperStep
    \/ ForwarderStep
    \/ HandlerStep
    \/ Outside

Spec == Init /\ [][Next]_vars

\* Goroutines run when they can.  A zombie that wait4 could return is returned
\* sooner or later.  The other processes may run for ever, supercronic too,
\* whatever it is sent.
Fairness ==
    /\ WF_vars(ReaperStep)
    /\ WF_vars(ForwarderStep)
    /\ WF_vars(HandlerStep)

FairSpec == Spec /\ Fairness

-----------------------------------------------------------------------------
(* Properties *)

TypeOK ==
    /\ reaper \in {"fork", "forward", "listen", "wait", "reap", "exited"}
    /\ forwarder \in {"off", "recv", "send"}
    /\ termChan \in {Empty, "USR2", "TERM"}
    /\ hand \in {Empty, "USR2", "TERM"}
    /\ handler \in {"off", "new", "recv", "publish"}
    /\ sigs \in 0..3
    /\ notifications \in 0..1
    /\ proc \in [Process -> {"unborn", "running", "zombie", "gone"}]
    /\ code \in [Process -> Code \cup {0}]
    /\ stopped \in BOOLEAN
    /\ status \in 0..255
    /\ heard \in BOOLEAN
    /\ unmet \in BOOLEAN

\* pid 1 ends with the exit status of supercronic, not with that of a process
\* that happened to end about the same time (reaper.go:71, "without modify,
\* supercronic exit status may not be obtained").
StatusKept ==
    ~Running /\ proc[Supercronic] # "unborn" =>
        \/ proc[Supercronic] = "gone" /\ status = Shown(code[Supercronic])
        \/ forwarder = "off" /\ status = 2

\* Dropping notifications loses nothing (reaper.go:119-124): once one SIGCHLD
\* was heard, the reaper is in its wait4 loop, which it leaves only with
\* supercronic, or a notification is on its way there.
HeardIsReaped ==
    heard => \/ reaper \in {"reap", "exited"}
             \/ notifications = 1
             \/ sigs > 0
             \/ handler = "publish"

\* A reload requested by SIGUSR2 is not lost, although termChan holds one
\* signal: the forwarder will still send one, at least as late.
ReloadForwarded == unmet => termChan # Empty \/ forwarder = "send" \/ ~Running

\* No zombie stays once a SIGCHLD was heard.
ZombiesAreReaped ==
    \A p \in Process :
        heard /\ proc[p] = "zombie" ~> proc[p] = "gone" \/ ~Running

\* The reaper is in nobody's way: as long as a supercronic that was sent a
\* terminating signal ends, one that got into the buffer of pid 1 ends pid 1,
\* unless supercronic ended before anyone listened.  Supercronic itself may not
\* end: it drops a signal that finds its own buffer full (main.go:192-193), and
\* waits for a loop whose schedule has run out (cron.go:176-180).
StopEnds ==
    (stopped ~> proc[Supercronic] # "running")
        => (termChan = "TERM" ~> ~Running \/ (proc[Supercronic] = "zombie" /\ ~heard))

\* When supercronic ends so does pid 1 (reaper.go:47, "got supercronic exit
\* status").
EndsWithSupercronic == proc[Supercronic] = "zombie" ~> ~Running
=============================================================================
