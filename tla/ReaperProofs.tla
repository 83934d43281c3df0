---------------------------- MODULE ReaperProofs ----------------------------
(***************************************************************************)
(* Theorems about Reaper for any set of orphans and any exit statuses.     *)
(***************************************************************************)
EXTENDS Reaper, TLAPS

-----------------------------------------------------------------------------
(* The inductive invariant *)

\* Where supercronic is, seen from the main goroutine: born with the fork, and
\* reaped only in the step that ends pid 1.  So wait4 never lacks a child.
ChildAlive ==
    /\ reaper = "fork" => proc[Supercronic] = "unborn"
    /\ reaper \notin {"fork", "exited"} => proc[Supercronic] \in {"running", "zombie"}

\* The forwarder and the handler start in the program's order.
StartedInOrder ==
    /\ reaper \in {"fork", "forward"} => forwarder = "off"
    /\ reaper \notin {"fork", "forward", "exited"} => forwarder # "off"
    /\ reaper \in {"fork", "forward", "listen"} => handler = "off"

IInv ==
    /\ TypeOK
    /\ ChildAlive
    /\ StartedInOrder
    /\ StatusKept
    /\ HeardIsReaped
    /\ ReloadForwarded

-----------------------------------------------------------------------------
(* Types *)

\* What os.Exit makes of an exit status is a byte.
LEMMA ShownIsByte ==
    ASSUME NEW c \in Code \cup {0}
    PROVE  Shown(c) \in 0..255
<1>. c \in Int
    BY CodeAssumption
<1>. QED BY DEF Shown

LEMMA TypeInit == Init => TypeOK
<1> SUFFICES ASSUME Init
             PROVE  TypeOK
    OBVIOUS
<1>1. stopped \in BOOLEAN /\ heard \in BOOLEAN /\ unmet \in BOOLEAN
    BY Zenon DEF Init
<1>2. proc \in [Process -> {"unborn", "running", "zombie", "gone"}]
    BY DEF Init
<1>3. code \in [Process -> Code \cup {0}]
    BY DEF Init
<1>. QED BY <1>1, <1>2, <1>3 DEF Init, TypeOK, Empty

LEMMA TypeNext == TypeOK /\ [Next]_vars => TypeOK'
<1> SUFFICES ASSUME TypeOK, [Next]_vars
             PROVE  TypeOK'
    OBVIOUS
<1>b. stopped \in BOOLEAN /\ heard \in BOOLEAN /\ unmet \in BOOLEAN
    BY Zenon DEF TypeOK
<1>1. CASE ForkExec
    BY <1>1 DEF ForkExec, TypeOK, Process, forwardVars, signalVars
<1>2. CASE ForkFails
    BY <1>2 DEF ForkFails, TypeOK, forwardVars, signalVars, childVars
<1>3. CASE SignalToFork
    BY <1>3 DEF SignalToFork, TypeOK, signalVars, childVars
<1>4. CASE StartHandler
    BY <1>4 DEF StartHandler, TypeOK, forwardVars, childVars
<1>5. CASE Notified
    BY <1>5 DEF Notified, TypeOK, forwardVars, signalVars, childVars
<1>6. CASE Wait4
    <2>1. \A p \in Process : code[p] \in Code \cup {0}
        BY DEF TypeOK
    <2>2. \A p \in Process : Shown(code[p]) \in 0..255
        BY <2>1, ShownIsByte
    <2>3. /\ proc' \in [Process -> {"unborn", "running", "zombie", "gone"}]
          /\ status' \in 0..255
          /\ reaper' \in {"wait", "reap", "exited"}
        BY <1>6, <2>2 DEF Wait4, TypeOK, Zombies
    <2>. QED BY <1>6, <2>3 DEF Wait4, TypeOK, forwardVars, signalVars
<1>7. CASE TakeSignal
    BY <1>7 DEF TakeSignal, TypeOK, Empty, signalVars, childVars
<1>8. CASE Forward
    <2>1. stopped' \in BOOLEAN /\ unmet' \in BOOLEAN
        BY <1>8, Zenon DEF Forward
    <2>. QED BY <1>8, <2>1 DEF Forward, TypeOK, Empty, signalVars, childVars
<1>9. CASE RegisterHandler
    BY <1>9 DEF RegisterHandler, TypeOK, forwardVars, childVars
<1>10. CASE TakeSigchld
    BY <1>10 DEF TakeSigchld, TypeOK, forwardVars, childVars
<1>11. CASE Publish
    BY <1>11 DEF Publish, TypeOK, forwardVars, childVars
<1>12. ASSUME NEW p \in Orphan, Reparent(p)
       PROVE  TypeOK'
    BY <1>12 DEF Reparent, TypeOK, Process, forwardVars, signalVars
<1>13. ASSUME NEW p \in Process, Exit(p)
       PROVE  TypeOK'
    <2>1. proc' \in [Process -> {"unborn", "running", "zombie", "gone"}]
        BY <1>13 DEF Exit, TypeOK
    <2>2. code' \in [Process -> Code \cup {0}]
        BY <1>13 DEF Exit, TypeOK
    <2>3. sigs' \in 0..3 /\ (heard' = heard \/ heard' = TRUE)
        BY <1>13 DEF Exit, TypeOK
    <2>4. heard' \in BOOLEAN
        BY <2>3, <1>b, Zenon
    <2>. QED BY <1>13, <2>1, <2>2, <2>3, <2>4 DEF Exit, TypeOK, forwardVars
<1>14. ASSUME NEW sig \in {"USR2", "TERM"}, Kill(sig)
       PROVE  TypeOK'
    <2>1. unmet' \in BOOLEAN
        BY <1>14, <1>b, Zenon DEF Kill
    <2>2. /\ termChan' \in {Empty, "USR2", "TERM"}
          /\ status' \in 0..255
          /\ reaper' \in {reaper, "exited"}
        BY <1>14 DEF Kill, TypeOK
    <2>. QED BY <1>14, <2>1, <2>2 DEF Kill, TypeOK, signalVars, childVars
<1>15. CASE UNCHANGED vars
    BY <1>15 DEF vars, TypeOK, forwardVars, signalVars, childVars
<1>. QED
    BY <1>1, <1>2, <1>3, <1>4, <1>5, <1>6, <1>7, <1>8, <1>9, <1>10, <1>11,
       <1>12, <1>13, <1>14, <1>15
       DEF Next, ReaperStep, ForwarderStep, HandlerStep, Outside

\* Every variable of pid 1 and of the processes below it keeps its type.
THEOREM TypeCorrect == Spec => []TypeOK
    BY TypeInit, TypeNext, PTL DEF Spec

-----------------------------------------------------------------------------
(* One lemma per part of the invariant *)

\* The main goroutine and supercronic go through their states together.
LEMMA ChildNext == IInv /\ [Next]_vars => ChildAlive' /\ StartedInOrder'
<1> SUFFICES ASSUME IInv, [Next]_vars
             PROVE  ChildAlive' /\ StartedInOrder'
    OBVIOUS
<1>a. proc \in [Process -> {"unborn", "running", "zombie", "gone"}]
    BY DEF IInv, TypeOK
<1>b. ChildAlive /\ StartedInOrder
    BY DEF IInv
<1>c. Supercronic \in Process
    BY DEF Process
<1>1. CASE ReaperStep
    BY <1>1, <1>a, <1>b, <1>c
       DEF ReaperStep, ForkExec, ForkFails, SignalToFork, StartHandler, Notified, Wait4,
           Zombies, ChildAlive, StartedInOrder, forwardVars, signalVars, childVars
<1>2. CASE ForwarderStep \/ HandlerStep
    BY <1>2, <1>b
       DEF ForwarderStep, HandlerStep, TakeSignal, Forward, RegisterHandler, TakeSigchld,
           Publish, ChildAlive, StartedInOrder, forwardVars, signalVars, childVars, Running
<1>3. ASSUME NEW p \in Orphan, Reparent(p)
      PROVE  ChildAlive' /\ StartedInOrder'
    <2>1. proc'[Supercronic] = proc[Supercronic]
        BY <1>3, <1>a, <1>c, ProcessAssumption DEF Reparent
    <2>. QED BY <1>3, <2>1, <1>b DEF Reparent, ChildAlive, StartedInOrder, forwardVars, signalVars
<1>4. ASSUME NEW p \in Process, Exit(p)
      PROVE  ChildAlive' /\ StartedInOrder'
    <2>1. proc[Supercronic] = "unborn" => proc'[Supercronic] = "unborn"
        BY <1>4, <1>a, <1>c DEF Exit
    <2>2. proc[Supercronic] \in {"running", "zombie"} =>
             proc'[Supercronic] \in {"running", "zombie"}
        BY <1>4, <1>a, <1>c DEF Exit
    <2>. QED BY <1>4, <2>1, <2>2, <1>b DEF Exit, ChildAlive, StartedInOrder, forwardVars
<1>5. ASSUME NEW sig \in {"USR2", "TERM"}, Kill(sig)
      PROVE  ChildAlive' /\ StartedInOrder'
    BY <1>5, <1>b DEF Kill, ChildAlive, StartedInOrder, Running, signalVars, childVars
<1>6. CASE UNCHANGED vars
    BY <1>6, <1>b DEF vars, ChildAlive, StartedInOrder, forwardVars, signalVars, childVars
<1>. QED BY <1>1, <1>2, <1>3, <1>4, <1>5, <1>6 DEF Next, Outside

\* pid 1 ends in four places, and only one of them is after the fork and the
\* start of the forwarder: the one that reaps supercronic.
LEMMA StatusNext == IInv /\ [Next]_vars => StatusKept'
<1> SUFFICES ASSUME IInv, [Next]_vars
             PROVE  StatusKept'
    OBVIOUS
<1>a. /\ proc \in [Process -> {"unborn", "running", "zombie", "gone"}]
      /\ code \in [Process -> Code \cup {0}]
    BY DEF IInv, TypeOK
<1>b. ChildAlive /\ StartedInOrder /\ StatusKept
    BY DEF IInv
<1>c. Supercronic \in Process
    BY DEF Process
<1>1. CASE ForkExec \/ SignalToFork \/ StartHandler \/ Notified
    BY <1>1 DEF ForkExec, SignalToFork, StartHandler, Notified, StatusKept, Running
<1>2. CASE ForkFails
    BY <1>2, <1>b DEF ForkFails, ChildAlive, StatusKept, Running, childVars
<1>3. CASE Wait4
    BY <1>3, <1>a, <1>b, <1>c DEF Wait4, Zombies, StatusKept, Running, forwardVars
<1>4. CASE ForwarderStep \/ HandlerStep \/ Outside
    <2>1. Running
        BY <1>4
           DEF ForwarderStep, HandlerStep, Outside, TakeSignal, Forward, RegisterHandler,
               TakeSigchld, Publish, Reparent, Exit, Kill
    <2>2. \/ reaper' = reaper
          \/ forwarder' = "off" /\ status' = 2
        BY <1>4
           DEF ForwarderStep, HandlerStep, Outside, TakeSignal, Forward, RegisterHandler,
               TakeSigchld, Publish, Reparent, Exit, Kill
    <2>. QED BY <2>1, <2>2 DEF StatusKept, Running
<1>5. CASE UNCHANGED vars
    BY <1>5, <1>b DEF vars, StatusKept, Running, forwardVars, childVars
<1>. QED BY <1>1, <1>2, <1>3, <1>4, <1>5 DEF Next, ReaperStep

\* A SIGCHLD moves from sigs to the handler and on to notifications, and the
\* main goroutine does not come back from wait4 to wait for one.
LEMMA HeardNext == IInv /\ [Next]_vars => HeardIsReaped'
<1> SUFFICES ASSUME IInv, [Next]_vars
             PROVE  HeardIsReaped'
    OBVIOUS
<1>a. sigs \in 0..3 /\ notifications \in 0..1
    BY DEF IInv, TypeOK
<1>b. ChildAlive /\ StartedInOrder /\ HeardIsReaped
    BY DEF IInv
<1>c. Supercronic \in Process
    BY DEF Process
<1>1. CASE Wait4
    <2>1. ~ \A p \in Process : proc[p] \in {"unborn", "gone"}
        BY <1>1, <1>b, <1>c DEF Wait4, ChildAlive
    <2>2. reaper' \in {"reap", "exited"}
        BY <1>1, <2>1 DEF Wait4
    <2>. QED BY <2>2 DEF HeardIsReaped
<1>2. CASE ForkExec \/ ForkFails \/ SignalToFork \/ Notified
    BY <1>2, <1>b
       DEF ForkExec, ForkFails, SignalToFork, Notified, HeardIsReaped, signalVars
<1>3. CASE StartHandler
    BY <1>3, <1>b DEF StartHandler, StartedInOrder, HeardIsReaped
<1>4. CASE ForwarderStep
    BY <1>4, <1>b DEF ForwarderStep, TakeSignal, Forward, HeardIsReaped, signalVars
<1>5. CASE HandlerStep
    BY <1>5, <1>a, <1>b
       DEF HandlerStep, RegisterHandler, TakeSigchld, Publish, HeardIsReaped
<1>6. ASSUME NEW p \in Process, Exit(p)
      PROVE  HeardIsReaped'
    <2>1. \/ sigs' > 0
          \/ UNCHANGED <<sigs, heard>>
        BY <1>6, <1>a DEF Exit
    <2>2. UNCHANGED <<reaper, handler, notifications>>
        BY <1>6 DEF Exit
    <2>. QED BY <2>1, <2>2, <1>b, Zenon DEF HeardIsReaped
<1>7. ASSUME NEW p \in Orphan, Reparent(p)
      PROVE  HeardIsReaped'
    BY <1>7, <1>b DEF Reparent, HeardIsReaped, signalVars
<1>8. ASSUME NEW sig \in {"USR2", "TERM"}, Kill(sig)
      PROVE  HeardIsReaped'
    BY <1>8, <1>b DEF Kill, HeardIsReaped, signalVars
<1>9. CASE UNCHANGED vars
    BY <1>9, <1>b DEF vars, HeardIsReaped, signalVars
<1>. QED
    BY <1>1, <1>2, <1>3, <1>4, <1>5, <1>6, <1>7, <1>8, <1>9
       DEF Next, ReaperStep, Outside

\* A SIGUSR2 is in the buffer, or finds another signal there; what is in the
\* buffer is taken only to be forwarded.
LEMMA ReloadNext == IInv /\ [Next]_vars => ReloadForwarded'
<1> SUFFICES ASSUME IInv, [Next]_vars
             PROVE  ReloadForwarded'
    OBVIOUS
<1>a. termChan \in {Empty, "USR2", "TERM"}
    BY DEF IInv, TypeOK
<1>b. StartedInOrder /\ ReloadForwarded
    BY DEF IInv
<1>1. CASE ForkExec \/ ForkFails \/ StartHandler \/ Notified \/ Wait4
    BY <1>1, <1>b
       DEF ForkExec, ForkFails, StartHandler, Notified, Wait4, ReloadForwarded, Running,
           forwardVars
<1>2. CASE SignalToFork
    BY <1>2, <1>b
       DEF SignalToFork, StartedInOrder, ReloadForwarded, Running
<1>3. CASE ForwarderStep
    BY <1>3 DEF ForwarderStep, TakeSignal, Forward, ReloadForwarded
<1>4. CASE HandlerStep
    BY <1>4, <1>b
       DEF HandlerStep, RegisterHandler, TakeSigchld, Publish, ReloadForwarded, Running,
           forwardVars
<1>5. ASSUME NEW p \in Process, Reparent(p) \/ Exit(p)
      PROVE  ReloadForwarded'
    BY <1>5, <1>b DEF Reparent, Exit, ReloadForwarded, Running, forwardVars
<1>6. ASSUME NEW sig \in {"USR2", "TERM"}, Kill(sig)
      PROVE  ReloadForwarded'
    BY <1>6, <1>a, <1>b DEF Kill, ReloadForwarded, Running, Empty
<1>7. CASE UNCHANGED vars
    BY <1>7, <1>b DEF vars, ReloadForwarded, Running, forwardVars
<1>. QED
    BY <1>1, <1>2, <1>3, <1>4, <1>5, <1>6, <1>7
       DEF Next, ReaperStep, Outside, Process

LEMMA InvInit == Init => IInv
<1>1. Init => ChildAlive
    BY DEF Init, ChildAlive, Process
<1>2. Init => StartedInOrder /\ StatusKept /\ HeardIsReaped /\ ReloadForwarded
    BY DEF Init, StartedInOrder, StatusKept, HeardIsReaped, ReloadForwarded, Running
<1>. QED BY <1>1, <1>2, TypeInit DEF IInv

LEMMA InvNext == IInv /\ [Next]_vars => IInv'
    BY TypeNext, ChildNext, StatusNext, HeardNext, ReloadNext DEF IInv

\* What holds of pid 1 at every moment.
THEOREM Invariant == Spec => []IInv
    BY InvInit, InvNext, PTL DEF Spec

-----------------------------------------------------------------------------
(* What follows from the invariant *)

\* pid 1 ends with supercronic's exit status, however many orphans end about
\* the same time (reaper.go:96-99).
THEOREM StatusIsKept == Spec => []StatusKept
    BY Invariant, PTL DEF IInv

\* The notifications that are dropped when one is there already are not
\* missed (reaper.go:118-124).
THEOREM DroppingIsHarmless == Spec => []HeardIsReaped
    BY Invariant, PTL DEF IInv

\* A SIGUSR2 that came after the last forwarded signal is forwarded, itself or
\* in the place of the signal that fills the channel (reaper.go:57-66).
THEOREM ReloadsAreForwarded == Spec => []ReloadForwarded
    BY Invariant, PTL DEF IInv
=============================================================================
