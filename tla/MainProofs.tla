----------------------------- MODULE MainProofs -----------------------------
(***************************************************************************)
(* Theorems about Main for every set of jobs and crontabs, any number of   *)
(* edits and signals, with and without -inotify and Prometheus.            *)
(***************************************************************************)
EXTENDS Main, TLAPS

-----------------------------------------------------------------------------
(* The inductive invariant *)

\* Nothing is left to start once main has received a signal.
AllStarted == main \in {"join", "return"} => toStart = {}

\* The history variables lag behind the file.
Lagging == loaded <= version /\ requested <= version

\* A watch that is gone has a removal on its way to the watcher's goroutine,
\* which puts the watch back before it asks for the reload.
WatchComesBack ==
    /\ Inotify => watch # "off"
    /\ watch = "gone" =>
          \/ watcher = "add"
          \/ \E i \in DOMAIN events : events[i] = "remove"

IInv ==
    /\ TypeOK
    /\ OneGeneration
    /\ AllStarted
    /\ Lagging
    /\ WatchComesBack
    /\ NoLostRequest
    /\ NoMissedEdit

-----------------------------------------------------------------------------
(* Events *)

\* An event that was not the first is still there when the first is taken.
LEMMA TailKeeps ==
    ASSUME NEW S, NEW s \in Seq(S), s # <<>>, NEW i \in DOMAIN s, i # 1
    PROVE  i - 1 \in DOMAIN Tail(s) /\ Tail(s)[i - 1] = s[i]
    OBVIOUS

\* What was there stays there when more is appended.
LEMMA AppendKeeps ==
    ASSUME NEW S, NEW s \in Seq(S), NEW t \in Seq(S)
    PROVE  /\ \A i \in DOMAIN s : i \in DOMAIN (s \o t) /\ (s \o t)[i] = s[i]
           /\ \A i \in DOMAIN t :
                 Len(s) + i \in DOMAIN (s \o t) /\ (s \o t)[Len(s) + i] = t[i]
    OBVIOUS

-----------------------------------------------------------------------------

LEMMA TypeInit == Init => TypeOK
<1> SUFFICES ASSUME Init
             PROVE  TypeOK
    OBVIOUS
<1>1. exitCtx \in BOOLEAN
    BY Zenon DEF Init
<1>2. file \in Content \cup {Absent}
    BY Zenon DEF Init
<1>3. /\ server \in {"off", "serving", "closed"}
      /\ watch \in {"off", "current", "old", "gone"}
    BY Zenon DEF Init
<1>4. /\ tab \subseteq Job
      /\ toStart \subseteq Job
      /\ live \subseteq Job
      /\ main = "read"
      /\ termChan = Empty /\ termSig = Empty
      /\ watcher = "select"
    BY Zenon DEF Init
<1>5. /\ status \in {0, 1}
      /\ version \in Nat /\ loaded \in Nat /\ requested \in Nat
      /\ events \in Seq({"write", "chmod", "remove"})
    BY SMT DEF Init
<1>. QED BY <1>1, <1>2, <1>3, <1>4, <1>5 DEF TypeOK

LEMMA TypeNext == TypeOK /\ [Next]_vars => TypeOK'
<1> SUFFICES ASSUME TypeOK, [Next]_vars
             PROVE  TypeOK'
    OBVIOUS
<1>. USE DEF TypeOK, procVars, fileVars, Empty
<1>1. CASE MainStep
    <2>1. CASE ReadCrontab
        <3>1. file.jobs \subseteq Job
            BY <2>1, CrontabAssumption DEF ReadCrontab, Content, Valid, Broken, Absent
        <3>. QED BY <2>1, <3>1, ZenonT(40) DEF ReadCrontab
    <2>2. CASE ReadFails
        BY <2>2 DEF ReadFails, Die
    <2>3. ASSUME NEW j \in Job, StartJob(j)
          PROVE  TypeOK'
        BY <2>3 DEF StartJob
    <2>4. CASE RecvSignal
        BY <2>4 DEF RecvSignal
    <2>5. CASE Joined
        BY <2>5 DEF Joined
    <2>6. CASE ShutdownServer
        BY <2>6 DEF ShutdownServer
    <2>7. CASE Return
        BY <2>7 DEF Return
    <2>. QED BY <1>1, <2>1, <2>2, <2>3, <2>4, <2>5, <2>6, <2>7 DEF MainStep
<1>2. CASE WatcherStep
    <2>1. CASE TakeEvent
        BY <2>1 DEF TakeEvent
    <2>2. CASE AddWatch
        BY <2>2 DEF AddWatch
    <2>3. CASE AddFails
        BY <2>3 DEF AddFails, Die
    <2>4. CASE SendReload
        BY <2>4 DEF SendReload
    <2>. QED BY <1>2, <2>1, <2>2, <2>3, <2>4 DEF WatcherStep
<1>3. CASE ServeFails
    BY <1>3 DEF ServeFails, Die
<1>4. CASE RemoveOld
    BY <1>4 DEF RemoveOld, Unlinked
<1>5. CASE Delete
    <2>1. CASE watch = "current"
        BY <1>5, <2>1, SMTT(30) DEF Delete, Unlinked
    <2>2. CASE watch # "current"
        BY <1>5, <2>2 DEF Delete
    <2>. QED BY <2>1, <2>2
<1>6. ASSUME NEW sig \in {"USR2", "TERM"}, Kill(sig)
      PROVE  TypeOK'
    BY <1>6 DEF Kill
<1>7. ASSUME NEW content \in Content, Write(content)
      PROVE  TypeOK'
    BY <1>7 DEF Write
<1>8. ASSUME NEW content \in Content, Swap(content)
      PROVE  TypeOK'
    BY <1>8 DEF Swap
<1>9. ASSUME NEW j \in Job, LoopExits(j)
      PROVE  TypeOK'
    BY <1>9 DEF LoopExits
<1>10. CASE UNCHANGED vars
    BY <1>10 DEF vars
<1>. QED
    BY <1>1, <1>2, <1>3, <1>4, <1>5, <1>6, <1>7, <1>8, <1>9, <1>10 DEF Next, Outside

\* Types are kept by every step.
THEOREM TypeCorrect == Spec => []TypeOK
    BY TypeInit, TypeNext, PTL DEF Spec

-----------------------------------------------------------------------------
(* The invariant is inductive *)

LEMMA InvInit == Init => IInv
<1> SUFFICES ASSUME Init
             PROVE  IInv
    OBVIOUS
<1>1. OneGeneration /\ AllStarted
    BY Zenon DEF Init, OneGeneration, AllStarted
<1>2. Lagging
    BY DEF Init, Lagging
<1>3. WatchComesBack
    BY Zenon DEF Init, WatchComesBack
<1>4. NoLostRequest /\ NoMissedEdit
    BY Zenon DEF Init, NoLostRequest, NoMissedEdit, ReadAhead
<1>. QED BY <1>1, <1>2, <1>3, <1>4, TypeInit DEF IInv

\* The jobs of two crontabs do not mix.
LEMMA GenerationsNext ==
    IInv /\ [Next]_vars => OneGeneration' /\ AllStarted'
<1> SUFFICES ASSUME IInv, [Next]_vars
             PROVE  OneGeneration' /\ AllStarted'
    OBVIOUS
<1>. USE DEF IInv, OneGeneration, AllStarted
<1>1. CASE ReadCrontab
    BY <1>1 DEF ReadCrontab
<1>2. CASE ReadFails \/ AddFails \/ ServeFails
    BY <1>2 DEF ReadFails, AddFails, ServeFails, Die
<1>3. ASSUME NEW j \in Job, StartJob(j)
      PROVE  OneGeneration' /\ AllStarted'
    BY <1>3 DEF StartJob
<1>4. CASE RecvSignal
    BY <1>4 DEF RecvSignal
<1>5. CASE Joined
    BY <1>5 DEF Joined
<1>6. CASE Return
    BY <1>6 DEF Return
<1>7. ASSUME NEW j \in Job, LoopExits(j)
      PROVE  OneGeneration' /\ AllStarted'
    BY <1>7 DEF LoopExits
<1>8. CASE UNCHANGED procVars
    BY <1>8 DEF procVars
<1>. QED
    BY <1>1, <1>2, <1>3, <1>4, <1>5, <1>6, <1>7, <1>8
       DEF Next, MainStep, WatcherStep, Outside, ShutdownServer, TakeEvent, AddWatch,
           SendReload, RemoveOld, Delete, Kill, Write, Swap, vars

\* A request is met by the read that is coming, or was met.
LEMMA RequestsNext ==
    IInv /\ [Next]_vars => Lagging' /\ NoLostRequest'
<1> SUFFICES ASSUME IInv, [Next]_vars
             PROVE  Lagging' /\ NoLostRequest'
    OBVIOUS
<1>. USE DEF IInv, TypeOK, Lagging, NoLostRequest, ReadAhead, Empty
<1>1. CASE ReadCrontab
    BY <1>1 DEF ReadCrontab, fileVars
<1>2. CASE ReadFails \/ AddFails \/ ServeFails
    BY <1>2 DEF ReadFails, AddFails, ServeFails, Die, fileVars
<1>3. CASE RecvSignal
    BY <1>3 DEF RecvSignal, fileVars
<1>4. CASE Joined \/ Return
    BY <1>4 DEF Joined, Return, fileVars
<1>5. CASE SendReload
    BY <1>5 DEF SendReload, procVars, fileVars
<1>6. ASSUME NEW sig \in {"USR2", "TERM"}, Kill(sig)
      PROVE  Lagging' /\ NoLostRequest'
    BY <1>6 DEF Kill, procVars, fileVars
<1>7. ASSUME \/ \E content \in Content : Write(content) \/ Swap(content)
             \/ Delete
      PROVE  Lagging' /\ NoLostRequest'
    BY <1>7 DEF Write, Swap, Delete, procVars
<1>8. CASE UNCHANGED <<main, termChan, version, loaded, requested>>
    BY <1>8
<1>. QED
    BY <1>1, <1>2, <1>3, <1>4, <1>5, <1>6, <1>7, <1>8
       DEF Next, MainStep, WatcherStep, Outside, StartJob, ShutdownServer, TakeEvent,
           AddWatch, RemoveOld, LoopExits, procVars, fileVars, vars

LEMMA WatchNext ==
    IInv /\ [Next]_vars => WatchComesBack'
<1> SUFFICES ASSUME IInv, [Next]_vars
             PROVE  WatchComesBack'
    OBVIOUS
<1>0. WatchComesBack /\ events \in Seq({"write", "chmod", "remove"})
    BY DEF IInv, TypeOK
<1>1. CASE TakeEvent
    <2>. SUFFICES ASSUME watch = "gone"
                  PROVE  WatchComesBack'
        BY <1>0, <1>1 DEF TakeEvent, fileVars, WatchComesBack
    <2>1. PICK i \in DOMAIN events : events[i] = "remove"
        BY <1>0, <1>1 DEF TakeEvent, WatchComesBack
    <2>2. CASE i = 1
        <3>1. watcher' = "add"
            BY <1>0, <1>1, <2>1, <2>2 DEF TakeEvent
        <3>. QED BY <1>0, <1>1, <3>1 DEF TakeEvent, fileVars, WatchComesBack
    <2>3. CASE i # 1
        <3>1. i - 1 \in DOMAIN events' /\ events'[i - 1] = "remove"
            BY <1>0, <1>1, <2>1, <2>3, TailKeeps DEF TakeEvent
        <3>. QED BY <1>0, <1>1, <3>1 DEF TakeEvent, fileVars, WatchComesBack
    <2>. QED BY <2>2, <2>3
<1>2. CASE AddWatch
    BY <1>0, <1>2 DEF AddWatch, WatchComesBack
<1>3. CASE SendReload
    BY <1>0, <1>3 DEF SendReload, fileVars, WatchComesBack
<1>4. ASSUME NEW content \in Content, Write(content)
      PROVE  WatchComesBack'
    <2>1. CASE watch = "current"
        BY <1>0, <1>4, <2>1 DEF Write, WatchComesBack
    <2>2. CASE watch # "current"
        BY <1>0, <1>4, <2>2 DEF Write, WatchComesBack
    <2>. QED BY <2>1, <2>2
<1>5. ASSUME NEW content \in Content, Swap(content)
      PROVE  WatchComesBack'
    BY <1>0, <1>5 DEF Swap, WatchComesBack
<1>6. ASSUME events' = events \o Unlinked, watch' = "gone", watcher' = watcher
      PROVE  WatchComesBack'
    <2>1. Unlinked \in Seq({"write", "chmod", "remove"})
        BY DEF Unlinked
    <2>2. 2 \in DOMAIN Unlinked /\ Unlinked[2] = "remove"
        BY DEF Unlinked
    <2>3. /\ Len(events) + 2 \in DOMAIN events'
          /\ events'[Len(events) + 2] = "remove"
        BY <1>0, <1>6, <2>1, <2>2, AppendKeeps
    <2>. QED BY <1>6, <2>3 DEF WatchComesBack
<1>7. CASE UNCHANGED <<watcher, watch, events>>
    BY <1>0, <1>7 DEF WatchComesBack
<1>. QED
    BY <1>1, <1>2, <1>3, <1>4, <1>5, <1>6, <1>7
       DEF Next, MainStep, WatcherStep, Outside, ReadCrontab, ReadFails, StartJob,
           RecvSignal, Joined, ShutdownServer, Return, ServeFails, LoopExits,
           AddFails, RemoveOld, Delete, Kill, procVars, fileVars, vars

\* An edit that is not in use has a reload coming.
LEMMA EditsNext ==
    IInv /\ [Next]_vars => NoMissedEdit'
<1> SUFFICES ASSUME IInv, [Next]_vars
             PROVE  NoMissedEdit'
    OBVIOUS
<1>0. /\ WatchComesBack /\ NoMissedEdit
      /\ events \in Seq({"write", "chmod", "remove"})
      /\ version \in Nat /\ loaded \in Nat /\ loaded <= version
      /\ watch \in {"off", "current", "old", "gone"}
    BY DEF IInv, TypeOK, Lagging
<1>1. CASE ReadCrontab
    BY <1>0, <1>1 DEF ReadCrontab, fileVars, NoMissedEdit
<1>2. CASE ReadFails \/ AddFails \/ ServeFails \/ RecvSignal \/ Joined \/ Return
    <2>1. main' \in {"read", "join", "return", "exited"}
        BY <1>2 DEF ReadFails, AddFails, ServeFails, Die, RecvSignal, Joined, Return
    <2>. QED BY <2>1 DEF NoMissedEdit, ReadAhead
<1>3. CASE TakeEvent
    <2>1. UNCHANGED <<main, termChan, version, loaded, watch>>
        BY <1>3 DEF TakeEvent, procVars, fileVars
    <2>2. SignalDue => SignalDue'
        <3>1. SUFFICES ASSUME NEW i \in DOMAIN events, events[i] \in {"write", "remove"}
                       PROVE  SignalDue'
            BY <1>3 DEF SignalDue, TakeEvent
        <3>2. CASE i = 1
            BY <1>0, <1>3, <3>1, <3>2 DEF TakeEvent, SignalDue
        <3>3. CASE i # 1
            <4>1. i - 1 \in DOMAIN events' /\ events'[i - 1] = events[i]
                BY <1>0, <1>3, <3>1, <3>3, TailKeeps DEF TakeEvent
            <4>. QED BY <3>1, <4>1 DEF SignalDue
        <3>. QED BY <3>2, <3>3
    <2>. QED BY <1>0, <2>1, <2>2 DEF NoMissedEdit, ReadAhead
<1>4. CASE AddWatch
    BY <1>4 DEF AddWatch, NoMissedEdit, SignalDue
<1>5. CASE SendReload
    BY <1>5 DEF SendReload, NoMissedEdit, ReadAhead, Empty
<1>6. ASSUME NEW sig \in {"USR2", "TERM"}, Kill(sig)
      PROVE  NoMissedEdit'
    BY <1>6 DEF Kill, NoMissedEdit, ReadAhead, Empty
<1>7. ASSUME NEW t \in Seq({"write", "chmod", "remove"}), events' = events \o t,
             watcher' = watcher,
             \E i \in DOMAIN t : t[i] \in {"write", "remove"}
      PROVE  NoMissedEdit'
    <2>1. PICK i \in DOMAIN t : t[i] \in {"write", "remove"}
        BY <1>7
    <2>2. Len(events) + i \in DOMAIN events' /\ events'[Len(events) + i] = t[i]
        BY <1>0, <1>7, AppendKeeps
    <2>. QED BY <2>1, <2>2 DEF NoMissedEdit, SignalDue
<1>8. ASSUME watch # "current", watch' = watch, UNCHANGED <<watcher, events, main, termChan>>
      PROVE  NoMissedEdit'
    <2>1. watch = "gone" => SignalDue
        BY <1>0 DEF WatchComesBack, SignalDue
    <2>2. SignalDue => SignalDue'
        BY <1>8 DEF SignalDue
    <2>. QED BY <1>0, <1>8, <2>1, <2>2 DEF WatchComesBack, NoMissedEdit
<1>9. ASSUME NEW content \in Content, Write(content)
      PROVE  NoMissedEdit'
    <2>1. CASE watch = "current"
        <3>1. events' = events \o <<"write">> /\ watcher' = watcher
            BY <1>0, <1>9, <2>1 DEF Write
        <3>2. /\ <<"write">> \in Seq({"write", "chmod", "remove"})
              /\ 1 \in DOMAIN <<"write">> /\ <<"write">>[1] = "write"
            OBVIOUS
        <3>. QED BY <1>7, <3>1, <3>2
    <2>2. CASE watch # "current"
        BY <1>8, <1>9, <2>2 DEF Write, procVars
    <2>. QED BY <2>1, <2>2
<1>10. ASSUME NEW content \in Content, Swap(content)
       PROVE  NoMissedEdit'
    <2>1. CASE watch = "current"
        BY <1>10, <2>1 DEF Swap, NoMissedEdit
    <2>2. CASE watch # "current"
        BY <1>8, <1>10, <2>2 DEF Swap, procVars
    <2>. QED BY <2>1, <2>2
<1>11. Unlinked \in Seq({"write", "chmod", "remove"})
       /\ 2 \in DOMAIN Unlinked /\ Unlinked[2] = "remove"
    BY DEF Unlinked
<1>12. CASE RemoveOld
    BY <1>7, <1>11, <1>12 DEF RemoveOld
<1>13. CASE Delete
    <2>1. CASE watch = "current"
        BY <1>7, <1>11, <1>13, <2>1 DEF Delete
    <2>2. CASE watch # "current"
        BY <1>8, <1>13, <2>2 DEF Delete, procVars
    <2>. QED BY <2>1, <2>2
<1>14. CASE UNCHANGED <<main, termChan, watcher, version, loaded, watch, events>>
    BY <1>0, <1>14 DEF NoMissedEdit, SignalDue, ReadAhead
<1>. QED
    BY <1>1, <1>2, <1>3, <1>4, <1>5, <1>6, <1>9, <1>10, <1>12, <1>13, <1>14
       DEF Next, MainStep, WatcherStep, Outside, StartJob, ShutdownServer, LoopExits,
           procVars, fileVars, vars

THEOREM Invariant == Spec => []IInv
<1>1. IInv /\ [Next]_vars => IInv'
    BY TypeNext, GenerationsNext, RequestsNext, WatchNext, EditsNext DEF IInv
<1>. QED BY InvInit, <1>1, PTL DEF Spec

-----------------------------------------------------------------------------
(* What follows from the invariant *)

\* A request to reload is never lost, not even one that signal.Notify dropped
\* because the buffer of termChan was full.
THEOREM RequestsAreKept == Spec => []NoLostRequest
<1>1. IInv => NoLostRequest
    BY DEF IInv
<1>. QED BY <1>1, Invariant, PTL

\* With -inotify no edit goes unnoticed: the watch is put back before the
\* reload is asked for, so that what changed in between is read (main.go:213).
THEOREM EditsAreNoticed == Spec => []NoMissedEdit
<1>1. IInv => NoMissedEdit
    BY DEF IInv
<1>. QED BY <1>1, Invariant, PTL

\* The jobs of one crontab are gone before those of the next are started.
THEOREM GenerationsApart == Spec => []OneGeneration
<1>1. IInv => OneGeneration
    BY DEF IInv
<1>. QED BY <1>1, Invariant, PTL
=============================================================================
