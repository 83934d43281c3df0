----------------------------- MODULE CronProofs -----------------------------
(***************************************************************************)
(* Theorems about Cron for every crontab, every schedule (infinite ones    *)
(* included), both values of -overlapping and any number of reloads: the   *)
(* runs, the wait groups, the service it implements and its series.        *)
(***************************************************************************)
EXTENDS Cron, FiniteSetTheorems, WellFoundedInduction, TLAPS

-----------------------------------------------------------------------------
(* The inductive invariant *)

\* The wait groups count what they stand for.
Counted ==
    /\ IsFiniteSet(LiveLoops)
    /\ wg = Cardinality(LiveLoops)
    /\ \A j \in Job : IsFiniteSet(Active(j)) /\ jobWg[j] = Cardinality(Active(j))

\* A loop that is not live has let all its runs end, and a loop leaves only
\* because the caller asked it to.
Drained ==
    \A j \in Job :
        /\ loop[j] \in {"off", "done"} => Active(j) = {}
        /\ loop[j] \in {"drain", "done"} => exitCtx

\* Without overlapping the only run is the one that the loop's call is in.
OneCall ==
    \A j \in Job :
        /\ loop[j] = "call" => ~Overlapping /\ Active(j) = {nextRun[j]}
        /\ ~Overlapping /\ loop[j] # "call" => Active(j) = {}

\* Instants are started in order: what was started lies behind last, last lies
\* behind nextRun, and a loop waits for an instant that is still to start.
InOrder ==
    \A j \in Job :
        /\ \A s \in Schedule[j] : run[j][s] # "none" => s <= last[j]
        /\ last[j] <= now
        /\ freed[j] <= now
        /\ loop[j] \in {"next", "call"} => last[j] <= nextRun[j]
        /\ loop[j] = "select" => last[j] < nextRun[j] /\ freed[j] <= nextRun[j]

IInv == TypeOK /\ Counted /\ Drained /\ OneCall /\ InOrder

-----------------------------------------------------------------------------
(* The schedule *)

\* Every non-empty set of instants has an earliest one.
LEMMA EarliestIsFirst ==
    ASSUME NEW S \in SUBSET Nat, S # {}
    PROVE  /\ Earliest(S) \in S
           /\ \A u \in S : Earliest(S) <= u
<1> DEFINE R == {p \in Nat \X Nat : p[1] < p[2]}
<1>1. IsWellFoundedOn(R, Nat)
    BY NatLessThanWellFounded DEF OpToRel
<1>. HIDE DEF R
<1>2. PICK s \in S : \A u \in S : ~ (<<u, s>> \in R)
    BY <1>1, WFMin, Zenon
<1>3. \A u \in S : s <= u
    <2>. SUFFICES ASSUME NEW u \in S
                  PROVE  s <= u
        OBVIOUS
    <2>. s \in Nat /\ u \in Nat
        OBVIOUS
    <2>1. <<u, s>> \notin R
        BY <1>2
    <2>2. ~(u < s)
        BY <2>1 DEF R
    <2>. QED BY <2>2
<1>. QED BY <1>3 DEF Earliest

\* Expression.Next answers the zero time or a later match.
LEMMA NextMatchIsLater ==
    ASSUME NEW j \in Job, NEW t \in Nat
    PROVE  /\ NextMatch(j, t) \in Nat
           /\ NextMatch(j, t) # Zero =>
                 NextMatch(j, t) \in Schedule[j] /\ NextMatch(j, t) > t
<1>1. Later(j, t) \in SUBSET Nat
    BY ScheduleAssumption DEF Later
<1>2. CASE t = Zero \/ Later(j, t) = {}
    BY <1>2 DEF NextMatch, Zero
<1>3. CASE ~(t = Zero \/ Later(j, t) = {})
    <2>1. NextMatch(j, t) = Earliest(Later(j, t))
        BY <1>3 DEF NextMatch
    <2>2. NextMatch(j, t) \in Later(j, t)
        BY <1>1, <1>3, <2>1, EarliestIsFirst
    <2>. QED BY <1>1, <2>2 DEF Later
<1>. QED BY <1>2, <1>3

-----------------------------------------------------------------------------
(* Types *)

LEMMA InstantsAreNaturals ==
    /\ \A j \in Job : Schedule[j] \subseteq Instant /\ Schedule[j] \subseteq Nat \ {0}
    /\ Instant \subseteq Nat \ {0}
<1>1. \A j \in Job : Schedule[j] \subseteq Nat \ {0}
    BY ScheduleAssumption
<1>. QED BY <1>1 DEF Instant

LEMMA SeriesEdits ==
    ASSUME NEW m \in SeriesType
    PROVE  /\ [m EXCEPT !.running = @ + 1] \in SeriesType
           /\ [m EXCEPT !.executions = @ + 1] \in SeriesType
           /\ [m EXCEPT !.successes = @ + 1] \in SeriesType
           /\ [m EXCEPT !.failures = @ + 1] \in SeriesType
           /\ [m EXCEPT !.deadlines = @ + 1] \in SeriesType
           /\ [m EXCEPT !.timings = @ + 1, !.running = @ - 1] \in SeriesType
<1> DEFINE n == [m EXCEPT !.timings = @ + 1]
<1>1. [m EXCEPT !.running = @ + 1] \in SeriesType
    BY DEF SeriesType
<1>2. [m EXCEPT !.executions = @ + 1] \in SeriesType
    BY DEF SeriesType
<1>3. [m EXCEPT !.successes = @ + 1] \in SeriesType
    BY DEF SeriesType
<1>4. [m EXCEPT !.failures = @ + 1] \in SeriesType
    BY DEF SeriesType
<1>5. [m EXCEPT !.deadlines = @ + 1] \in SeriesType
    BY DEF SeriesType
<1>6. n \in SeriesType /\ n.running = m.running /\ m.running - 1 \in Int
    BY DEF SeriesType
<1>7. [m EXCEPT !.timings = @ + 1, !.running = @ - 1]
         = [n EXCEPT !.running = m.running - 1]
    BY Zenon
<1>. HIDE DEF n
<1>8. [n EXCEPT !.running = m.running - 1] \in SeriesType
    BY <1>6 DEF SeriesType
<1>. QED BY <1>1, <1>2, <1>3, <1>4, <1>5, <1>7, <1>8

LEMMA TypeInit == Init => TypeOK
<1> SUFFICES ASSUME Init
             PROVE  TypeOK
    OBVIOUS
<1>1. NoSeries \in SeriesType
    BY DEF NoSeries, SeriesType
<1>2. metrics \in [Job -> SeriesType]
    BY <1>1 DEF Init
<1>3. run \in [Job -> [Instant -> RunState]] /\ deadline \in [Job -> [Instant -> Nat]]
    BY DEF Init, RunState, Zero
<1>4. watching \in [Job -> SUBSET Instant]
    BY DEF Init
<1>5. /\ loop \in [Job -> LoopState]
      /\ \A j \in Job : loop[j] = "off"
    BY DEF Init, LoopState
<1>6. /\ nextRun \in [Job -> Nat]
      /\ jobWg \in [Job -> Int]
      /\ last \in [Job -> Nat]
      /\ freed \in [Job -> Nat]
    BY DEF Init, Zero
<1>7. now \in Nat \ {0} /\ wg \in Int
    BY DEF Init
<1>8. exitCtx \in BOOLEAN
    BY Zenon DEF Init
<1>. QED BY <1>2, <1>3, <1>4, <1>5, <1>6, <1>7, <1>8 DEF TypeOK

LEMMA TypeNext == TypeOK /\ [Next]_vars => TypeOK'
<1> SUFFICES ASSUME TypeOK, [Next]_vars
             PROVE  TypeOK'
    OBVIOUS
<1>. USE DEF TypeOK
<1>1. CASE Tick
    BY <1>1 DEF Tick, loopVars, runVars, history
<1>2. CASE NotifyExit
    BY <1>2 DEF NotifyExit, loopVars, runVars, history
<1>3. CASE Reload
    BY <1>3 DEF Reload, runVars, history, LoopState, NoSeries, SeriesType
<1>4. ASSUME NEW j \in Job, StartJob(j)
      PROVE  TypeOK'
    BY <1>4 DEF StartJob, runVars, LoopState
<1>5. ASSUME NEW j \in Job, ReadClock(j)
      PROVE  TypeOK'
    BY <1>5 DEF ReadClock, runVars, history, LoopState
<1>6. ASSUME NEW j \in Job, TooLate(j)
      PROVE  TypeOK'
    BY <1>6 DEF TooLate, runVars, history
<1>7. ASSUME NEW j \in Job, Arm(j)
      PROVE  TypeOK'
    <2>1. NextMatch(j, nextRun[j]) \in Schedule[j]
        BY <1>7, NextMatchIsLater DEF Arm, Zero
    <2>. QED BY <1>7, <2>1, InstantsAreNaturals DEF Arm, runVars, history, LoopState
<1>8. ASSUME NEW j \in Job, SelectExit(j)
      PROVE  TypeOK'
    BY <1>8 DEF SelectExit, runVars, history, LoopState
<1>9. ASSUME NEW j \in Job, SelectTimer(j)
      PROVE  TypeOK'
    <2>1. nextRun[j] \in Instant
        BY <1>9, InstantsAreNaturals DEF SelectTimer
    <2>. QED BY <1>9, <2>1 DEF SelectTimer, LoopState, RunState
<1>10. ASSUME NEW j \in Job, Drain(j)
       PROVE  TypeOK'
    BY <1>10 DEF Drain, runVars, history, LoopState
<1>11. ASSUME NEW j \in Job, NEW s \in Schedule[j], RunStep(j, s)
       PROVE  TypeOK'
    <2>. s \in Instant /\ s \in Nat
        BY InstantsAreNaturals
    <2>0. metrics[j] \in SeriesType
        OBVIOUS
    <2>1. CASE BeginRun(j, s)
        <3>1. metrics' \in [Job -> SeriesType]
            BY <2>0, <2>1, SeriesEdits DEF BeginRun
        <3>2. deadline' \in [Job -> [Instant -> Nat]]
            BY <2>1, NextMatchIsLater DEF BeginRun
        <3>. QED BY <2>1, <3>1, <3>2 DEF BeginRun, loopVars, history, RunState
    <2>2. CASE RunJob(j, s)
        <3>1. metrics' \in [Job -> SeriesType]
            BY <2>0, <2>2, SeriesEdits DEF RunJob
        <3>. QED BY <2>2, <3>1 DEF RunJob, loopVars, history, RunState
    <2>3. CASE CountResult(j, s)
        <3>1. metrics' \in [Job -> SeriesType]
            BY <2>0, <2>3, SeriesEdits DEF CountResult
        <3>. QED BY <2>3, <3>1 DEF CountResult, loopVars, history, RunState
    <2>4. CASE FinishRun(j, s)
        <3>1. metrics' \in [Job -> SeriesType]
            BY <2>0, <2>4, SeriesEdits DEF FinishRun
        <3>. QED BY <2>4, <3>1 DEF FinishRun, loopVars, history, RunState
    <2>5. CASE EndRun(j, s)
        <3>1. CASE Overlapping
            BY <2>5, <3>1 DEF EndRun, RunState
        <3>2. CASE ~Overlapping
            <4>1. loop' \in [Job -> LoopState] /\ freed' \in [Job -> Nat]
                BY <2>5, <3>2, ZenonT(40) DEF EndRun, LoopState
            <4>2. run' \in [Job -> [Instant -> RunState]] /\ jobWg' \in [Job -> Int]
                BY <2>5 DEF EndRun, RunState
            <4>3. \A i \in Job : loop'[i] \in {"select", "call"} => nextRun'[i] \in Schedule[i]
                BY <2>5, <3>2 DEF EndRun
            <4>. QED BY <2>5, <4>1, <4>2, <4>3 DEF EndRun
        <3>. QED BY <3>1, <3>2
    <2>. QED BY <1>11, <2>1, <2>2, <2>3, <2>4, <2>5 DEF RunStep
<1>12. ASSUME NEW j \in Job, NEW s \in Schedule[j], MonitorStep(j, s)
       PROVE  TypeOK'
    <2>. s \in Instant
        BY InstantsAreNaturals
    <2>1. CASE MonitorDeadline(j, s)
        <3>1. metrics' \in [Job -> SeriesType]
            BY <2>1, SeriesEdits DEF MonitorDeadline
        <3>2. deadline' \in [Job -> [Instant -> Nat]]
            BY <2>1, NextMatchIsLater DEF MonitorDeadline
        <3>. QED BY <2>1, <3>1, <3>2 DEF MonitorDeadline, loopVars, history
    <2>2. CASE MonitorDone(j, s)
        BY <2>2 DEF MonitorDone, loopVars, history, Zero
    <2>. QED BY <1>12, <2>1, <2>2 DEF MonitorStep
<1>13. CASE UNCHANGED vars
    BY <1>13 DEF vars, loopVars, runVars, history
<1>. QED
    BY <1>1, <1>2, <1>3, <1>4, <1>5, <1>6, <1>7, <1>8, <1>9, <1>10, <1>11, <1>12, <1>13
       DEF Next, CallerStep, LoopStep

\* Types are kept by every step.
THEOREM TypeCorrect == Spec => []TypeOK
    BY TypeInit, TypeNext, PTL DEF Spec

-----------------------------------------------------------------------------
(* What a change of one loop or of one run does to the sets they make up *)

LEMMA LiveChange ==
    ASSUME TypeOK, NEW j \in Job, NEW x, loop' = [loop EXCEPT ![j] = x]
    PROVE  /\ x \in Live => LiveLoops' = LiveLoops \cup {j}
           /\ x \notin Live => LiveLoops' = LiveLoops \ {j}
    BY DEF TypeOK, LiveLoops

LEMMA RunChange ==
    ASSUME TypeOK, NEW j \in Job, NEW s \in Schedule[j], NEW x,
           run' = [run EXCEPT ![j][s] = x]
    PROVE  /\ run'[j][s] = x
           /\ \A i \in Job : \A u \in Schedule[i] :
                 i # j \/ u # s => run'[i][u] = run[i][u]
           /\ \A i \in Job : i # j => Active(i)' = Active(i)
           /\ x \in Underway => Active(j)' = Active(j) \cup {s}
           /\ x \notin Underway => Active(j)' = Active(j) \ {s}
<1>1. \A i \in Job : Schedule[i] \subseteq Instant
    BY InstantsAreNaturals
<1>2. run \in [Job -> [Instant -> RunState]]
    BY DEF TypeOK
<1>3. run'[j][s] = x
    BY <1>1, <1>2
<1>4. \A i \in Job : \A u \in Schedule[i] :
         i # j \/ u # s => run'[i][u] = run[i][u]
    BY <1>1, <1>2
<1>5. \A i \in Job : i # j => Active(i)' = Active(i)
    BY <1>4 DEF Active
<1>6. \A u \in Schedule[j] : u # s => run'[j][u] = run[j][u]
    BY <1>4
<1>7. Active(j)' = {u \in Schedule[j] : run'[j][u] \in Underway}
    BY DEF Active
<1>8. x \in Underway => Active(j)' = Active(j) \cup {s}
    BY <1>3, <1>6, <1>7 DEF Active
<1>9. x \notin Underway => Active(j)' = Active(j) \ {s}
    BY <1>3, <1>6, <1>7 DEF Active
<1>. QED BY <1>3, <1>4, <1>5, <1>8, <1>9

-----------------------------------------------------------------------------
(* The invariant is inductive *)

LEMMA InvInit == Init => IInv
<1> SUFFICES ASSUME Init
             PROVE  IInv
    OBVIOUS
<1>1. TypeOK
    BY TypeInit
<1>2. \A j \in Job : loop[j] = "off" /\ jobWg[j] = 0 /\ last[j] = 0 /\ freed[j] = 0
    BY DEF Init
<1>3. \A j \in Job : \A s \in Schedule[j] : run[j][s] = "none"
    BY InstantsAreNaturals DEF Init
<1>4. LiveLoops = {} /\ \A j \in Job : Active(j) = {}
    BY <1>2, <1>3 DEF LiveLoops, Live, Active, Underway, Gauged
<1>5. Counted
    BY <1>2, <1>4, FS_EmptySet DEF Init, Counted
<1>6. Drained /\ OneCall
    BY <1>2, <1>4 DEF Drained, OneCall
<1>7. InOrder
    BY <1>2, <1>3 DEF Init, InOrder
<1>. QED BY <1>1, <1>5, <1>6, <1>7 DEF IInv

\* Steps that leave the runs, the wait groups and who is live alone.
LEMMA Undisturbed ==
    ASSUME IInv, LiveLoops' = LiveLoops,
           UNCHANGED <<wg, jobWg, run>>
    PROVE  Counted' /\ \A j \in Job : Active(j)' = Active(j)
    BY DEF IInv, Counted, Active

LEMMA InvNext == IInv /\ [Next]_vars => IInv'
<1> SUFFICES ASSUME IInv, [Next]_vars
             PROVE  IInv'
    OBVIOUS
<1>0. TypeOK /\ TypeOK'
    BY TypeNext DEF IInv
<1>1. CASE Tick
    <2>1. LiveLoops' = LiveLoops
        BY <1>1 DEF Tick, loopVars, LiveLoops
    <2>2. Counted' /\ \A j \in Job : Active(j)' = Active(j)
        BY <1>1, <2>1, Undisturbed DEF Tick, loopVars, runVars
    <2>3. Drained' /\ OneCall'
        BY <1>1, <2>2 DEF Tick, loopVars, IInv, Drained, OneCall
    <2>4. InOrder'
        BY <1>0, <1>1 DEF Tick, loopVars, runVars, history, IInv, InOrder, TypeOK
    <2>. QED BY <1>0, <2>2, <2>3, <2>4 DEF IInv
<1>2. CASE NotifyExit
    <2>1. LiveLoops' = LiveLoops
        BY <1>2 DEF NotifyExit, loopVars, LiveLoops
    <2>2. Counted' /\ \A j \in Job : Active(j)' = Active(j)
        BY <1>2, <2>1, Undisturbed DEF NotifyExit, loopVars, runVars
    <2>3. Drained' /\ OneCall' /\ InOrder'
        BY <1>2, <2>2 DEF NotifyExit, loopVars, runVars, history,
                          IInv, Drained, OneCall, InOrder
    <2>. QED BY <1>0, <2>2, <2>3 DEF IInv
<1>3. CASE Reload
    <2>1. LiveLoops = {}
        BY <1>3, FS_EmptySet DEF Reload, IInv, Counted
    <2>2. \A j \in Job : loop[j] \in {"off", "done"}
        BY <1>0, <2>1 DEF LiveLoops, Live, TypeOK
    <2>3. \A j \in Job : loop'[j] = "off"
        BY <1>3 DEF Reload
    <2>4. LiveLoops' = LiveLoops
        BY <2>1, <2>3 DEF LiveLoops, Live
    <2>5. Counted' /\ \A j \in Job : Active(j)' = Active(j)
        BY <1>3, <2>4, Undisturbed DEF Reload, runVars
    <2>6. Drained' /\ OneCall'
        BY <2>2, <2>3, <2>5 DEF IInv, Drained, OneCall
    <2>7. InOrder'
        BY <1>3, <2>3 DEF Reload, runVars, history, IInv, InOrder
    <2>. QED BY <1>0, <2>5, <2>6, <2>7 DEF IInv
<1>4. ASSUME NEW j \in Job, StartJob(j)
      PROVE  IInv'
    <2>1. j \notin LiveLoops /\ LiveLoops' = LiveLoops \cup {j}
        <3>1. loop' = [loop EXCEPT ![j] = "new"] /\ "new" \in Live
            BY <1>4 DEF StartJob, Live, LoopState
        <3>2. j \notin LiveLoops
            BY <1>4 DEF StartJob, LiveLoops, Live
        <3>. QED BY <1>0, <3>1, <3>2, LiveChange
    <2>2. \A i \in Job : Active(i)' = Active(i)
        BY <1>4 DEF StartJob, runVars, Active
    <2>3. Counted'
        BY <1>4, <2>1, <2>2, FS_AddElement DEF StartJob, IInv, Counted
    <2>4. \A i \in Job : loop'[i] = IF i = j THEN "new" ELSE loop[i]
        BY <1>0, <1>4 DEF StartJob, TypeOK
    <2>5. Drained' /\ OneCall'
        BY <1>4, <2>2, <2>4 DEF StartJob, IInv, Drained, OneCall
    <2>6. InOrder'
        BY <1>0, <1>4, <2>4 DEF StartJob, runVars, IInv, InOrder, TypeOK
    <2>. QED BY <1>0, <2>3, <2>5, <2>6 DEF IInv
<1>5. ASSUME NEW j \in Job, ReadClock(j) \/ TooLate(j) \/ Arm(j) \/ SelectExit(j)
      PROVE  IInv'
    <2>1. LiveLoops' = LiveLoops
        <3>1. CASE TooLate(j)
            BY <3>1 DEF TooLate, LiveLoops
        <3>2. CASE ReadClock(j)
            BY <1>0, <3>2, LiveChange DEF ReadClock, LiveLoops, Live, LoopState
        <3>3. CASE Arm(j)
            BY <1>0, <3>3, LiveChange DEF Arm, LiveLoops, Live, LoopState
        <3>4. CASE SelectExit(j)
            BY <1>0, <3>4, LiveChange DEF SelectExit, LiveLoops, Live, LoopState
        <3>. QED BY <1>5, <3>1, <3>2, <3>3, <3>4
    <2>2. UNCHANGED <<now, wg, jobWg, run, last, freed>>
        BY <1>5 DEF ReadClock, TooLate, Arm, SelectExit, runVars, history
    <2>3. Counted' /\ \A i \in Job : Active(i)' = Active(i)
        BY <2>1, <2>2, Undisturbed
    <2>4. /\ \A i \in Job : i # j => loop'[i] = loop[i] /\ nextRun'[i] = nextRun[i]
          /\ loop[j] \in {"new", "next", "select"}
          /\ loop'[j] \in {"next", "select"} \/ (loop'[j] = "drain" /\ exitCtx)
          /\ exitCtx' = exitCtx
        BY <1>0, <1>5 DEF ReadClock, TooLate, Arm, SelectExit, TypeOK
    <2>5. Drained' /\ OneCall'
        BY <2>3, <2>4 DEF IInv, Drained, OneCall
    <2>6. loop'[j] = "next" => last[j] <= nextRun'[j]
        BY <1>0, <1>5 DEF ReadClock, TooLate, Arm, SelectExit, IInv, InOrder, TypeOK
    <2>7. loop'[j] = "select" => last[j] < nextRun'[j] /\ freed[j] <= nextRun'[j]
        <3>1. CASE Arm(j)
            <4>1. NextMatch(j, nextRun[j]) > nextRun[j]
                BY <1>0, <3>1, NextMatchIsLater DEF Arm, TypeOK, Zero
            <4>2. /\ nextRun'[j] = NextMatch(j, nextRun[j])
                  /\ nextRun'[j] >= now
                  /\ last[j] <= nextRun[j] /\ freed[j] <= now
                BY <1>0, <3>1 DEF Arm, IInv, InOrder, TypeOK
            <4>. QED BY <1>0, <4>1, <4>2 DEF TypeOK
        <3>2. CASE ~Arm(j)
            BY <1>0, <1>5, <3>2 DEF ReadClock, TooLate, SelectExit, TypeOK
        <3>. QED BY <3>1, <3>2
    <2>8. InOrder'
        BY <2>2, <2>4, <2>6, <2>7 DEF IInv, InOrder
    <2>. QED BY <1>0, <2>3, <2>5, <2>8 DEF IInv
<1>6. ASSUME NEW j \in Job, SelectTimer(j)
      PROVE  IInv'
    <2>1. PICK s \in Schedule[j] : s = nextRun[j] /\ s \in Nat /\ last[j] < s /\ s <= now
        BY <1>0, <1>6 DEF SelectTimer, IInv, InOrder, TypeOK
    <2>2. run[j][s] = "none"
        BY <1>0, <2>1 DEF IInv, InOrder, TypeOK
    <2>3. s \notin Active(j)
        BY <2>2 DEF Active, Underway, Gauged
    <2>4. /\ Active(j)' = Active(j) \cup {s}
          /\ \A i \in Job : i # j => Active(i)' = Active(i)
          /\ \A i \in Job : \A u \in Schedule[i] :
                i # j \/ u # s => run'[i][u] = run[i][u]
        <3>1. run' = [run EXCEPT ![j][s] = "begin"] /\ "begin" \in Underway
            BY <1>6, <2>1 DEF SelectTimer, Underway
        <3>2. Active(j)' = Active(j) \cup {s}
            BY <1>0, <3>1, RunChange
        <3>3. \A i \in Job : i # j => Active(i)' = Active(i)
            BY <1>0, <3>1, RunChange
        <3>4. \A i \in Job : \A u \in Schedule[i] :
                 i # j \/ u # s => run'[i][u] = run[i][u]
            BY <1>0, <3>1, RunChange
        <3>. QED BY <3>2, <3>3, <3>4
    <2>5. /\ \A i \in Job : i # j => loop'[i] = loop[i]
          /\ loop[j] = "select"
          /\ loop'[j] = IF Overlapping THEN "next" ELSE "call"
          /\ exitCtx' = exitCtx
        BY <1>0, <1>6 DEF SelectTimer, TypeOK
    <2>6. LiveLoops' = LiveLoops
        BY <1>0, <1>6, LiveChange DEF SelectTimer, LiveLoops, Live, LoopState
    <2>7. Counted'
        <3>1. jobWg' = [jobWg EXCEPT ![j] = jobWg[j] + 1] /\ wg' = wg
            BY <1>6 DEF SelectTimer
        <3>2. IsFiniteSet(Active(j)) /\ jobWg[j] = Cardinality(Active(j))
            BY DEF IInv, Counted
        <3>3. IsFiniteSet(Active(j)') /\ Cardinality(Active(j)') = jobWg[j] + 1
            BY <2>3, <2>4, <3>2, FS_AddElement
        <3>4. \A i \in Job : IsFiniteSet(Active(i)') /\ jobWg'[i] = Cardinality(Active(i)')
            <4>1. jobWg'[j] = Cardinality(Active(j)')
                BY <1>0, <3>1, <3>3 DEF TypeOK
            <4>2. ASSUME NEW i \in Job, i # j
                  PROVE  IsFiniteSet(Active(i)') /\ jobWg'[i] = Cardinality(Active(i)')
                BY <1>0, <2>4, <3>1, <4>2 DEF IInv, Counted, TypeOK
            <4>. QED BY <3>3, <4>1, <4>2
        <3>. QED BY <2>6, <3>1, <3>4 DEF IInv, Counted
    <2>8. Drained'
        BY <2>4, <2>5 DEF IInv, Drained
    <2>9. OneCall'
        BY <1>6, <2>1, <2>4, <2>5 DEF SelectTimer, IInv, OneCall
    <2>10. InOrder'
        <3>1. /\ last' = [last EXCEPT ![j] = s]
              /\ UNCHANGED <<now, freed, nextRun>>
            BY <1>6, <2>1 DEF SelectTimer
        <3>2. ASSUME NEW i \in Job, NEW u \in Schedule[i], run'[i][u] # "none"
              PROVE  u <= last'[i]
            BY <1>0, <2>1, <2>4, <3>1, <3>2, InstantsAreNaturals DEF IInv, InOrder, TypeOK
        <3>3. ASSUME NEW i \in Job
              PROVE  /\ last'[i] <= now /\ freed[i] <= now
                     /\ loop'[i] \in {"next", "call"} => last'[i] <= nextRun[i]
                     /\ loop'[i] = "select" => last'[i] < nextRun[i] /\ freed[i] <= nextRun[i]
            BY <1>0, <2>1, <2>5, <3>1 DEF IInv, InOrder, TypeOK
        <3>. QED BY <3>1, <3>2, <3>3 DEF InOrder
    <2>. QED BY <1>0, <2>7, <2>8, <2>9, <2>10 DEF IInv
<1>7. ASSUME NEW j \in Job, Drain(j)
      PROVE  IInv'
    <2>1. Active(j) = {}
        BY <1>7, FS_EmptySet DEF Drain, IInv, Counted
    <2>2. \A i \in Job : Active(i)' = Active(i)
        BY <1>7 DEF Drain, runVars, Active
    <2>3. j \in LiveLoops /\ LiveLoops' = LiveLoops \ {j}
        BY <1>0, <1>7, LiveChange DEF Drain, LiveLoops, Live, LoopState
    <2>4. Counted'
        BY <1>7, <2>2, <2>3, FS_RemoveElement DEF Drain, IInv, Counted
    <2>5. \A i \in Job : loop'[i] = IF i = j THEN "done" ELSE loop[i]
        BY <1>0, <1>7 DEF Drain, TypeOK
    <2>6. Drained' /\ OneCall'
        BY <1>7, <2>1, <2>2, <2>5 DEF Drain, IInv, Drained, OneCall
    <2>7. InOrder'
        BY <1>7, <2>5 DEF Drain, runVars, history, IInv, InOrder
    <2>. QED BY <1>0, <2>4, <2>6, <2>7 DEF IInv
<1>8. ASSUME NEW j \in Job, NEW s \in Schedule[j],
             BeginRun(j, s) \/ RunJob(j, s) \/ CountResult(j, s) \/ FinishRun(j, s)
      PROVE  IInv'
    <2>1. PICK x \in Underway : run' = [run EXCEPT ![j][s] = x]
        BY <1>8 DEF BeginRun, RunJob, CountResult, FinishRun, Underway, Gauged
    <2>2. s \in Active(j)
        BY <1>8 DEF BeginRun, RunJob, CountResult, FinishRun, Active, Underway, Gauged
    <2>3. UNCHANGED <<now, exitCtx, wg, loop, nextRun, jobWg, last, freed>>
        BY <1>8 DEF BeginRun, RunJob, CountResult, FinishRun, loopVars, history
    <2>4. \A i \in Job : Active(i)' = Active(i)
        <3>1. /\ Active(j)' = Active(j) \cup {s}
              /\ \A i \in Job : i # j => Active(i)' = Active(i)
            BY <1>0, <2>1, RunChange
        <3>. QED BY <2>2, <3>1
    <2>5. Counted'
        BY <2>3, <2>4 DEF IInv, Counted, LiveLoops
    <2>6. Drained' /\ OneCall'
        BY <2>3, <2>4 DEF IInv, Drained, OneCall
    <2>7. \A i \in Job : \A u \in Schedule[i] :
             run'[i][u] # "none" => run[i][u] # "none"
        <3>1. run[j][s] # "none"
            BY <2>2 DEF Active, Underway, Gauged
        <3>. QED BY <1>0, <2>1, <3>1, RunChange
    <2>8. InOrder'
        BY <2>3, <2>7 DEF IInv, InOrder
    <2>. QED BY <1>0, <2>5, <2>6, <2>8 DEF IInv
<1>9. ASSUME NEW j \in Job, NEW s \in Schedule[j], EndRun(j, s)
      PROVE  IInv'
    <2>1. s \in Active(j)
        BY <1>9 DEF EndRun, Active, Underway, Gauged
    <2>2. /\ Active(j)' = Active(j) \ {s}
          /\ \A i \in Job : i # j => Active(i)' = Active(i)
        <3>1. run' = [run EXCEPT ![j][s] = "ended"] /\ "ended" \notin Underway
            BY <1>9 DEF EndRun, Underway, Gauged
        <3>. QED BY <1>0, <3>1, RunChange
    <2>3. \A i \in Job : \A u \in Schedule[i] :
             run'[i][u] # "none" => run[i][u] # "none"
        <3>1. run[j][s] # "none"
            BY <1>9 DEF EndRun
        <3>. QED BY <1>0, <1>9, <3>1, RunChange DEF EndRun
    <2>4. ~Overlapping => loop[j] = "call" /\ Active(j) = {nextRun[j]}
        BY <2>1 DEF IInv, OneCall
    <2>5. /\ \A i \in Job : i # j => loop'[i] = loop[i]
          /\ loop'[j] = IF Overlapping THEN loop[j] ELSE "next"
        <3>1. CASE Overlapping
            BY <1>9, <3>1 DEF EndRun
        <3>2. CASE ~Overlapping
            BY <1>0, <1>9, <3>2 DEF EndRun, TypeOK
        <3>. QED BY <3>1, <3>2
    <2>6. LiveLoops' = LiveLoops
        BY <2>4, <2>5 DEF LiveLoops, Live, LoopState
    <2>7. Counted'
        <3>1. jobWg' = [jobWg EXCEPT ![j] = jobWg[j] - 1] /\ wg' = wg
            BY <1>9 DEF EndRun
        <3>2. IsFiniteSet(Active(j)) /\ jobWg[j] = Cardinality(Active(j))
            BY DEF IInv, Counted
        <3>3. IsFiniteSet(Active(j)') /\ Cardinality(Active(j)') = jobWg[j] - 1
            BY <2>1, <2>2, <3>2, FS_RemoveElement
        <3>4. \A i \in Job : IsFiniteSet(Active(i)') /\ jobWg'[i] = Cardinality(Active(i)')
            <4>1. jobWg'[j] = Cardinality(Active(j)')
                BY <1>0, <3>1, <3>3 DEF TypeOK
            <4>2. ASSUME NEW i \in Job, i # j
                  PROVE  IsFiniteSet(Active(i)') /\ jobWg'[i] = Cardinality(Active(i)')
                BY <1>0, <2>2, <3>1, <4>2 DEF IInv, Counted, TypeOK
            <4>. QED BY <3>3, <4>1, <4>2
        <3>. QED BY <2>6, <3>1, <3>4 DEF IInv, Counted
    <2>8. Drained'
        BY <1>9, <2>2, <2>4, <2>5 DEF EndRun, IInv, Drained
    <2>9. OneCall'
        BY <1>9, <2>1, <2>2, <2>4, <2>5 DEF EndRun, IInv, OneCall
    <2>10. \A i \in Job : freed'[i] \in {freed[i], now}
        <3>1. CASE Overlapping
            BY <1>9, <3>1 DEF EndRun
        <3>2. CASE ~Overlapping
            BY <1>0, <1>9, <3>2 DEF EndRun, TypeOK
        <3>. QED BY <3>1, <3>2
    <2>11. \A i \in Job : i # j => freed'[i] = freed[i]
        BY <1>0, <1>9 DEF EndRun, TypeOK
    <2>12. Overlapping => freed' = freed
        BY <1>9 DEF EndRun
    <2>13. InOrder'
        BY <1>0, <1>9, <2>3, <2>4, <2>5, <2>10, <2>11, <2>12
           DEF EndRun, IInv, InOrder, TypeOK
    <2>. QED BY <1>0, <2>7, <2>8, <2>9, <2>13 DEF IInv
<1>10. ASSUME NEW j \in Job, NEW s \in Schedule[j], MonitorStep(j, s)
       PROVE  IInv'
    <2>1. UNCHANGED <<now, exitCtx, loopVars, run, history>>
        BY <1>10 DEF MonitorStep, MonitorDeadline, MonitorDone
    <2>2. Counted' /\ Drained' /\ OneCall' /\ InOrder'
        BY <2>1 DEF loopVars, history, IInv, Counted, Drained, OneCall, InOrder,
                    LiveLoops, Active
    <2>. QED BY <1>0, <2>2 DEF IInv
<1>11. CASE UNCHANGED vars
    <2>1. Counted' /\ Drained' /\ OneCall' /\ InOrder'
        BY <1>11 DEF vars, loopVars, runVars, history, IInv, Counted, Drained,
                     OneCall, InOrder, LiveLoops, Active
    <2>. QED BY <1>0, <2>1 DEF IInv
<1>. QED
    BY <1>1, <1>2, <1>3, <1>4, <1>5, <1>6, <1>7, <1>8, <1>9, <1>10, <1>11
       DEF Next, CallerStep, LoopStep, RunStep

THEOREM Invariant == Spec => []IInv
    BY InvInit, InvNext, PTL DEF Spec

-----------------------------------------------------------------------------
(* What follows from the invariant *)

\* A job never runs twice at once unless overlapping is allowed: the call of
\* startFunc is the only run there is (cron.go:209).
THEOREM OverlapFree == Spec => []NoOverlap
<1>1. IInv => NoOverlap
    BY DEF IInv, OneCall, NoOverlap
<1>. QED BY <1>1, Invariant, PTL

\* wg.Wait returns to the caller only when every run of every job has ended
\* (cron.go:159-162, main.go:270).
THEOREM WaitJoinsRuns == Spec => []JoinedRuns
<1>1. IInv => JoinedRuns
    <2>. SUFFICES ASSUME IInv, wg = 0, NEW j \in Job
                  PROVE  Active(j) = {}
        BY DEF JoinedRuns
    <2>1. LiveLoops = {}
        BY FS_EmptySet DEF IInv, Counted
    <2>2. loop[j] \in {"off", "done"}
        BY <2>1 DEF IInv, TypeOK, LiveLoops, Live
    <2>. QED BY <2>2 DEF IInv, Drained
<1>. QED BY <1>1, Invariant, PTL

\* No instant is run twice, neither by one loop nor by the loops of two
\* generations of the crontab.
THEOREM NeverRunAgain == Spec => StartedOnce
<1>1. IInv /\ [Next]_vars =>
         [\A j \in Job : \A s \in Schedule[j] :
             run[j][s] # "none" => run'[j][s] = run[j][s] \/ run'[j][s] # "begin"]_vars
    <2>. SUFFICES ASSUME IInv, [Next]_vars, NEW j \in Job, NEW s \in Schedule[j],
                         run[j][s] # "none", run'[j][s] = "begin"
                  PROVE  run'[j][s] = run[j][s]
        OBVIOUS
    <2>0. TypeOK
        BY DEF IInv
    <2>1. ASSUME NEW i \in Job, SelectTimer(i)
          PROVE  run'[j][s] = run[j][s]
        <3>1. PICK u \in Schedule[i] : u = nextRun[i] /\ u \in Nat /\ last[i] < u
            BY <2>0, <2>1 DEF SelectTimer, IInv, InOrder, TypeOK
        <3>2. run' = [run EXCEPT ![i][u] = "begin"]
            BY <2>1, <3>1 DEF SelectTimer
        <3>3. run[i][u] = "none"
            BY <2>0, <3>1 DEF IInv, InOrder, TypeOK
        <3>4. i # j \/ u # s
            BY <3>3
        <3>. QED BY <2>0, <3>2, <3>4, RunChange
    <2>2. ASSUME NEW i \in Job, NEW u \in Schedule[i], RunStep(i, u)
          PROVE  run'[j][s] = run[j][s]
        <3>1. PICK x : x # "begin" /\ run' = [run EXCEPT ![i][u] = x]
            BY <2>2 DEF RunStep, BeginRun, RunJob, CountResult, FinishRun, EndRun
        <3>2. run'[i][u] = x
            BY <2>0, <3>1, InstantsAreNaturals DEF TypeOK
        <3>3. i # j \/ u # s
            BY <3>1, <3>2
        <3>. QED BY <2>0, <3>1, <3>3, RunChange
    <2>3. CASE run' = run
        BY <2>3
    <2>. QED
        BY <2>1, <2>2, <2>3
           DEF Next, Tick, CallerStep, NotifyExit, Reload, StartJob, LoopStep, ReadClock,
               TooLate, Arm, SelectExit, Drain, MonitorStep, MonitorDeadline,
               MonitorDone, runVars, vars
<1>. QED BY <1>1, Invariant, PTL DEF Spec, StartedOnce

-----------------------------------------------------------------------------
(* Which steps change the loops that are live *)

\* A loop goroutine comes to its end or stays live.
LEMMA LoopsStayOrLeave ==
    ASSUME IInv, NEW j \in Job, LoopStep(j)
    PROVE  \/ LiveLoops' = LiveLoops
           \/ Drain(j) /\ exitCtx /\ j \in LiveLoops /\ LiveLoops' = LiveLoops \ {j}
<1>0. TypeOK
    BY DEF IInv
<1>1. CASE ReadClock(j) \/ TooLate(j) \/ Arm(j) \/ SelectExit(j) \/ SelectTimer(j)
    <2>1. /\ loop[j] \in Live /\ loop'[j] \in Live
          /\ \A i \in Job : i # j => loop'[i] = loop[i]
        BY <1>0, <1>1 DEF ReadClock, TooLate, Arm, SelectExit, SelectTimer, Live, LoopState,
                          TypeOK
    <2>. QED BY <2>1 DEF LiveLoops
<1>2. CASE Drain(j)
    <2>1. j \in LiveLoops /\ LiveLoops' = LiveLoops \ {j}
        BY <1>0, <1>2, LiveChange DEF Drain, LiveLoops, Live, LoopState
    <2>2. exitCtx
        BY <1>2 DEF Drain, IInv, Drained
    <2>. QED BY <1>2, <2>1, <2>2
<1>. QED BY <1>1, <1>2 DEF LoopStep

\* Runs and monitors bring no loop to its end.
LEMMA LoopsOutlastRuns ==
    ASSUME IInv, NEW j \in Job, NEW s \in Schedule[j],
           RunStep(j, s) \/ MonitorStep(j, s)
    PROVE  LiveLoops' = LiveLoops
<1>1. CASE EndRun(j, s) /\ ~Overlapping
    <2>1. loop[j] = "call"
        <3>1. s \in Active(j)
            BY <1>1 DEF EndRun, Active, Underway, Gauged
        <3>. QED BY <1>1, <3>1 DEF IInv, OneCall
    <2>2. loop' = [loop EXCEPT ![j] = "next"] /\ "next" \in Live
        BY <1>1 DEF EndRun, Live, LoopState
    <2>3. LiveLoops' = LiveLoops \cup {j}
        BY <2>2, LiveChange DEF IInv
    <2>. QED BY <2>1, <2>3 DEF LiveLoops, Live, LoopState
<1>2. CASE loop' = loop
    BY <1>2 DEF LiveLoops
<1>. QED
    BY <1>1, <1>2 DEF RunStep, BeginRun, RunJob, CountResult, FinishRun, EndRun, MonitorStep,
                      MonitorDeadline, MonitorDone, loopVars

-----------------------------------------------------------------------------
(* The scheduler implements CronService: the jobs served are those whose    *)
(* loop is live, the runs in progress those whose goroutine has not ended.  *)

LEMMA ServiceInit == Init => Service!Init
<1> SUFFICES ASSUME Init
             PROVE  Service!Init
    OBVIOUS
<1>1. \A j \in Job : loop[j] = "off"
    BY DEF Init
<1>2. \A j \in Job : \A s \in Schedule[j] : run[j][s] = "none"
    BY InstantsAreNaturals DEF Init
<1>3. LiveLoops = {}
    BY <1>1 DEF LiveLoops, Live
<1>4. \A j \in Job : Active(j) = {}
    BY <1>2 DEF Active, Underway, Gauged
<1>. QED BY <1>3, <1>4 DEF Init, Service!Init

\* Every step of a goroutine is a step of the service, or changes nothing that
\* the service shows.
LEMMA ServiceNext == IInv /\ [Next]_vars => [Service!Next]_(Service!vars)
<1> SUFFICES ASSUME IInv, [Next]_vars
             PROVE  [Service!Next]_(Service!vars)
    OBVIOUS
<1>0. TypeOK
    BY DEF IInv
<1>1. CASE Tick
    <2>1. LiveLoops' = LiveLoops /\ \A i \in Job : Active(i)' = Active(i)
        BY <1>1 DEF Tick, loopVars, runVars, LiveLoops, Active
    <2>2. Service!Tick
        BY <1>1, <2>1 DEF Tick, history, Service!Tick
    <2>. QED BY <2>2 DEF Service!Next
<1>2. CASE NotifyExit
    <2>1. LiveLoops' = LiveLoops /\ \A i \in Job : Active(i)' = Active(i)
        BY <1>2 DEF NotifyExit, loopVars, runVars, LiveLoops, Active
    <2>2. Service!RequestExit
        BY <1>2, <2>1 DEF NotifyExit, history, Service!RequestExit
    <2>. QED BY <2>2 DEF Service!Next
<1>3. CASE Reload
    <2>1. LiveLoops = {}
        BY <1>3, FS_EmptySet DEF Reload, IInv, Counted
    <2>2. LiveLoops' = {} /\ \A i \in Job : Active(i)' = Active(i)
        BY <1>3 DEF Reload, runVars, LiveLoops, Live, Active
    <2>3. Service!Reload
        BY <1>3, <2>1, <2>2 DEF Reload, history, Service!Reload
    <2>. QED BY <2>3 DEF Service!Next
<1>4. ASSUME NEW j \in Job, StartJob(j)
      PROVE  Service!Next
    <2>1. loop' = [loop EXCEPT ![j] = "new"] /\ "new" \in Live
        BY <1>4 DEF StartJob, Live, LoopState
    <2>2. j \notin LiveLoops /\ LiveLoops' = LiveLoops \cup {j}
        BY <1>0, <1>4, <2>1, LiveChange DEF StartJob, LiveLoops, Live
    <2>3. \A i \in Job : Active(i)' = Active(i)
        BY <1>4 DEF StartJob, runVars, Active
    <2>4. Service!Accept(j)
        BY <1>4, <2>2, <2>3 DEF StartJob, Service!Accept
    <2>. QED BY <2>4 DEF Service!Next
<1>5. ASSUME NEW j \in Job, ReadClock(j) \/ TooLate(j) \/ Arm(j) \/ SelectExit(j)
      PROVE  UNCHANGED Service!vars
    <2>1. /\ j \in LiveLoops
          /\ UNCHANGED <<now, exitCtx, run, last, freed>>
          /\ \A i \in Job : i # j => loop'[i] = loop[i]
          /\ loop'[j] \in Live
        BY <1>0, <1>5 DEF ReadClock, TooLate, Arm, SelectExit, runVars, history,
                          LiveLoops, Live, LoopState, TypeOK
    <2>2. LiveLoops' = LiveLoops
        BY <2>1 DEF LiveLoops
    <2>3. \A i \in Job : Active(i)' = Active(i)
        BY <2>1 DEF Active
    <2>. QED BY <2>1, <2>2, <2>3 DEF Service!vars
<1>6. ASSUME NEW j \in Job, SelectTimer(j)
      PROVE  Service!Next
    <2>1. PICK s \in Schedule[j] :
             /\ s = nextRun[j] /\ s \in Nat /\ s <= now
             /\ last[j] < s /\ freed[j] <= s
        BY <1>0, <1>6 DEF SelectTimer, IInv, InOrder, TypeOK
    <2>2. run' = [run EXCEPT ![j][s] = "begin"] /\ "begin" \in Underway
        BY <1>6, <2>1 DEF SelectTimer, Underway
    <2>3. Active(j)' = Active(j) \cup {s}
        BY <1>0, <2>2, RunChange
    <2>4. \A i \in Job : i # j => Active(i)' = Active(i)
        BY <1>0, <2>2, RunChange
    <2>5. [i \in Job |-> Active(i)]' = [[i \in Job |-> Active(i)] EXCEPT ![j] = @ \cup {s}]
        BY <2>3, <2>4
    <2>6. j \in LiveLoops /\ LiveLoops' = LiveLoops
        <3>1. /\ loop[j] = "select"
              /\ loop'[j] = IF Overlapping THEN "next" ELSE "call"
              /\ \A i \in Job : i # j => loop'[i] = loop[i]
            BY <1>0, <1>6 DEF SelectTimer, TypeOK
        <3>. QED BY <3>1 DEF LiveLoops, Live, LoopState
    <2>7. Overlapping \/ Active(j) = {}
        BY <1>6 DEF SelectTimer, IInv, OneCall
    <2>8. last' = [last EXCEPT ![j] = s] /\ UNCHANGED <<now, exitCtx, freed>>
        BY <1>6, <2>1 DEF SelectTimer
    <2>9. Service!Start(j, s)
        BY <1>0, <2>1, <2>5, <2>6, <2>7, <2>8 DEF Service!Start, TypeOK
    <2>. QED BY <2>9 DEF Service!Next
<1>7. ASSUME NEW j \in Job, Drain(j)
      PROVE  Service!Next
    <2>1. Active(j) = {}
        BY <1>7, FS_EmptySet DEF Drain, IInv, Counted
    <2>2. \A i \in Job : Active(i)' = Active(i)
        BY <1>7 DEF Drain, runVars, Active
    <2>3. j \in LiveLoops /\ LiveLoops' = LiveLoops \ {j}
        BY <1>0, <1>7, LiveChange DEF Drain, LiveLoops, Live, LoopState
    <2>4. exitCtx
        BY <1>7 DEF Drain, IInv, Drained
    <2>5. Service!Leave(j)
        BY <1>7, <2>1, <2>2, <2>3, <2>4 DEF Drain, history, Service!Leave
    <2>. QED BY <2>5 DEF Service!Next
<1>8. ASSUME NEW j \in Job, NEW s \in Schedule[j],
             BeginRun(j, s) \/ RunJob(j, s) \/ CountResult(j, s) \/ FinishRun(j, s)
      PROVE  UNCHANGED Service!vars
    <2>1. PICK x \in Underway : run' = [run EXCEPT ![j][s] = x]
        BY <1>8 DEF BeginRun, RunJob, CountResult, FinishRun, Underway, Gauged
    <2>2. s \in Active(j)
        BY <1>8 DEF BeginRun, RunJob, CountResult, FinishRun, Active, Underway, Gauged
    <2>3. UNCHANGED <<now, exitCtx, loop, last, freed>>
        BY <1>8 DEF BeginRun, RunJob, CountResult, FinishRun, loopVars, history
    <2>4. /\ Active(j)' = Active(j) \cup {s}
          /\ \A i \in Job : i # j => Active(i)' = Active(i)
        BY <1>0, <2>1, RunChange
    <2>5. LiveLoops' = LiveLoops /\ \A i \in Job : Active(i)' = Active(i)
        BY <2>2, <2>3, <2>4 DEF LiveLoops
    <2>. QED BY <2>3, <2>5 DEF Service!vars
<1>9. ASSUME NEW j \in Job, NEW s \in Schedule[j], EndRun(j, s)
      PROVE  Service!Next
    <2>1. s \in Active(j)
        BY <1>9 DEF EndRun, Active, Underway, Gauged
    <2>2. run' = [run EXCEPT ![j][s] = "ended"] /\ "ended" \notin Underway
        BY <1>9 DEF EndRun, Underway, Gauged
    <2>3. Active(j)' = Active(j) \ {s}
        BY <1>0, <2>2, RunChange
    <2>4. \A i \in Job : i # j => Active(i)' = Active(i)
        BY <1>0, <2>2, RunChange
    <2>5. [i \in Job |-> Active(i)]' = [[i \in Job |-> Active(i)] EXCEPT ![j] = @ \ {s}]
        BY <2>3, <2>4
    <2>6. LiveLoops' = LiveLoops
        <3>1. CASE Overlapping
            BY <1>9, <3>1 DEF EndRun, LiveLoops
        <3>2. CASE ~Overlapping
            <4>1. loop[j] = "call"
                BY <2>1, <3>2 DEF IInv, OneCall
            <4>2. loop' = [loop EXCEPT ![j] = "next"] /\ "next" \in Live
                BY <1>9, <3>2 DEF EndRun, Live, LoopState
            <4>3. LiveLoops' = LiveLoops \cup {j}
                BY <1>0, <4>2, LiveChange
            <4>. QED BY <4>1, <4>3 DEF LiveLoops, Live, LoopState
        <3>. QED BY <3>1, <3>2
    <2>7. freed' = IF Overlapping THEN freed ELSE [freed EXCEPT ![j] = now]
        BY <1>9 DEF EndRun
    <2>8. UNCHANGED <<now, exitCtx, last>>
        BY <1>9 DEF EndRun
    <2>9. Service!End(j, s)
        BY <2>1, <2>5, <2>6, <2>7, <2>8 DEF Service!End
    <2>. QED BY <2>9 DEF Service!Next
<1>10. ASSUME NEW j \in Job, NEW s \in Schedule[j], MonitorStep(j, s)
       PROVE  UNCHANGED Service!vars
    <2>1. UNCHANGED <<now, exitCtx, loop, run, last, freed>>
        BY <1>10 DEF MonitorStep, MonitorDeadline, MonitorDone, loopVars, history
    <2>2. LiveLoops' = LiveLoops /\ \A i \in Job : Active(i)' = Active(i)
        BY <2>1 DEF LiveLoops, Active
    <2>. QED BY <2>1, <2>2 DEF Service!vars
<1>11. CASE UNCHANGED vars
    <2>1. LiveLoops' = LiveLoops /\ \A i \in Job : Active(i)' = Active(i)
        BY <1>11 DEF vars, loopVars, runVars, LiveLoops, Active
    <2>. QED BY <1>11, <2>1 DEF vars, history, Service!vars
<1>. QED
    BY <1>1, <1>2, <1>3, <1>4, <1>5, <1>6, <1>7, <1>8, <1>9, <1>10, <1>11
       DEF Next, CallerStep, LoopStep, RunStep

\* The goroutines of cron.go keep the promise CronService states.
THEOREM CronImplementsService == Spec => ServiceSpec
    BY ServiceInit, ServiceNext, Invariant, PTL DEF Spec, ServiceSpec, Service!Spec

-----------------------------------------------------------------------------
(* Counting the runs that are in some of the states *)

\* The runs of a job whose state according to r is one of S
RunsIn(r, j, S) == {s \in Schedule[j] : r[j][s] \in S}

Count(r, j, S) == Cardinality(RunsIn(r, j, S))

\* How many they are after the run of one instant has gone on: one more if it
\* came into S, one less if it left S.
LEMMA CountChange ==
    ASSUME NEW j \in Job, NEW s \in Schedule[j], NEW S, NEW before, NEW after,
           \A u \in Schedule[j] : u # s => after[j][u] = before[j][u],
           IsFiniteSet(RunsIn(before, j, S))
    PROVE  /\ Count(before, j, S) \in Nat
           /\ Count(after, j, S) = Count(before, j, S)
                                     + (IF after[j][s] \in S THEN 1 ELSE 0)
                                     - (IF before[j][s] \in S THEN 1 ELSE 0)
<1>1. Cardinality(RunsIn(before, j, S)) \in Nat
    BY FS_CardinalityType
<1>2. s \in RunsIn(before, j, S) <=> before[j][s] \in S
    BY DEF RunsIn
<1>3. CASE after[j][s] \in S
    <2>1. RunsIn(after, j, S) = RunsIn(before, j, S) \cup {s}
        BY <1>3 DEF RunsIn
    <2>2. Cardinality(RunsIn(before, j, S) \cup {s}) =
             IF s \in RunsIn(before, j, S) THEN Cardinality(RunsIn(before, j, S))
                                           ELSE Cardinality(RunsIn(before, j, S)) + 1
        BY FS_AddElement
    <2>. QED BY <1>1, <1>2, <1>3, <2>1, <2>2 DEF Count
<1>4. CASE after[j][s] \notin S
    <2>1. RunsIn(after, j, S) = RunsIn(before, j, S) \ {s}
        BY <1>4 DEF RunsIn
    <2>2. Cardinality(RunsIn(before, j, S) \ {s}) =
             IF s \in RunsIn(before, j, S) THEN Cardinality(RunsIn(before, j, S)) - 1
                                           ELSE Cardinality(RunsIn(before, j, S))
        BY FS_RemoveElement
    <2>. QED BY <1>1, <1>2, <1>4, <2>1, <2>2 DEF Count
<1>. QED BY <1>1, <1>3, <1>4 DEF Count

\* The runs underway are finitely many.
LEMMA FewRuns ==
    ASSUME IInv, NEW j \in Job, NEW S \in SUBSET Underway
    PROVE  IsFiniteSet(RunsIn(run, j, S))
<1>1. RunsIn(run, j, S) \in SUBSET Active(j)
    BY DEF RunsIn, Active
<1>2. IsFiniteSet(Active(j))
    BY DEF IInv, Counted
<1>. QED BY <1>1, <1>2, FS_Subset

\* What x counts for in S
Is(x, S) == IF x \in S THEN 1 ELSE 0

\* What the counts of a job become when one of its runs leaves state x for y.
Moved(j, x, y) ==
    /\ Count(run, j, Gauged) \in Nat
    /\ Count(run, j, {"ok", "err"}) \in Nat
    /\ Count(run, j, {"counted"}) \in Nat
    /\ Count(run', j, Gauged) = Count(run, j, Gauged) + Is(y, Gauged) - Is(x, Gauged)
    /\ Count(run', j, {"ok", "err"}) =
          Count(run, j, {"ok", "err"}) + Is(y, {"ok", "err"}) - Is(x, {"ok", "err"})
    /\ Count(run', j, {"counted"}) =
          Count(run, j, {"counted"}) + Is(y, {"counted"}) - Is(x, {"counted"})

LEMMA RunMoved ==
    ASSUME IInv, NEW j \in Job, NEW s \in Schedule[j], NEW y,
           run' = [run EXCEPT ![j][s] = y]
    PROVE  Moved(j, run[j][s], y)
<1>. s \in Instant /\ Schedule[j] \subseteq Instant /\ run \in [Job -> [Instant -> RunState]]
    BY InstantsAreNaturals DEF IInv, TypeOK
<1>1. run'[j][s] = y
    OBVIOUS
<1>2. \A u \in Schedule[j] : u # s => run'[j][u] = run[j][u]
    OBVIOUS
<1>3. ASSUME NEW S \in SUBSET Underway
      PROVE  /\ Count(run, j, S) \in Nat
             /\ Count(run', j, S) = Count(run, j, S) + Is(y, S) - Is(run[j][s], S)
    <2>1. IsFiniteSet(RunsIn(run, j, S))
        BY FewRuns
    <2>2. PICK after : after = run'
        OBVIOUS
    <2>3. /\ Count(run, j, S) \in Nat
          /\ Count(after, j, S) = Count(run, j, S)
                                     + (IF after[j][s] \in S THEN 1 ELSE 0)
                                     - (IF run[j][s] \in S THEN 1 ELSE 0)
        <3>1. \A u \in Schedule[j] : u # s => after[j][u] = run[j][u]
            BY <1>2, <2>2
        <3>. HIDE <2>2
        <3>. QED BY <2>1, <3>1, CountChange
    <2>. QED BY <1>1, <2>2, <2>3 DEF Is
<1>4. /\ Gauged \in SUBSET Underway
      /\ {"ok", "err"} \in SUBSET Underway
      /\ {"counted"} \in SUBSET Underway
    BY DEF Underway, Gauged
<1>. QED BY <1>3, <1>4 DEF Moved

-----------------------------------------------------------------------------
(* The series add up *)

\* MetricsAddUp, for one job
Adds(j) ==
    /\ metrics[j].running = Count(run, j, Gauged)
    /\ metrics[j].executions = metrics[j].successes + metrics[j].failures
                                  + Count(run, j, {"ok", "err"})
    /\ metrics[j].successes + metrics[j].failures =
          metrics[j].timings + Count(run, j, {"counted"})

LEMMA AddsUpByJob == MetricsAddUp <=> \A j \in Job : Adds(j)
    BY DEF MetricsAddUp, Adds, Count, RunsIn

\* A job without runs has series that add up to nothing.
LEMMA NothingAdds ==
    ASSUME NEW j \in Job, metrics[j] = NoSeries, Active(j) = {}
    PROVE  Adds(j)
<1>1. /\ RunsIn(run, j, Gauged) = {}
      /\ RunsIn(run, j, {"ok", "err"}) = {}
      /\ RunsIn(run, j, {"counted"}) = {}
    BY DEF RunsIn, Active, Underway, Gauged
<1>. QED BY <1>1, FS_EmptySet DEF Adds, Count, NoSeries

\* The series of an idle job are complete.
LEMMA CompleteWhenIdle ==
    ASSUME TypeOK, MetricsAddUp, NEW j \in Job, Active(j) = {}
    PROVE  /\ metrics[j].running = 0
           /\ metrics[j].executions = metrics[j].successes + metrics[j].failures
           /\ metrics[j].executions = metrics[j].timings
<1>1. /\ RunsIn(run, j, Gauged) = {}
      /\ RunsIn(run, j, {"ok", "err"}) = {}
      /\ RunsIn(run, j, {"counted"}) = {}
    BY DEF RunsIn, Active, Underway, Gauged
<1>2. /\ Count(run, j, Gauged) = 0
      /\ Count(run, j, {"ok", "err"}) = 0
      /\ Count(run, j, {"counted"}) = 0
    BY <1>1, FS_EmptySet DEF Count
<1>3. Adds(j) /\ metrics[j] \in SeriesType
    BY AddsUpByJob DEF TypeOK
<1>. QED BY <1>2, <1>3 DEF Adds, SeriesType

LEMMA AddsInit == Init => MetricsAddUp
<1> SUFFICES ASSUME Init, NEW j \in Job
             PROVE  Adds(j)
    BY AddsUpByJob
<1>1. Active(j) = {}
    <2>1. \A s \in Schedule[j] : run[j][s] = "none"
        BY InstantsAreNaturals DEF Init
    <2>. QED BY <2>1 DEF Active, Underway, Gauged
<1>2. metrics[j] = NoSeries
    BY DEF Init
<1>. QED BY <1>1, <1>2, NothingAdds

\* Steps that neither count nor move a run from one state to another
LEMMA AddsUndisturbed ==
    ASSUME MetricsAddUp, UNCHANGED <<run, metrics>>
    PROVE  MetricsAddUp'
    BY DEF MetricsAddUp

LEMMA AddsNext == IInv /\ MetricsAddUp /\ [Next]_vars => MetricsAddUp'
<1> SUFFICES ASSUME IInv, MetricsAddUp, [Next]_vars
             PROVE  MetricsAddUp'
    OBVIOUS
<1>0. TypeOK /\ \A i \in Job : Adds(i)
    BY AddsUpByJob DEF IInv
<1>1. CASE Reload
    <2>. SUFFICES ASSUME NEW j \in Job
                  PROVE  Adds(j)'
        BY DEF MetricsAddUp, Adds, Count, RunsIn
    <2>1. LiveLoops = {}
        BY <1>1, FS_EmptySet DEF Reload, IInv, Counted
    <2>2. loop[j] \in {"off", "done"}
        BY <1>0, <2>1 DEF LiveLoops, Live, TypeOK
    <2>3. Active(j)' = {} /\ metrics'[j] = NoSeries
        BY <1>1, <2>2 DEF Reload, runVars, IInv, Drained, Active
    <2>4. /\ RunsIn(run', j, Gauged) = {}
          /\ RunsIn(run', j, {"ok", "err"}) = {}
          /\ RunsIn(run', j, {"counted"}) = {}
        BY <2>3 DEF RunsIn, Active, Underway, Gauged
    <2>. QED BY <2>3, <2>4, FS_EmptySet DEF Adds, Count, NoSeries
<1>2. ASSUME NEW j \in Job, NEW s \in Schedule[j], NEW x,
             run' = [run EXCEPT ![j][s] = x],
             \A i \in Job : i # j => metrics'[i] = metrics[i],
             Adds(j)'
      PROVE  MetricsAddUp'
    <2>1. \A i \in Job : \A u \in Schedule[i] : i # j => run'[i][u] = run[i][u]
        BY <1>0, <1>2, RunChange
    <2>2. \A i \in Job : \A S : i # j => Count(run', i, S) = Count(run, i, S)
        BY <2>1 DEF Count, RunsIn
    <2>3. \A i \in Job : i # j => Adds(i)'
        BY <1>0, <1>2, <2>2, ZenonT(40) DEF Adds
    <2>. QED BY <1>2, <2>3 DEF MetricsAddUp, Adds, Count, RunsIn
<1>3. ASSUME NEW j \in Job, SelectTimer(j)
      PROVE  MetricsAddUp'
    <2>1. PICK s \in Schedule[j] : s = nextRun[j] /\ s \in Nat /\ last[j] < s
        BY <1>0, <1>3 DEF SelectTimer, IInv, InOrder, TypeOK
    <2>2. run[j][s] = "none"
        BY <1>0, <2>1 DEF IInv, InOrder, TypeOK
    <2>3. run' = [run EXCEPT ![j][s] = "begin"] /\ metrics' = metrics
        BY <1>3, <2>1 DEF SelectTimer
    <2>4. Moved(j, "none", "begin")
        BY <2>2, <2>3, RunMoved
    <2>5. Adds(j)'
        BY <1>0, <2>3, <2>4 DEF Adds, Moved, Is, Gauged
    <2>. QED BY <1>2, <2>3, <2>5
<1>4. ASSUME NEW j \in Job, NEW s \in Schedule[j], RunStep(j, s)
      PROVE  MetricsAddUp'
    <2> DEFINE m == metrics[j]
    <2>1. m \in SeriesType /\ Adds(j)
        BY <1>0 DEF TypeOK
    <2>3. CASE BeginRun(j, s)
        <3>1. run' = [run EXCEPT ![j][s] = "exec"] /\ run[j][s] = "begin"
            BY <2>3 DEF BeginRun
        <3>2. Moved(j, "begin", "exec")
            BY <3>1, RunMoved
        <3>3. /\ metrics'[j] = [m EXCEPT !.running = @ + 1]
              /\ \A i \in Job : i # j => metrics'[i] = metrics[i]
            BY <1>0, <2>3 DEF BeginRun, TypeOK
        <3>4. Adds(j)'
            BY <2>1, <3>2, <3>3 DEF Adds, SeriesType, Moved, Is, Gauged
        <3>. QED BY <1>2, <3>1, <3>3, <3>4
    <2>4. CASE RunJob(j, s)
        <3>1. PICK x \in {"ok", "err"} : run' = [run EXCEPT ![j][s] = x]
            BY <2>4 DEF RunJob
        <3>2. Moved(j, "exec", x)
            BY <2>4, <3>1, RunMoved, ZenonT(40) DEF RunJob
        <3>3. /\ metrics'[j] = [m EXCEPT !.executions = @ + 1]
              /\ \A i \in Job : i # j => metrics'[i] = metrics[i]
            BY <1>0, <2>4 DEF RunJob, TypeOK
        <3>4. /\ Is(x, {"ok", "err"}) = 1
              /\ Is(x, Gauged) = 1
              /\ Is(x, {"counted"}) = 0
            BY <3>1 DEF Is, Gauged
        <3>5. Adds(j)'
            BY <2>1, <3>2, <3>3, <3>4 DEF Adds, SeriesType, Moved, Is, Gauged
        <3>. QED BY <1>2, <3>1, <3>3, <3>5
    <2>5. CASE CountResult(j, s)
        <3>1. run' = [run EXCEPT ![j][s] = "counted"] /\ run[j][s] \in {"ok", "err"}
            BY <2>5 DEF CountResult
        <3>2. Moved(j, run[j][s], "counted")
            BY <3>1, RunMoved
        <3>3. /\ Is(run[j][s], {"ok", "err"}) = 1
              /\ Is(run[j][s], Gauged) = 1
              /\ Is(run[j][s], {"counted"}) = 0
            BY <3>1 DEF Is, Gauged
        <3>4. \A i \in Job : i # j => metrics'[i] = metrics[i]
            BY <1>0, <2>5 DEF CountResult, TypeOK
        <3>5. /\ metrics'[j].running = m.running
              /\ metrics'[j].timings = m.timings
              /\ metrics'[j].executions = m.executions
              /\ metrics'[j].successes + metrics'[j].failures = m.successes + m.failures + 1
            <4>1. \/ metrics'[j] = [m EXCEPT !.successes = @ + 1]
                  \/ metrics'[j] = [m EXCEPT !.failures = @ + 1]
                BY <1>0, <2>5 DEF CountResult, TypeOK
            <4>2. m \in SeriesType
                BY <2>1
            <4>. HIDE DEF m
            <4>. QED BY <4>1, <4>2 DEF SeriesType
        <3>6. Adds(j)'
            BY <2>1, <3>2, <3>3, <3>5 DEF Adds, SeriesType, Moved, Is, Gauged
        <3>. QED BY <1>2, <3>1, <3>4, <3>6
    <2>6. CASE FinishRun(j, s)
        <3>1. run' = [run EXCEPT ![j][s] = "observed"] /\ run[j][s] = "counted"
            BY <2>6 DEF FinishRun
        <3>2. Moved(j, "counted", "observed")
            BY <3>1, RunMoved
        <3>3. /\ metrics'[j] = [m EXCEPT !.timings = @ + 1, !.running = @ - 1]
              /\ \A i \in Job : i # j => metrics'[i] = metrics[i]
            BY <1>0, <2>6 DEF FinishRun, TypeOK
        <3>4. /\ metrics'[j].running = m.running - 1
              /\ metrics'[j].timings = m.timings + 1
              /\ metrics'[j].executions = m.executions
              /\ metrics'[j].successes = m.successes
              /\ metrics'[j].failures = m.failures
            BY <2>1, <3>3 DEF SeriesType
        <3>5. Adds(j)'
            BY <2>1, <3>2, <3>4 DEF Adds, SeriesType, Moved, Is, Gauged
        <3>. QED BY <1>2, <3>1, <3>3, <3>5
    <2>7. CASE EndRun(j, s)
        <3>1. run' = [run EXCEPT ![j][s] = "ended"] /\ run[j][s] = "observed"
              /\ metrics' = metrics
            BY <2>7 DEF EndRun
        <3>2. Moved(j, "observed", "ended")
            BY <3>1, RunMoved
        <3>3. Adds(j)'
            BY <2>1, <3>1, <3>2 DEF Adds, Moved, Is, Gauged
        <3>. QED BY <1>2, <3>1, <3>3
    <2>. QED BY <1>4, <2>3, <2>4, <2>5, <2>6, <2>7 DEF RunStep
<1>5. ASSUME NEW j \in Job, NEW s \in Schedule[j], MonitorDeadline(j, s)
      PROVE  MetricsAddUp'
    <2>1. run' = run
        BY <1>5 DEF MonitorDeadline
    <2>2. /\ metrics'[j] = [metrics[j] EXCEPT !.deadlines = @ + 1]
          /\ \A i \in Job : i # j => metrics'[i] = metrics[i]
        BY <1>0, <1>5 DEF MonitorDeadline, TypeOK
    <2>3. metrics[j] \in SeriesType
        BY <1>0 DEF TypeOK
    <2>4. /\ metrics'[j].running = metrics[j].running
          /\ metrics'[j].timings = metrics[j].timings
          /\ metrics'[j].executions = metrics[j].executions
          /\ metrics'[j].successes = metrics[j].successes
          /\ metrics'[j].failures = metrics[j].failures
        BY <2>2, <2>3 DEF SeriesType
    <2>5. Adds(j)'
        BY <1>0, <2>1, <2>4 DEF Adds, Count, RunsIn
    <2>6. \A i \in Job : i # j => Adds(i)'
        BY <1>0, <2>1, <2>2 DEF Adds, Count, RunsIn
    <2>. QED BY <2>5, <2>6 DEF MetricsAddUp, Adds, Count, RunsIn
<1>6. CASE UNCHANGED <<run, metrics>>
    BY <1>6, AddsUndisturbed
<1>. QED
    BY <1>1, <1>3, <1>4, <1>5, <1>6
       DEF Next, Tick, CallerStep, NotifyExit, StartJob, LoopStep, ReadClock, TooLate,
           Arm, SelectExit, Drain, MonitorStep, MonitorDone, runVars, vars

\* At every moment a scrape may see, the gauge of a job is the number of its
\* runs, and its counters account for each other, whatever resets, failing
\* commands and overlapping runs there were (prommetrics.go:30-95, cron.go:
\* 227-256).
THEOREM SeriesAddUp == Spec => []MetricsAddUp
    BY AddsInit, AddsNext, Invariant, PTL DEF Spec
=============================================================================
