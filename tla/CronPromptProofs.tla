--------------------------- MODULE CronPromptProofs ---------------------------
(***************************************************************************)
(* Theorems about Cron on a machine that is never short of processor time: *)
(* what it runs and what it counts as missed.                              *)
(***************************************************************************)
EXTENDS CronPrompt, CronProofs

-----------------------------------------------------------------------------
(* A prompt scheduler misses nothing *)

\* Expression.Next passes over no match.
LEMMA NextMatchIsFirst ==
    ASSUME NEW j \in Job, NEW t \in Nat, NextMatch(j, t) # Zero,
           NEW u \in Schedule[j], u > t
    PROVE  NextMatch(j, t) <= u
<1>1. u \in Later(j, t) /\ Later(j, t) \in SUBSET Nat
    BY InstantsAreNaturals DEF Later
<1>2. NextMatch(j, t) = Earliest(Later(j, t))
    BY DEF NextMatch
<1>. QED BY <1>1, <1>2, EarliestIsFirst

\* The clock never passes the instant a loop waits for, a loop that is about
\* to look for its next instant has just started one or been given the job
\* (back), and a loop that waits has nothing to start before.
OnTime(j) ==
    /\ loop[j] \in {"next", "call"} => nextRun[j] <= now
    /\ loop[j] \in {"new", "next"} => last[j] = now \/ freed[j] = now
    /\ loop[j] = "select" =>
          /\ now <= nextRun[j]
          /\ \A s \in Schedule[j] : last[j] < s /\ freed[j] < s => nextRun[j] <= s

PInv == \A j \in Job : OnTime(j)

LEMMA PInvInit == Init => PInv
    BY DEF Init, PInv, OnTime

\* A loop whose own variables do not change stays on time while the clock stands.
LEMMA OthersOnTime ==
    ASSUME PInv, now' = now, NEW j \in Job,
           loop'[j] = loop[j], nextRun'[j] = nextRun[j],
           last'[j] = last[j], freed'[j] = freed[j]
    PROVE  OnTime(j)'
    BY DEF PInv, OnTime

LEMMA PInvNext == IInv /\ PInv /\ [Next /\ (Tick => Settled)]_vars => PInv'
<1> SUFFICES ASSUME IInv, PInv, [Next /\ (Tick => Settled)]_vars
             PROVE  PInv'
    OBVIOUS
<1>0. TypeOK
    BY DEF IInv
<1>1. CASE Tick
    <2>1. Settled
        BY <1>1 DEF Tick, vars, TypeOK
    <2>. SUFFICES ASSUME NEW j \in Job
                  PROVE  OnTime(j)'
        BY DEF PInv
    <2>2. loop[j] \notin {"new", "next"} /\ (loop[j] = "select" => now < nextRun[j])
        BY <2>1 DEF Settled
    <2>. QED BY <1>0, <1>1, <2>2 DEF Tick, loopVars, history, PInv, OnTime, TypeOK
<1>2. CASE UNCHANGED <<now, loop, nextRun, last, freed>>
    BY <1>2 DEF PInv, OnTime
<1>3. CASE Reload
    BY <1>3 DEF Reload, PInv, OnTime
<1>4. ASSUME NEW j \in Job, StartJob(j)
      PROVE  PInv'
    <2>1. OnTime(j)'
        BY <1>0, <1>4 DEF StartJob, OnTime, TypeOK
    <2>2. \A i \in Job : i # j => OnTime(i)'
        BY <1>0, <1>4, OthersOnTime DEF StartJob, TypeOK
    <2>. QED BY <2>1, <2>2 DEF PInv
<1>5. ASSUME NEW j \in Job, ReadClock(j)
      PROVE  PInv'
    <2>1. OnTime(j)'
        BY <1>0, <1>5 DEF ReadClock, history, PInv, OnTime, TypeOK
    <2>2. \A i \in Job : i # j => OnTime(i)'
        BY <1>0, <1>5, OthersOnTime DEF ReadClock, history, TypeOK
    <2>. QED BY <2>1, <2>2 DEF PInv
<1>6. ASSUME NEW j \in Job, TooLate(j)
      PROVE  PInv'
    <2>1. OnTime(j)'
        BY <1>0, <1>6 DEF TooLate, history, PInv, OnTime, TypeOK
    <2>2. \A i \in Job : i # j => OnTime(i)'
        BY <1>0, <1>6, OthersOnTime DEF TooLate, history, TypeOK
    <2>. QED BY <2>1, <2>2 DEF PInv
<1>7. ASSUME NEW j \in Job, Arm(j)
      PROVE  PInv'
    <2>1. /\ now \in Nat \ {0} /\ nextRun[j] \in Nat
          /\ nextRun[j] <= now
          /\ last[j] = now \/ freed[j] = now
        BY <1>0, <1>7 DEF Arm, PInv, OnTime, TypeOK
    <2>2. NextMatch(j, nextRun[j]) >= now /\ NextMatch(j, nextRun[j]) # Zero
        BY <2>1, <1>7 DEF Arm, Zero
    <2>3. ASSUME NEW s \in Schedule[j], last[j] < s, freed[j] < s
          PROVE  NextMatch(j, nextRun[j]) <= s
        <3>1. s > nextRun[j]
            BY <2>1, <2>3, InstantsAreNaturals
        <3>. QED BY <2>1, <2>2, <3>1, NextMatchIsFirst
    <2>4. /\ loop'[j] = "select" /\ nextRun'[j] = NextMatch(j, nextRun[j])
          /\ UNCHANGED <<now, last, freed>>
        BY <1>0, <1>7 DEF Arm, history, TypeOK
    <2>5. OnTime(j)'
        BY <2>2, <2>3, <2>4 DEF OnTime
    <2>6. \A i \in Job : i # j => OnTime(i)'
        BY <1>0, <1>7, OthersOnTime DEF Arm, history, TypeOK
    <2>. QED BY <2>5, <2>6 DEF PInv
<1>8. ASSUME NEW j \in Job, SelectExit(j) \/ Drain(j)
      PROVE  PInv'
    <2>1. OnTime(j)'
        BY <1>0, <1>8 DEF SelectExit, Drain, OnTime, TypeOK
    <2>2. \A i \in Job : i # j => OnTime(i)'
        BY <1>0, <1>8, OthersOnTime DEF SelectExit, Drain, history, TypeOK
    <2>. QED BY <2>1, <2>2 DEF PInv
<1>9. ASSUME NEW j \in Job, SelectTimer(j)
      PROVE  PInv'
    <2>1. nextRun[j] = now
        <3>1. loop[j] = "select" /\ now >= nextRun[j]
            BY <1>9 DEF SelectTimer
        <3>2. now <= nextRun[j]
            BY <3>1 DEF PInv, OnTime
        <3>3. now \in Int /\ nextRun[j] \in Int
            BY <1>0 DEF TypeOK
        <3>. QED BY <3>1, <3>2, <3>3
    <2>2. /\ loop'[j] \in {"next", "call"}
          /\ nextRun' = nextRun /\ now' = now /\ last'[j] = now
        <3>1. loop'[j] = IF Overlapping THEN "next" ELSE "call"
            BY <1>0, <1>9 DEF SelectTimer, TypeOK
        <3>2. nextRun' = nextRun /\ now' = now /\ last'[j] = nextRun[j]
            BY <1>0, <1>9 DEF SelectTimer, TypeOK
        <3>. QED BY <2>1, <3>1, <3>2
    <2>3. OnTime(j)'
        BY <1>0, <2>1, <2>2 DEF OnTime, TypeOK
    <2>4. \A i \in Job : i # j => OnTime(i)'
        BY <1>0, <1>9, OthersOnTime DEF SelectTimer, TypeOK
    <2>. QED BY <2>3, <2>4 DEF PInv
<1>10. ASSUME NEW j \in Job, NEW s \in Schedule[j], EndRun(j, s), ~Overlapping
       PROVE  PInv'
    <2>1. s \in Active(j)
        BY <1>10 DEF EndRun, Active, Underway, Gauged
    <2>2. loop[j] = "call"
        BY <1>10, <2>1 DEF IInv, OneCall
    <2>3. OnTime(j)'
        BY <1>0, <1>10, <2>2 DEF EndRun, PInv, OnTime, TypeOK
    <2>4. \A i \in Job : i # j => OnTime(i)'
        BY <1>0, <1>10, OthersOnTime DEF EndRun, TypeOK
    <2>. QED BY <2>3, <2>4 DEF PInv
<1>11. ASSUME NEW j \in Job, NEW s \in Schedule[j], RunStep(j, s)
       PROVE  PInv'
    <2>1. CASE EndRun(j, s)
        BY <1>2, <1>10, <2>1 DEF EndRun
    <2>. QED
        BY <1>2, <1>11, <2>1
           DEF RunStep, BeginRun, RunJob, CountResult, FinishRun, loopVars, history
<1>12. ASSUME NEW j \in Job, NEW s \in Schedule[j], MonitorStep(j, s)
       PROVE  PInv'
    BY <1>2, <1>12 DEF MonitorStep, MonitorDeadline, MonitorDone, loopVars, history
<1>13. CASE NotifyExit \/ UNCHANGED vars
    BY <1>2, <1>13 DEF NotifyExit, vars, loopVars, history
<1>. QED
    BY <1>1, <1>3, <1>4, <1>5, <1>6, <1>7, <1>8, <1>9, <1>11, <1>12, <1>13
       DEF Next, CallerStep, LoopStep

\* With enough processor time no instant passes unused: the loop has started
\* its run, unless the job was busy with an earlier one or had only just been
\* handed over (cron.go:164-216).
THEOREM PromptMissesNothing == PromptSpec => []NothingMissed
<1>1. IInv /\ [Next /\ (Tick => Settled)]_vars => IInv'
    BY InvNext
<1>2. IInv /\ PInv => NothingMissed
    <2>. SUFFICES ASSUME IInv, PInv, NEW j \in LiveLoops, ~exitCtx,
                         Overlapping \/ Active(j) = {},
                         NEW s \in Schedule[j], last[j] < s, freed[j] < s, s < now
                  PROVE  FALSE
        BY DEF NothingMissed
    <2>1. /\ j \in Job /\ loop[j] \in Live /\ s \in Nat /\ now \in Nat
          /\ nextRun[j] \in Nat /\ last[j] \in Nat /\ freed[j] \in Nat
        BY InstantsAreNaturals DEF LiveLoops, IInv, TypeOK
    <2>2. OnTime(j)
        BY <2>1 DEF PInv
    <2>3. loop[j] \notin {"new", "next", "select"}
        BY <2>1, <2>2 DEF OnTime
    <2>4. loop[j] # "call"
        BY <2>1 DEF IInv, OneCall
    <2>5. loop[j] # "drain"
        BY <2>1 DEF IInv, Drained
    <2>. QED BY <2>1, <2>3, <2>4, <2>5 DEF Live, LoopState
<1>. QED BY <1>1, <1>2, InvInit, PInvInit, PInvNext, PTL DEF PromptSpec

-----------------------------------------------------------------------------
(* The deadlines counted are the instants that came while a run was on *)

\* No schedule is exhausted before the horizon: Expression.Next always answers.
Lasting == \A j \in Job : \E s \in Schedule[j] : s > Horizon

\* A run is called in the instant that it is for, has a monitor from then until
\* it is over, and is on whenever the clock advances; its monitor waits for the
\* first instant of the schedule that has not come while the run was on.
Follows(j) ==
    /\ \A s \in Schedule[j] :
          /\ until[j][s] <= now
          /\ run[j][s] \in {"none", "begin"} => until[j][s] = 0 /\ s \notin watching[j]
          /\ run[j][s] = "begin" => s = now
          /\ run[j][s] \in Gauged => s \in watching[j] /\ (s = now \/ until[j][s] = now)
    /\ \A s \in watching[j] :
          /\ s \in Schedule[j]
          /\ deadline[j][s] \in Schedule[j]
          /\ s < deadline[j][s]
          /\ now <= deadline[j][s]
          /\ deadline[j][s] = now => until[j][s] = now
          /\ \A u \in Schedule[j] : s < u /\ u < deadline[j][s] => u <= until[j][s]

\* What came during a run and was, or may have been, counted.
Sure(j) ==
    {p \in CameDuring(j) :
        \/ p[2] < until[j][p[1]]
        \/ run[j][p[1]] \in Gauged /\ p[2] < deadline[j][p[1]]}

Possible(j) == {p \in CameDuring(j) : p[1] \in watching[j] => p[2] < deadline[j][p[1]]}

Bounded(j) ==
    /\ Cardinality(Sure(j)) <= metrics[j].deadlines
    /\ metrics[j].deadlines <= Cardinality(Possible(j))

HistoryOK ==
    /\ now <= Horizon
    /\ until \in [Job -> [Instant -> Nat]]
    /\ reset \in Nat
    /\ reset <= now

HInv == HistoryOK /\ \A j \in Job : Follows(j) /\ Bounded(j)

\* Pairs of instants up to some moment are finitely many.
LEMMA FewPairs ==
    ASSUME NEW j \in Job, NEW t \in Nat,
           NEW P \in SUBSET {p \in Schedule[j] \X Schedule[j] : p[1] < p[2] /\ p[2] <= t}
    PROVE  IsFiniteSet(P)
<1>1. IsFiniteSet((1 .. t) \X (1 .. t))
    <2>1. IsFiniteSet(1 .. t)
        BY FS_Interval
    <2>. QED BY <2>1, FS_Product
<1>2. P \subseteq (1 .. t) \X (1 .. t)
    BY InstantsAreNaturals
<1>. QED BY <1>1, <1>2, FS_Subset

\* The expression of a schedule that lasts has a match after every moment up
\* to the horizon.
LEMMA MatchesLast ==
    ASSUME Lasting, NEW j \in Job, NEW t \in Nat \ {0}, t <= Horizon
    PROVE  NextMatch(j, t) \in Schedule[j] /\ NextMatch(j, t) > t
<1>1. PICK s \in Schedule[j] : s > Horizon
    BY DEF Lasting
<1>2. s \in Later(j, t)
    BY <1>1, InstantsAreNaturals, BoundAssumption DEF Later
<1>3. Later(j, t) \in SUBSET Nat
    BY InstantsAreNaturals DEF Later
<1>4. NextMatch(j, t) = Earliest(Later(j, t))
    BY <1>2 DEF NextMatch, Zero
<1>. QED BY <1>2, <1>3, <1>4, EarliestIsFirst DEF Later

\* A count that grows no faster than what it counts stays below it.
LEMMA CountBelow ==
    ASSUME NEW A, NEW B, IsFiniteSet(B), A \subseteq B,
           NEW m \in Nat, m <= Cardinality(A)
    PROVE  m <= Cardinality(B)
BY FS_Subset, FS_CardinalityType

\* A schedule that lasts has an instant after every one the clock has come to,
\* and nothing between the two.
LEMMA NextDeadline ==
    ASSUME Lasting, NEW j \in Job, NEW t \in Nat \ {0}, t <= Horizon
    PROVE  /\ NextMatch(j, t) \in Schedule[j]
           /\ NextMatch(j, t) > t
           /\ \A u \in Schedule[j] : t < u => NextMatch(j, t) <= u
<1>1. NextMatch(j, t) \in Schedule[j] /\ NextMatch(j, t) > t
    BY MatchesLast
<1>. QED BY <1>1, NextMatchIsFirst, InstantsAreNaturals DEF Zero

\* What came during a run is finite, and so is every part of it.
LEMMA FewCame ==
    ASSUME NEW j \in Job, now \in Nat, until[j] \in [Instant -> Nat],
           \A s \in Schedule[j] : until[j][s] <= now
    PROVE  IsFiniteSet(CameDuring(j)) /\ IsFiniteSet(Sure(j)) /\ IsFiniteSet(Possible(j))
<1>1. CameDuring(j) \subseteq {p \in Schedule[j] \X Schedule[j] : p[1] < p[2] /\ p[2] <= now}
    BY InstantsAreNaturals DEF CameDuring
<1>2. IsFiniteSet(CameDuring(j))
    BY <1>1, FewPairs
<1>3. Sure(j) \subseteq CameDuring(j) /\ Possible(j) \subseteq CameDuring(j)
    BY DEF Sure, Possible
<1>. QED BY <1>2, <1>3, FS_Subset

LEMMA HInvInit == InitPrompt => HInv
<1> SUFFICES ASSUME InitPrompt
             PROVE  HInv
    OBVIOUS
<1>1. HistoryOK
    BY BoundAssumption DEF InitPrompt, Init, HistoryOK
<1>2. now = 1 /\ now \in Nat
    BY DEF InitPrompt, Init
<1>3. ASSUME NEW j \in Job
      PROVE  Follows(j) /\ Bounded(j)
    <2>1. /\ \A s \in Instant : until[j][s] = 0 /\ run[j][s] = "none"
          /\ watching[j] = {} /\ metrics[j].deadlines = 0
          /\ until[j] \in [Instant -> Nat]
        BY <1>3 DEF InitPrompt, Init, NoSeries
    <2>2. Follows(j)
        BY <1>2, <2>1, InstantsAreNaturals DEF Follows, Gauged
    <2>3. CameDuring(j) = {}
        BY <2>1, InstantsAreNaturals DEF CameDuring
    <2>4. Sure(j) = {} /\ Possible(j) = {}
        BY <2>3 DEF Sure, Possible
    <2>. QED BY <2>1, <2>2, <2>4, FS_EmptySet DEF Bounded
<1>. QED BY <1>1, <1>3 DEF HInv

\* The runs of a job in a step in which the clock stands: one that is due may
\* have been called, and others may have gone on.
Goes(j) ==
    \A u \in Schedule[j] :
        \/ run'[j][u] = run[j][u]
        \/ run[j][u] = "none" /\ run'[j][u] = "begin" /\ u = now
        \/ /\ run[j][u] \notin {"none", "begin"}
           /\ run'[j][u] \notin {"none", "begin"}
           /\ run'[j][u] \in Gauged => run[j][u] \in Gauged

\* No monitor starts or is given another deadline, and none ends during its run.
Watches(j) ==
    /\ watching'[j] \subseteq watching[j]
    /\ \A u \in watching'[j] : deadline'[j][u] = deadline[j][u]
    /\ \A u \in watching[j] : run'[j][u] \in Gauged => u \in watching'[j]

LEMMA FollowsHold ==
    ASSUME HInv, now' = now, until' = until, NEW j \in Job, Goes(j), Watches(j)
    PROVE  Follows(j)'
<1>1. Follows(j)
    BY DEF HInv
<1>2. ASSUME NEW s \in Schedule[j]
      PROVE  /\ until'[j][s] <= now'
             /\ run'[j][s] \in {"none", "begin"} => until'[j][s] = 0 /\ s \notin watching'[j]
             /\ run'[j][s] = "begin" => s = now'
             /\ run'[j][s] \in Gauged => s \in watching'[j] /\ (s = now' \/ until'[j][s] = now')
    <2>1. until'[j][s] <= now'
        BY <1>1 DEF Follows
    <2>2. run'[j][s] \in {"none", "begin"} => until'[j][s] = 0 /\ s \notin watching'[j]
        BY <1>1 DEF Follows, Goes, Watches
    <2>3. run'[j][s] = "begin" => s = now'
        BY <1>1 DEF Follows, Goes
    <2>4. run'[j][s] \in Gauged => run[j][s] \in Gauged
        BY DEF Goes, Gauged
    <2>5. run'[j][s] \in Gauged => s \in watching'[j] /\ (s = now' \/ until'[j][s] = now')
        BY <1>1, <2>4 DEF Follows, Watches
    <2>. QED BY <2>1, <2>2, <2>3, <2>5
<1>3. ASSUME NEW s \in watching'[j]
      PROVE  /\ s \in Schedule[j]
             /\ deadline'[j][s] \in Schedule[j]
             /\ s < deadline'[j][s]
             /\ now' <= deadline'[j][s]
             /\ deadline'[j][s] = now' => until'[j][s] = now'
             /\ \A u \in Schedule[j] : s < u /\ u < deadline'[j][s] => u <= until'[j][s]
    <2>1. s \in watching[j] /\ deadline'[j][s] = deadline[j][s]
        BY DEF Watches
    <2>. QED BY <1>1, <2>1 DEF Follows
<1>. QED BY <1>2, <1>3 DEF Follows

LEMMA BoundsHold ==
    ASSUME TypeOK, HInv, now' = now, until' = until, reset' = reset,
           NEW j \in Job, metrics'[j].deadlines = metrics[j].deadlines, Goes(j), Watches(j)
    PROVE  Bounded(j)'
<1>1. Follows(j) /\ Bounded(j)
    BY DEF HInv
<1>2. CameDuring(j)' = CameDuring(j)
    BY DEF CameDuring
<1>3. Sure(j)' \subseteq Sure(j)
    <2>1. ASSUME NEW p \in CameDuring(j), run'[j][p[1]] \in Gauged
          PROVE  run[j][p[1]] \in Gauged /\ deadline'[j][p[1]] = deadline[j][p[1]]
        <3>1. p[1] \in Schedule[j]
            BY DEF CameDuring
        <3>2. run[j][p[1]] \in Gauged
            BY <2>1, <3>1 DEF Goes, Gauged
        <3>3. p[1] \in watching'[j]
            BY <1>1, <2>1, <3>1, <3>2 DEF Follows, Watches
        <3>. QED BY <3>2, <3>3 DEF Watches
    <2>. QED BY <1>2, <2>1 DEF Sure
<1>4. Possible(j) \subseteq Possible(j)'
    BY <1>2 DEF Possible, Watches
<1>5. /\ now \in Nat /\ until[j] \in [Instant -> Nat] /\ metrics[j].deadlines \in Nat
      /\ \A s \in Schedule[j] : until[j][s] <= now
    BY <1>1 DEF TypeOK, SeriesType, HInv, HistoryOK, Follows
<1>6. IsFiniteSet(CameDuring(j)) /\ IsFiniteSet(Sure(j)) /\ IsFiniteSet(Possible(j))
    BY <1>5, FewCame
<1>7. Possible(j)' \subseteq CameDuring(j)
    BY <1>2 DEF Possible
<1>8. IsFiniteSet(Possible(j)')
    BY <1>6, <1>7, FS_Subset
<1>9. /\ Cardinality(Sure(j)') <= Cardinality(Sure(j))
      /\ Cardinality(Sure(j)') \in Nat /\ Cardinality(Sure(j)) \in Nat
    BY <1>3, <1>6, FS_Subset, FS_CardinalityType
<1>10. metrics[j].deadlines <= Cardinality(Possible(j)')
    BY <1>1, <1>4, <1>5, <1>8, CountBelow DEF Bounded
<1>11. Cardinality(Sure(j)') <= metrics[j].deadlines
    BY <1>1, <1>5, <1>9 DEF Bounded
<1>. QED BY <1>10, <1>11 DEF Bounded

\* A set that gains one element counts at most one more.
LEMMA OneMoreAtMost ==
    ASSUME NEW S, IsFiniteSet(S), NEW e, NEW T, T \subseteq S \cup {e}
    PROVE  /\ Cardinality(T) <= Cardinality(S) + 1
           /\ Cardinality(T) \in Nat /\ Cardinality(S) \in Nat
<1> DEFINE more == S \cup {e}
<1>1. Cardinality(S) \in Nat
    BY FS_CardinalityType
<1>2. IsFiniteSet(more)
    BY FS_AddElement
<1>3. Cardinality(more) \in Nat /\ Cardinality(more) <= Cardinality(S) + 1
    <2>1. Cardinality(more) = IF e \in S THEN Cardinality(S) ELSE Cardinality(S) + 1
        BY FS_AddElement
    <2>. HIDE DEF more
    <2>. QED BY <1>1, <2>1
<1>4. Cardinality(T) \in Nat /\ Cardinality(T) <= Cardinality(more)
    BY <1>2, FS_Subset, FS_CardinalityType
<1>. HIDE DEF more
<1>. QED BY <1>1, <1>3, <1>4

LEMMA OthersHold ==
    ASSUME TypeOK, HInv, now' = now, until' = until, reset' = reset, NEW j \in Job,
           run'[j] = run[j], watching'[j] = watching[j], deadline'[j] = deadline[j],
           metrics'[j].deadlines = metrics[j].deadlines
    PROVE  Follows(j)' /\ Bounded(j)'
<1>1. Goes(j)
    BY DEF Goes
<1>2. Watches(j)
    <2>1. Follows(j)
        BY DEF HInv
    <2>. QED BY <2>1 DEF Watches, Follows
<1>. QED BY <1>1, <1>2, FollowsHold, BoundsHold

\* With a reset every count starts anew: no run is on, and what came before has
\* come in this instant at the latest.
LEMMA ResetHolds ==
    ASSUME IInv, HInv, Reload, UNCHANGED until, reset' = now, NEW j \in Job
    PROVE  Follows(j)' /\ Bounded(j)'
<1>0. Follows(j) /\ TypeOK
    BY DEF HInv, IInv
<1>1. Active(j) = {}
    <2>1. LiveLoops = {}
        BY FS_EmptySet DEF Reload, IInv, Counted
    <2>2. loop[j] \in {"off", "done"}
        BY <1>0, <2>1 DEF LiveLoops, Live, TypeOK
    <2>. QED BY <2>2 DEF IInv, Drained
<1>2. UNCHANGED <<now, run, watching, deadline>> /\ metrics'[j].deadlines = 0
    BY DEF Reload, runVars, NoSeries
<1>3. Follows(j)'
    <2>1. Goes(j)
        BY <1>2 DEF Goes
    <2>2. Watches(j)
        BY <1>0, <1>2 DEF Watches, Follows
    <2>. QED BY <1>2, <2>1, <2>2, FollowsHold
<1>4. ASSUME NEW p \in CameDuring(j)'
      PROVE  p \notin Sure(j)'
    <2>1. /\ p[1] \in Schedule[j] /\ p[2] \in Schedule[j]
          /\ now <= p[2] /\ p[2] <= until[j][p[1]]
        BY DEF CameDuring
    <2>2. run[j][p[1]] \notin Gauged
        BY <1>1, <2>1 DEF Active, Underway
    <2>3. until[j][p[1]] <= now
        BY <1>0, <2>1 DEF Follows
    <2>4. now \in Nat /\ p[2] \in Nat /\ until[j][p[1]] \in Nat
        BY <1>0, <2>1, InstantsAreNaturals DEF TypeOK, HInv, HistoryOK
    <2>. QED BY <1>2, <2>1, <2>2, <2>3, <2>4 DEF Sure
<1>5. Sure(j)' = {}
    BY <1>4 DEF Sure
<1>6. IsFiniteSet(Possible(j)')
    <2>1. /\ now' \in Nat /\ until'[j] \in [Instant -> Nat]
          /\ \A s \in Schedule[j] : until'[j][s] <= now'
        BY <1>0, <1>2 DEF TypeOK, HInv, HistoryOK, Follows
    <2>2. CameDuring(j)' \subseteq
              {p \in Schedule[j] \X Schedule[j] : p[1] < p[2] /\ p[2] <= now'}
        BY <2>1, InstantsAreNaturals DEF CameDuring
    <2>3. Possible(j)' \subseteq CameDuring(j)'
        BY DEF Possible
    <2>. QED BY <2>1, <2>2, <2>3, FewPairs
<1>7. Bounded(j)'
    BY <1>2, <1>5, <1>6, FS_EmptySet, FS_CardinalityType DEF Bounded
<1>. QED BY <1>3, <1>7

\* A run is called in its own instant: its monitor waits for the next one.
LEMMA BeginHolds ==
    ASSUME Lasting, TypeOK, HInv, UNCHANGED <<until, reset>>,
           NEW j \in Job, NEW s \in Schedule[j], BeginRun(j, s)
    PROVE  Follows(j)' /\ Bounded(j)'
<1>0. Follows(j) /\ Bounded(j) /\ now <= Horizon /\ now \in Nat /\ now' = now
    BY DEF HInv, HistoryOK, TypeOK, BeginRun
<1>1. /\ run[j][s] = "begin" /\ s = now /\ until[j][s] = 0 /\ s \notin watching[j]
      /\ s \in Instant /\ s \in Nat \ {0}
    BY <1>0, InstantsAreNaturals DEF BeginRun, Follows
<1>2. /\ watching'[j] = watching[j] \cup {s}
      /\ deadline'[j][s] = NextMatch(j, s)
      /\ \A u \in Schedule[j] : u # s => deadline'[j][u] = deadline[j][u]
      /\ run'[j][s] = "exec"
      /\ \A u \in Schedule[j] : u # s => run'[j][u] = run[j][u]
    BY <1>1, InstantsAreNaturals DEF BeginRun, TypeOK
<1>3. /\ NextMatch(j, s) \in Schedule[j] /\ NextMatch(j, s) > s
      /\ \A u \in Schedule[j] : s < u => NextMatch(j, s) <= u
    BY <1>0, <1>1, NextDeadline
<1>4. metrics'[j].deadlines = metrics[j].deadlines
    BY DEF BeginRun, TypeOK, SeriesType
<1>5. Follows(j)'
    <2>1. ASSUME NEW u \in Schedule[j]
          PROVE  /\ until'[j][u] <= now'
                 /\ run'[j][u] \in {"none", "begin"} => until'[j][u] = 0 /\ u \notin watching'[j]
                 /\ run'[j][u] = "begin" => u = now'
                 /\ run'[j][u] \in Gauged => u \in watching'[j] /\ (u = now' \/ until'[j][u] = now')
        <3>1. CASE u = s
            BY <1>0, <1>1, <1>2, <3>1
        <3>2. CASE u # s
            BY <1>0, <1>2, <3>2 DEF Follows
        <3>. QED BY <3>1, <3>2
    <2>2. ASSUME NEW u \in watching'[j]
          PROVE  /\ u \in Schedule[j]
                 /\ deadline'[j][u] \in Schedule[j]
                 /\ u < deadline'[j][u]
                 /\ now' <= deadline'[j][u]
                 /\ deadline'[j][u] = now' => until'[j][u] = now'
                 /\ \A v \in Schedule[j] : u < v /\ v < deadline'[j][u] => v <= until'[j][u]
        <3>1. CASE u = s
            BY <1>0, <1>1, <1>2, <1>3, <3>1, InstantsAreNaturals
        <3>2. CASE u # s
            <4>1. u \in watching[j] /\ u \in Schedule[j] /\ deadline'[j][u] = deadline[j][u]
                BY <1>0, <1>2, <3>2 DEF Follows
            <4>. QED BY <1>0, <4>1 DEF Follows
        <3>. QED BY <3>1, <3>2
    <2>. QED BY <2>1, <2>2 DEF Follows
<1>6. CameDuring(j)' = CameDuring(j)
    BY DEF CameDuring
<1>7. \A p \in CameDuring(j) : p[1] # s
    BY <1>1, InstantsAreNaturals DEF CameDuring
<1>8. Sure(j)' = Sure(j)
    BY <1>2, <1>6, <1>7 DEF Sure, CameDuring
<1>9. Possible(j)' = Possible(j)
    BY <1>2, <1>6, <1>7 DEF Possible, CameDuring
<1>10. Bounded(j)'
    BY <1>0, <1>4, <1>8, <1>9 DEF Bounded
<1>. QED BY <1>5, <1>10

\* A deadline is counted in the instant that it is for, while the run is on or
\* was when the clock came to it.
LEMMA CountHolds ==
    ASSUME Lasting, TypeOK, HInv, UNCHANGED <<until, reset>>,
           NEW j \in Job, NEW s \in Schedule[j], MonitorDeadline(j, s)
    PROVE  Follows(j)' /\ Bounded(j)'
<1> DEFINE d == deadline[j][s]
<1>0. /\ Follows(j) /\ Bounded(j) /\ now <= Horizon /\ now \in Nat
      /\ UNCHANGED <<now, run, watching>>
      /\ reset \in Nat /\ reset <= now /\ until[j] \in [Instant -> Nat]
    BY DEF HInv, HistoryOK, TypeOK, MonitorDeadline
<1>1. /\ s \in watching[j] /\ s \in Instant /\ s \in Nat
      /\ d \in Schedule[j] /\ d \in Nat \ {0}
      /\ s < d /\ d = now /\ until[j][s] = now
    BY <1>0, InstantsAreNaturals DEF MonitorDeadline, Follows
<1>2. /\ deadline'[j][s] = NextMatch(j, d)
      /\ \A u \in Instant : u # s => deadline'[j][u] = deadline[j][u]
    BY <1>1 DEF MonitorDeadline, TypeOK
<1>3. metrics'[j].deadlines = metrics[j].deadlines + 1 /\ metrics[j].deadlines \in Nat
    BY DEF MonitorDeadline, TypeOK, SeriesType
<1>4. /\ NextMatch(j, d) \in Schedule[j] /\ NextMatch(j, d) > d /\ NextMatch(j, d) \in Nat
      /\ \A u \in Schedule[j] : d < u => NextMatch(j, d) <= u
    <2>. HIDE DEF d
    <2>. QED BY <1>0, <1>1, NextDeadline, InstantsAreNaturals
<1>5. Follows(j)'
    <2>1. \A u \in Schedule[j] : 
              /\ until'[j][u] <= now'
              /\ run'[j][u] \in {"none", "begin"} => until'[j][u] = 0 /\ u \notin watching'[j]
              /\ run'[j][u] = "begin" => u = now'
              /\ run'[j][u] \in Gauged => u \in watching'[j] /\ (u = now' \/ until'[j][u] = now')
        BY <1>0 DEF Follows
    <2>2. ASSUME NEW u \in watching'[j]
          PROVE  /\ u \in Schedule[j]
                 /\ deadline'[j][u] \in Schedule[j]
                 /\ u < deadline'[j][u]
                 /\ now' <= deadline'[j][u]
                 /\ deadline'[j][u] = now' => until'[j][u] = now'
                 /\ \A v \in Schedule[j] : u < v /\ v < deadline'[j][u] => v <= until'[j][u]
        <3>1. CASE u = s
            BY <1>0, <1>1, <1>2, <1>4, <3>1, InstantsAreNaturals
        <3>2. CASE u # s
            <4>1. u \in watching[j] /\ u \in Instant /\ deadline'[j][u] = deadline[j][u]
                BY <1>0, <1>2, <3>2, InstantsAreNaturals DEF Follows
            <4>. QED BY <1>0, <4>1 DEF Follows
        <3>. QED BY <3>1, <3>2
    <2>. QED BY <2>1, <2>2 DEF Follows
<1>6. CameDuring(j)' = CameDuring(j)
    BY DEF CameDuring
<1>7. /\ <<s, d>> \in CameDuring(j) /\ <<s, d>> \notin Possible(j)
      /\ <<s, d>> \in Possible(j)'
    <2>1. <<s, d>> \in CameDuring(j)
        BY <1>0, <1>1 DEF CameDuring
    <2>2. <<s, d>> \notin Possible(j)
        BY <1>1 DEF Possible
    <2>3. <<s, d>> \in Possible(j)'
        BY <1>0, <1>2, <1>4, <1>6, <2>1 DEF Possible
    <2>. QED BY <2>1, <2>2, <2>3
<1>8. Possible(j) \cup {<<s, d>>} \subseteq Possible(j)'
    <2>1. ASSUME NEW p \in Possible(j)
          PROVE  p \in Possible(j)'
        <3>1. p \in CameDuring(j) /\ p[1] \in Instant /\ p[2] \in Nat
            BY InstantsAreNaturals DEF Possible, CameDuring
        <3>2. p[1] = s => p[2] < d
            BY <1>1 DEF Possible
        <3>3. p[1] = s => p[2] < deadline'[j][s]
            BY <1>1, <1>2, <1>4, <3>1, <3>2
        <3>. QED BY <1>0, <1>2, <1>6, <3>1, <3>3 DEF Possible
    <2>. QED BY <1>7, <2>1
<1>9. Sure(j)' \subseteq Sure(j) \cup {<<s, d>>}
    <2>1. ASSUME NEW p \in Sure(j)', p # <<s, d>>
          PROVE  p \in Sure(j)
        <3>1. /\ p \in CameDuring(j) /\ p[1] \in Instant /\ p[2] \in Nat
              /\ p = <<p[1], p[2]>>
            BY <1>6, InstantsAreNaturals DEF Sure, CameDuring
        <3>2. CASE p[1] # s
            BY <1>0, <1>2, <2>1, <3>1, <3>2 DEF Sure
        <3>3. CASE p[1] = s
            <4>1. p[2] # d /\ p[2] <= until[j][s]
                BY <2>1, <3>1, <3>3 DEF CameDuring
            <4>2. p[2] < until[j][p[1]]
                BY <1>0, <1>1, <3>1, <3>3, <4>1
            <4>. QED BY <3>1, <4>2 DEF Sure
        <3>. QED BY <3>2, <3>3
    <2>. QED BY <2>1
<1>10. IsFiniteSet(CameDuring(j)) /\ IsFiniteSet(Sure(j)) /\ IsFiniteSet(Possible(j))
    <2>1. \A u \in Schedule[j] : until[j][u] <= now
        BY <1>0 DEF Follows
    <2>. QED BY <1>0, <2>1, FewCame
<1>11. IsFiniteSet(Possible(j)')
    <2>1. Possible(j)' \subseteq CameDuring(j)
        BY <1>6 DEF Possible
    <2>. QED BY <1>10, <2>1, FS_Subset
<1>12. metrics'[j].deadlines <= Cardinality(Possible(j)')
    <2>1. Cardinality(Possible(j) \cup {<<s, d>>}) = Cardinality(Possible(j)) + 1
        BY <1>7, <1>10, FS_AddElement
    <2>2. metrics[j].deadlines + 1 <= Cardinality(Possible(j) \cup {<<s, d>>})
        BY <1>0, <1>3, <1>10, <2>1, FS_CardinalityType DEF Bounded
    <2>. HIDE DEF d
    <2>. QED BY <1>3, <1>8, <1>11, <2>2, CountBelow
<1>13. Cardinality(Sure(j)') <= metrics'[j].deadlines
    <2>1. /\ Cardinality(Sure(j)') <= Cardinality(Sure(j)) + 1
          /\ Cardinality(Sure(j)') \in Nat /\ Cardinality(Sure(j)) \in Nat
        BY <1>9, <1>10, OneMoreAtMost
    <2>. QED BY <1>0, <1>3, <2>1 DEF Bounded
<1>14. Bounded(j)'
    BY <1>12, <1>13 DEF Bounded
<1>. QED BY <1>5, <1>14

\* The clock advances when every monitor has counted what came so far.
LEMMA TickHolds ==
    ASSUME TypeOK, HInv, Tick, Settled, Remember, NEW j \in Job
    PROVE  Follows(j)' /\ Bounded(j)'
<1>0. /\ Follows(j) /\ Bounded(j) /\ now \in Nat /\ now' = now + 1 /\ reset \in Nat
      /\ UNCHANGED <<exitCtx, run, watching, deadline, metrics>>
      /\ until[j] \in [Instant -> Nat] /\ run[j] \in [Instant -> RunState]
      /\ deadline[j] \in [Instant -> Nat] /\ metrics[j].deadlines \in Nat
    BY DEF HInv, HistoryOK, TypeOK, SeriesType, Tick, runVars
<1>1. /\ reset' = reset
      /\ \A s \in Instant : until'[j][s] = IF run[j][s] \in Gauged THEN now' ELSE until[j][s]
    BY <1>0 DEF Remember
<1>2. \A s \in Schedule[j] : run[j][s] \in {"none", "exec", "ended"}
    BY DEF Settled
<1>3. ASSUME NEW s \in watching[j]
      PROVE  /\ s \in Schedule[j] /\ s \in Instant /\ run[j][s] \in Gauged
             /\ now < deadline[j][s] /\ until'[j][s] = now'
    <2>1. s \in Schedule[j] /\ s \in Instant
        BY <1>0, InstantsAreNaturals DEF Follows
    <2>2. ~MonitorCancelled(j, s) /\ now < deadline[j][s]
        BY DEF Settled
    <2>3. run[j][s] # "none"
        BY <1>0, <2>1 DEF Follows
    <2>4. run[j][s] = "exec"
        BY <1>2, <2>1, <2>2, <2>3 DEF MonitorCancelled
    <2>. QED BY <1>1, <2>1, <2>2, <2>4 DEF Gauged
<1>4. \A s \in Schedule[j] : until[j][s] <= until'[j][s] /\ until'[j][s] <= now'
    BY <1>0, <1>1, InstantsAreNaturals DEF Follows
<1>5. Follows(j)'
    <2>1. ASSUME NEW s \in Schedule[j]
          PROVE  /\ until'[j][s] <= now'
                 /\ run'[j][s] \in {"none", "begin"} => until'[j][s] = 0 /\ s \notin watching'[j]
                 /\ run'[j][s] = "begin" => s = now'
                 /\ run'[j][s] \in Gauged => s \in watching'[j] /\ (s = now' \/ until'[j][s] = now')
        <3>1. s \in Instant /\ run'[j][s] = run[j][s] /\ watching'[j] = watching[j]
            BY <1>0, InstantsAreNaturals
        <3>2. CASE run[j][s] \in Gauged
            BY <1>0, <1>1, <1>2, <1>4, <3>1, <3>2 DEF Follows, Gauged
        <3>3. CASE run[j][s] \notin Gauged
            BY <1>0, <1>1, <1>2, <1>4, <3>1, <3>3 DEF Follows
        <3>. QED BY <3>2, <3>3
    <2>2. ASSUME NEW s \in watching'[j]
          PROVE  /\ s \in Schedule[j]
                 /\ deadline'[j][s] \in Schedule[j]
                 /\ s < deadline'[j][s]
                 /\ now' <= deadline'[j][s]
                 /\ deadline'[j][s] = now' => until'[j][s] = now'
                 /\ \A u \in Schedule[j] : s < u /\ u < deadline'[j][s] => u <= until'[j][s]
        <3>1. s \in watching[j] /\ deadline'[j][s] = deadline[j][s] /\ deadline[j][s] \in Nat
            BY <1>0, <1>3
        <3>2. ASSUME NEW u \in Schedule[j], s < u, u < deadline[j][s]
              PROVE  u <= until'[j][s]
            <4>1. u <= until[j][s]
                BY <1>0, <3>1, <3>2 DEF Follows
            <4>2. u \in Nat /\ until[j][s] \in Nat /\ until'[j][s] \in Nat
                BY <1>0, <1>3, <3>1, InstantsAreNaturals
            <4>. QED BY <1>3, <1>4, <3>1, <4>1, <4>2
        <3>3. s \in Schedule[j] /\ deadline[j][s] \in Schedule[j] /\ s < deadline[j][s]
            BY <1>0, <3>1 DEF Follows
        <3>. QED BY <1>0, <1>3, <3>1, <3>2, <3>3
    <2>. QED BY <2>1, <2>2 DEF Follows
<1>6. CameDuring(j) \subseteq CameDuring(j)'
    <2>1. ASSUME NEW p \in CameDuring(j)
          PROVE  p[2] <= until'[j][p[1]]
        <3>1. p[1] \in Schedule[j] /\ p[1] \in Instant /\ p[2] \in Nat /\ p[2] <= until[j][p[1]]
            BY InstantsAreNaturals DEF CameDuring
        <3>2. until[j][p[1]] \in Nat /\ until'[j][p[1]] \in Nat
            BY <1>0, <1>1, <3>1
        <3>. QED BY <1>4, <3>1, <3>2
    <2>. QED BY <1>1, <2>1 DEF CameDuring
<1>7. Possible(j) \subseteq Possible(j)'
    BY <1>0, <1>6 DEF Possible
<1>8. Sure(j)' \subseteq Sure(j)
    <2>1. ASSUME NEW p \in Sure(j)'
          PROVE  p \in Sure(j)
        <3>1. /\ p \in Schedule[j] \X Schedule[j]
              /\ p[1] \in Schedule[j] /\ p[1] \in Instant /\ p[2] \in Schedule[j]
              /\ p[2] \in Nat /\ p[1] < p[2] /\ reset <= p[2]
              /\ p[2] <= until'[j][p[1]]
              /\ \/ p[2] < until'[j][p[1]]
                 \/ run[j][p[1]] \in Gauged /\ p[2] < deadline[j][p[1]]
            BY <1>0, <1>1, InstantsAreNaturals DEF Sure, CameDuring
        <3>2. CASE run[j][p[1]] \in Gauged
            <4>1. p[1] \in watching[j]
                BY <1>0, <3>1, <3>2 DEF Follows
            <4>2. now < deadline[j][p[1]] /\ until'[j][p[1]] = now + 1
                BY <1>0, <1>3, <4>1
            <4>3. deadline[j][p[1]] \in Nat
                BY <1>0, <3>1
            <4>4. p[2] < deadline[j][p[1]]
                BY <1>0, <3>1, <4>2, <4>3
            <4>5. p[2] <= until[j][p[1]]
                BY <1>0, <3>1, <4>1, <4>4 DEF Follows
            <4>. QED BY <3>1, <3>2, <4>4, <4>5 DEF Sure, CameDuring
        <3>3. CASE run[j][p[1]] \notin Gauged
            <4>1. until'[j][p[1]] = until[j][p[1]]
                BY <1>1, <3>1, <3>3
            <4>. QED BY <3>1, <3>3, <4>1 DEF Sure, CameDuring
        <3>. QED BY <3>2, <3>3
    <2>. QED BY <2>1
<1>9. IsFiniteSet(Possible(j)') /\ IsFiniteSet(Sure(j))
    <2>1. IsFiniteSet(Sure(j))
        BY <1>0, FewCame DEF Follows
    <2>2. now' \in Nat /\ \A s \in Schedule[j] : until'[j][s] \in Nat
        BY <1>0, <1>1, InstantsAreNaturals
    <2>3. CameDuring(j)' \subseteq
              {p \in Schedule[j] \X Schedule[j] : p[1] < p[2] /\ p[2] <= now'}
        BY <1>4, <2>2, InstantsAreNaturals DEF CameDuring
    <2>4. Possible(j)' \subseteq CameDuring(j)'
        BY DEF Possible
    <2>. QED BY <2>1, <2>2, <2>3, <2>4, FewPairs
<1>10. metrics'[j].deadlines <= Cardinality(Possible(j)')
    BY <1>0, <1>7, <1>9, CountBelow DEF Bounded
<1>11. Cardinality(Sure(j)') <= metrics'[j].deadlines
    <2>1. /\ Cardinality(Sure(j)') <= Cardinality(Sure(j))
          /\ Cardinality(Sure(j)') \in Nat /\ Cardinality(Sure(j)) \in Nat
        BY <1>8, <1>9, FS_Subset, FS_CardinalityType
    <2>. QED BY <1>0, <2>1 DEF Bounded
<1>12. Bounded(j)'
    BY <1>10, <1>11 DEF Bounded
<1>. QED BY <1>5, <1>12

\* Only Tick moves the clock and only Reload takes the exit request back.
LEMMA WhatMoves ==
    ASSUME TypeOK, Next
    PROVE  /\ Tick \/ now' = now
           /\ Reload \/ ~(exitCtx /\ ~exitCtx')
<1>1. ASSUME NEW j \in Job, LoopStep(j)
      PROVE  now' = now /\ exitCtx' = exitCtx
    BY <1>1 DEF LoopStep, ReadClock, TooLate, Arm, SelectExit, SelectTimer, Drain
<1>2. ASSUME NEW j \in Job, NEW s \in Schedule[j], RunStep(j, s)
      PROVE  now' = now /\ exitCtx' = exitCtx
    BY <1>2 DEF RunStep, BeginRun, RunJob, CountResult, FinishRun, EndRun
<1>3. ASSUME NEW j \in Job, NEW s \in Schedule[j], MonitorStep(j, s)
      PROVE  now' = now /\ exitCtx' = exitCtx
    BY <1>3 DEF MonitorStep, MonitorDeadline, MonitorDone
<1>4. CASE CallerStep
    BY <1>4 DEF CallerStep, NotifyExit, Reload, StartJob
<1>5. CASE Tick
    BY <1>5 DEF Tick
<1>. QED BY <1>1, <1>2, <1>3, <1>4, <1>5 DEF Next

\* A run that goes on counts no deadline.
LEMMA DeadlinesStay ==
    ASSUME TypeOK, NEW j \in Job, NEW s \in Schedule[j],
           RunJob(j, s) \/ CountResult(j, s) \/ FinishRun(j, s) \/ EndRun(j, s)
    PROVE  \A i \in Job : metrics'[i].deadlines = metrics[i].deadlines
<1>. metrics \in [Job -> SeriesType]
    BY DEF TypeOK
<1>1. CASE RunJob(j, s)
    BY <1>1 DEF RunJob, SeriesType
<1>2. CASE CountResult(j, s)
    BY <1>2 DEF CountResult, SeriesType
<1>3. CASE FinishRun(j, s)
    <2>1. /\ metrics'[j] = [metrics[j] EXCEPT !.timings = @ + 1, !.running = @ - 1]
          /\ \A i \in Job : i # j => metrics'[i] = metrics[i]
        BY <1>3 DEF FinishRun
    <2>2. metrics'[j].deadlines = metrics[j].deadlines
        BY <2>1 DEF SeriesType
    <2>. QED BY <2>1, <2>2
<1>4. CASE EndRun(j, s)
    BY <1>4 DEF EndRun
<1>. QED BY <1>1, <1>2, <1>3, <1>4

LEMMA HInvNext ==
    Lasting /\ IInv /\ IInv' /\ PInv /\ HInv /\ [NextPrompt]_promptVars => HInv'
<1> SUFFICES ASSUME Lasting, IInv, IInv', PInv, HInv, [NextPrompt]_promptVars
             PROVE  HInv'
    OBVIOUS
<1>0. TypeOK /\ TypeOK' /\ HistoryOK
    BY DEF IInv, HInv
<1>1. CASE UNCHANGED promptVars
    <2>1. /\ UNCHANGED <<now, run, watching, deadline, metrics, until, reset>>
        BY <1>1 DEF promptVars, vars, runVars
    <2>2. HistoryOK'
        BY <1>0, <2>1 DEF HistoryOK
    <2>3. \A j \in Job : Follows(j)' /\ Bounded(j)'
        BY <1>0, <2>1, OthersHold
    <2>. QED BY <2>2, <2>3 DEF HInv
<1>2. CASE NextPrompt /\ Tick
    <2>1. Settled /\ Remember
        BY <1>2 DEF NextPrompt
    <2>2. now' = now + 1 /\ now < Horizon /\ exitCtx' = exitCtx /\ now \in Nat
        BY <1>0, <1>2 DEF Tick, TypeOK
    <2>3. HistoryOK'
        BY <1>0, <2>1, <2>2, BoundAssumption DEF Remember, HistoryOK
    <2>4. \A j \in Job : Follows(j)' /\ Bounded(j)'
        BY <1>0, <1>2, <2>1, TickHolds
    <2>. QED BY <2>3, <2>4 DEF HInv
<1>3. CASE NextPrompt /\ Reload
    <2>1. now' = now /\ exitCtx /\ ~exitCtx' /\ Remember
        BY <1>3 DEF NextPrompt, Reload
    <2>2. until' = until /\ reset' = now
        BY <2>1 DEF Remember
    <2>3. HistoryOK'
        BY <1>0, <2>1, <2>2 DEF HistoryOK, TypeOK
    <2>4. \A j \in Job : Follows(j)' /\ Bounded(j)'
        BY <1>3, <2>2, ResetHolds
    <2>. QED BY <2>3, <2>4 DEF HInv
<1>4. CASE NextPrompt /\ ~Tick /\ ~Reload
    <2>0. Next /\ Remember
        BY <1>4 DEF NextPrompt
    <2>1. now' = now /\ ~(exitCtx /\ ~exitCtx')
        BY <1>0, <1>4, <2>0, WhatMoves
    <2>2. until' = until /\ reset' = reset
        BY <2>0, <2>1 DEF Remember
    <2>3. HistoryOK'
        BY <1>0, <2>1, <2>2 DEF HistoryOK
    <2>. SUFFICES \A i \in Job : Follows(i)' /\ Bounded(i)'
        BY <2>3 DEF HInv
    <2>4. CASE UNCHANGED runVars /\ UNCHANGED metrics
        BY <1>0, <2>1, <2>2, <2>4, OthersHold DEF runVars
    <2>5. ASSUME NEW j \in Job, SelectTimer(j)
          PROVE  \A i \in Job : Follows(i)' /\ Bounded(i)'
        <3>1. PICK s \in Schedule[j] : s = nextRun[j] /\ s \in Nat /\ last[j] < s
            BY <1>0, <2>5 DEF SelectTimer, IInv, InOrder, TypeOK
        <3>2. s = now
            <4>1. now >= s /\ now <= s
                BY <2>5, <3>1 DEF SelectTimer, PInv, OnTime
            <4>2. now \in Nat
                BY <1>0 DEF TypeOK
            <4>. QED BY <3>1, <4>1, <4>2
        <3>3. run[j][s] = "none"
            BY <1>0, <3>1 DEF IInv, InOrder, TypeOK
        <3>4. /\ run' = [run EXCEPT ![j][s] = "begin"]
              /\ UNCHANGED <<watching, deadline, metrics>>
            BY <2>5, <3>1 DEF SelectTimer
        <3>5. s \in Instant
            BY InstantsAreNaturals
        <3>6. /\ run'[j][s] = "begin"
              /\ \A u \in Instant : u # s => run'[j][u] = run[j][u]
              /\ \A i \in Job : i # j => run'[i] = run[i]
            BY <1>0, <3>4, <3>5 DEF TypeOK
        <3>7. Goes(j)
            BY <3>2, <3>3, <3>6, InstantsAreNaturals DEF Goes
        <3>8. Watches(j)
            <4>1. \A u \in watching[j] : u \in watching'[j] /\ deadline'[j][u] = deadline[j][u]
                BY <3>4
            <4>. QED BY <3>4, <4>1 DEF Watches
        <3>9. Follows(j)' /\ Bounded(j)'
            BY <1>0, <2>1, <2>2, <3>4, <3>7, <3>8, FollowsHold, BoundsHold
        <3>10. \A i \in Job : i # j => Follows(i)' /\ Bounded(i)'
            BY <1>0, <2>1, <2>2, <3>4, <3>6, OthersHold
        <3>. QED BY <3>9, <3>10
    <2>6. ASSUME NEW j \in Job, NEW s \in Schedule[j], BeginRun(j, s)
          PROVE  \A i \in Job : Follows(i)' /\ Bounded(i)'
        <3>1. Follows(j)' /\ Bounded(j)'
            BY <1>0, <2>2, <2>6, BeginHolds
        <3>2. \A i \in Job : i # j =>
                 /\ run'[i] = run[i] /\ watching'[i] = watching[i]
                 /\ deadline'[i] = deadline[i] /\ metrics'[i].deadlines = metrics[i].deadlines
            BY <1>0, <2>6 DEF BeginRun, TypeOK
        <3>3. \A i \in Job : i # j => Follows(i)' /\ Bounded(i)'
            BY <1>0, <2>1, <2>2, <3>2, OthersHold
        <3>. QED BY <3>1, <3>3
    <2>7. ASSUME NEW j \in Job, NEW s \in Schedule[j],
                 RunJob(j, s) \/ CountResult(j, s) \/ FinishRun(j, s) \/ EndRun(j, s)
          PROVE  \A i \in Job : Follows(i)' /\ Bounded(i)'
        <3>1. UNCHANGED <<watching, deadline>>
            BY <2>7 DEF RunJob, CountResult, FinishRun, EndRun
        <3>2. \E x \in RunState \ {"none", "begin"} :
                 /\ run' = [run EXCEPT ![j][s] = x]
                 /\ run[j][s] \notin {"none", "begin"}
                 /\ x \in Gauged => run[j][s] \in Gauged
            BY <2>7 DEF RunJob, CountResult, FinishRun, EndRun, RunState, Gauged
        <3>3. s \in Instant
            BY InstantsAreNaturals
        <3>4. /\ run'[j][s] \notin {"none", "begin"}
              /\ run[j][s] \notin {"none", "begin"}
              /\ run'[j][s] \in Gauged => run[j][s] \in Gauged
              /\ \A u \in Instant : u # s => run'[j][u] = run[j][u]
              /\ \A i \in Job : i # j => run'[i] = run[i]
            BY <1>0, <3>2, <3>3 DEF TypeOK
        <3>5. Goes(j)
            BY <3>4, InstantsAreNaturals DEF Goes
        <3>6. Watches(j)
            BY <3>1 DEF Watches
        <3>7. \A i \in Job : metrics'[i].deadlines = metrics[i].deadlines
            BY <1>0, <2>7, DeadlinesStay
        <3>8. Follows(j)' /\ Bounded(j)'
            BY <1>0, <2>1, <2>2, <3>5, <3>6, <3>7, FollowsHold, BoundsHold
        <3>9. \A i \in Job : i # j => Follows(i)' /\ Bounded(i)'
            BY <1>0, <2>1, <2>2, <3>1, <3>4, <3>7, OthersHold
        <3>. QED BY <3>8, <3>9
    <2>8. ASSUME NEW j \in Job, NEW s \in Schedule[j], MonitorDeadline(j, s)
          PROVE  \A i \in Job : Follows(i)' /\ Bounded(i)'
        <3>1. Follows(j)' /\ Bounded(j)'
            BY <1>0, <2>2, <2>8, CountHolds
        <3>2. \A i \in Job : i # j =>
                 /\ run'[i] = run[i] /\ watching'[i] = watching[i]
                 /\ deadline'[i] = deadline[i] /\ metrics'[i].deadlines = metrics[i].deadlines
            BY <1>0, <2>8 DEF MonitorDeadline, TypeOK
        <3>3. \A i \in Job : i # j => Follows(i)' /\ Bounded(i)'
            BY <1>0, <2>1, <2>2, <3>2, OthersHold
        <3>. QED BY <3>1, <3>3
    <2>9. ASSUME NEW j \in Job, NEW s \in Schedule[j], MonitorDone(j, s)
          PROVE  \A i \in Job : Follows(i)' /\ Bounded(i)'
        <3>1. UNCHANGED <<run, metrics>> /\ run[j][s] \notin Gauged
            BY <2>9 DEF MonitorDone, MonitorCancelled, Gauged
        <3>2. s \in Instant
            BY InstantsAreNaturals
        <3>3. /\ watching'[j] = watching[j] \ {s}
              /\ \A u \in Instant : u # s => deadline'[j][u] = deadline[j][u]
              /\ \A i \in Job : i # j => watching'[i] = watching[i] /\ deadline'[i] = deadline[i]
            BY <1>0, <2>9, <3>2 DEF MonitorDone, TypeOK
        <3>4. Goes(j)
            BY <3>1 DEF Goes
        <3>5. watching[j] \subseteq Instant
            BY <1>0 DEF TypeOK
        <3>6. Watches(j)
            BY <3>1, <3>3, <3>5 DEF Watches
        <3>7. Follows(j)' /\ Bounded(j)'
            BY <1>0, <2>1, <2>2, <3>1, <3>4, <3>6, FollowsHold, BoundsHold
        <3>8. \A i \in Job : i # j => Follows(i)' /\ Bounded(i)'
            BY <1>0, <2>1, <2>2, <3>1, <3>3, OthersHold
        <3>. QED BY <3>7, <3>8
    <2>. QED
        BY <1>4, <2>0, <2>4, <2>5, <2>6, <2>7, <2>8, <2>9
           DEF Next, CallerStep, NotifyExit, StartJob, LoopStep, ReadClock, TooLate,
               Arm, SelectExit, Drain, RunStep, MonitorStep, runVars
<1>. QED BY <1>1, <1>2, <1>3, <1>4

\* The history variables only watch: what is proved of PromptSpec holds of
\* SpecPrompt too.
LEMMA HistoriesOnly == SpecPrompt => PromptSpec
<1>1. [NextPrompt]_promptVars => [Next /\ (Tick => Settled)]_vars
    BY DEF NextPrompt, promptVars
<1>. QED BY <1>1, PTL DEF SpecPrompt, InitPrompt, PromptSpec

\* The deadlines counted as missed are the instants of the schedule that came
\* while an earlier run was on, as long as the schedule does not run out
\* (cron.go:125-145): no more than came, no less than the clock went beyond.
THEOREM DeadlinesCounted ==
    ASSUME Lasting
    PROVE  SpecPrompt => []DeadlinesAreMissed
<1>1. InitPrompt => IInv /\ PInv /\ HInv
    BY InvInit, PInvInit, HInvInit DEF InitPrompt
<1>2. [NextPrompt]_promptVars => [Next]_vars /\ [Next /\ (Tick => Settled)]_vars
    BY DEF NextPrompt, promptVars
<1>3. IInv /\ [NextPrompt]_promptVars => IInv'
    BY <1>2, InvNext
<1>4. IInv /\ PInv /\ [NextPrompt]_promptVars => PInv'
    BY <1>2, PInvNext
<1>5. IInv /\ IInv' /\ PInv /\ HInv /\ [NextPrompt]_promptVars => HInv'
    BY Lasting, HInvNext
<1>6. IInv /\ HInv => DeadlinesAreMissed
    <2>. SUFFICES ASSUME IInv, HInv, NEW j \in Job
                  PROVE  /\ Cardinality(PassedDuring(j)) <= metrics[j].deadlines
                         /\ metrics[j].deadlines <= Cardinality(CameDuring(j))
        BY DEF DeadlinesAreMissed
    <2>1. /\ now \in Nat /\ until[j] \in [Instant -> Nat] /\ metrics[j].deadlines \in Nat
          /\ \A s \in Schedule[j] : until[j][s] <= now
          /\ Cardinality(Sure(j)) <= metrics[j].deadlines
          /\ metrics[j].deadlines <= Cardinality(Possible(j))
        BY DEF IInv, TypeOK, SeriesType, HInv, HistoryOK, Follows, Bounded
    <2>2. IsFiniteSet(CameDuring(j)) /\ IsFiniteSet(Sure(j)) /\ IsFiniteSet(Possible(j))
        BY <2>1, FewCame
    <2>3. PassedDuring(j) \subseteq Sure(j) /\ Possible(j) \subseteq CameDuring(j)
        BY DEF PassedDuring, Sure, Possible
    <2>4. /\ Cardinality(PassedDuring(j)) <= Cardinality(Sure(j))
          /\ Cardinality(PassedDuring(j)) \in Nat /\ Cardinality(Sure(j)) \in Nat
        BY <2>2, <2>3, FS_Subset, FS_CardinalityType
    <2>5. metrics[j].deadlines <= Cardinality(CameDuring(j))
        BY <2>1, <2>2, <2>3, CountBelow
    <2>. QED BY <2>1, <2>4, <2>5
<1>. QED BY <1>1, <1>3, <1>4, <1>5, <1>6, PTL DEF SpecPrompt
=============================================================================
