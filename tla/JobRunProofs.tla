---------------------------- MODULE JobRunProofs ----------------------------
(***************************************************************************)
(* Theorems about JobRun for any set of processes, pipe size and bound on  *)
(* the output.                                                             *)
(***************************************************************************)
EXTENDS JobRun, TLAPS, SequenceTheorems

-----------------------------------------------------------------------------
(* The inductive invariant *)

Busy(ch) == reader[ch] \in {"reading", "stopping"}

\* The wait group counts the readers that have not yet returned.
Counted == wg = (IF Busy("stdout") THEN 1 ELSE 0) + (IF Busy("stderr") THEN 1 ELSE 0)

\* How far the readers are when runJob is at each of its steps; a reader that
\* reads has its pipe.
InStep ==
    /\ passthrough => run # "drain" /\ \A ch \in Channel : reader[ch] = "off" /\ ch \notin open
    /\ run \in {"pipes", "start"} => \A ch \in Channel : reader[ch] = "off"
    /\ run \in {"start", "drain"} /\ ~passthrough =>
          \A ch \in Channel : reader[ch] = "off" => ch \in open
    /\ run = "drain" => reader["stderr"] = "off"
    /\ run = "wgWait" /\ ~passthrough => \A ch \in Channel : reader[ch] # "off"
    /\ run = "wait" /\ ~passthrough => \A ch \in Channel : reader[ch] = "done"
    /\ \A ch \in Channel : reader[ch] = "reading" => ch \in open

\* What there is before the command was started, and if it never is
Unstarted ==
    /\ run \in {"pipes", "start"} => proc[Cmd] = "unborn"
    /\ run \in {"drain", "wgWait", "wait"} => proc[Cmd] # "unborn"
    /\ proc[Cmd] = "unborn" =>
          /\ \A p \in Proc : proc[p] = "unborn"
          /\ \A ch \in Channel :
                held[ch] = {} /\ pipe[ch] = <<>> /\ written[ch] = <<>> /\ logged[ch] = <<>>

\* Nothing is lost between a pipe and the log.
Carried == \A ch \in Channel : written[ch] = logged[ch] \o pipe[ch]

\* A reader stops when there is nothing more to come.
ReadToTheEnd ==
    \A ch \in Channel \ broken :
        reader[ch] \in {"stopping", "done"} => pipe[ch] = <<>> /\ held[ch] = {}

\* With passthroughLogs runJob does not see the output.
PassedBy ==
    passthrough => \A ch \in Channel : pipe[ch] = <<>> /\ written[ch] = <<>> /\ logged[ch] = <<>>

Returned ==
    run = "returned" /\ proc[Cmd] # "unborn" =>
        /\ proc[Cmd] = "ended"
        /\ result = exit
        /\ ~passthrough => \A ch \in Channel : reader[ch] = "done"

IInv ==
    /\ TypeOK
    /\ Counted
    /\ InStep
    /\ Unstarted
    /\ Carried
    /\ ReadToTheEnd
    /\ PassedBy
    /\ Returned

-----------------------------------------------------------------------------
(* Types *)

LEMMA TypeInit == Init => TypeOK
<1> SUFFICES ASSUME Init
             PROVE  TypeOK
    OBVIOUS
<1>1. passthrough \in BOOLEAN
    BY Zenon, UnbufferedAssumption DEF Init
<1>. QED BY <1>1 DEF Init, TypeOK, Channel

\* wg needs Counted: a third reader never starts.
LEMMA TypeNext == TypeOK /\ Counted /\ [Next]_vars => TypeOK'
<1> SUFFICES ASSUME TypeOK, Counted, [Next]_vars
             PROVE  TypeOK'
    OBVIOUS
<1>b. passthrough' \in BOOLEAN
  <2>1. passthrough \in BOOLEAN
      BY Zenon DEF TypeOK
  <2>2. passthrough' = passthrough
      BY Zenon DEF Next, RunJob, Reader, Processes, vars, OpenPipes, PipeFails, Start,
         StartFails, StartReaderDrain, WgWait, CmdWait, ReadLine, EndOfFile, CloseReader,
         ReadFails, Write, Redirect, Fork, Exit
  <2>. QED BY Zenon, <2>1, <2>2
<1>. USE DEF TypeOK, readVars, kernelVars, Return
<1>1. CASE OpenPipes \/ PipeFails \/ StartFails \/ WgWait \/ CmdWait
    BY <1>1, <1>b DEF OpenPipes, PipeFails, StartFails, WgWait, CmdWait
<1>2. CASE Start
    BY <1>2, <1>b, CmdAssumption DEF Start
<1>3. ASSUME NEW ch \in Channel, StartReaderDrain(ch)
      PROVE  TypeOK'
  <2>1. wg + 1 \in 0..2
      BY <1>3 DEF StartReaderDrain, Counted, Busy, Channel
  <2>. QED BY <1>3, <1>b, <2>1 DEF StartReaderDrain
<1>4. ASSUME NEW ch \in Channel, EndOfFile(ch) \/ ReadFails(ch)
      PROVE  TypeOK'
    BY <1>4, <1>b DEF EndOfFile, ReadFails
<1>5. ASSUME NEW ch \in Channel, CloseReader(ch)
      PROVE  TypeOK'
  <2>1. wg - 1 \in 0..2
      BY <1>5 DEF CloseReader, Counted, Busy, Channel
  <2>. QED BY <1>5, <1>b, <2>1 DEF CloseReader
<1>6. ASSUME NEW ch \in Channel, ReadLine(ch)
      PROVE  TypeOK'
  <2>1. Head(pipe[ch]) \in Proc /\ Tail(pipe[ch]) \in Seq(Proc)
      BY <1>6 DEF ReadLine
  <2>2. Append(logged[ch], Head(pipe[ch])) \in Seq(Proc)
      BY <2>1
  <2>. QED BY <1>6, <1>b, <2>1, <2>2 DEF ReadLine
<1>7. ASSUME NEW p \in Proc, NEW ch \in Channel, Write(p, ch)
      PROVE  TypeOK'
  <2>1. Append(pipe[ch], p) \in Seq(Proc) /\ Append(written[ch], p) \in Seq(Proc)
      OBVIOUS
  <2>. QED BY <1>7, <1>b, <2>1 DEF Write
<1>8. ASSUME NEW p \in Proc, NEW ch \in Channel, Redirect(p, ch)
      PROVE  TypeOK'
    BY <1>8, <1>b DEF Redirect
<1>9. ASSUME NEW p \in Proc, NEW q \in Proc, Fork(p, q)
      PROVE  TypeOK'
    BY <1>9, <1>b DEF Fork
<1>10. ASSUME NEW p \in Proc, Exit(p)
       PROVE  TypeOK'
    BY <1>10, <1>b DEF Exit
<1>11. CASE UNCHANGED vars
    BY <1>11 DEF vars
<1>. QED BY <1>1, <1>2, <1>3, <1>4, <1>5, <1>6, <1>7, <1>8, <1>9, <1>10, <1>11
         DEF Next, RunJob, Reader, Processes

-----------------------------------------------------------------------------
(* The readers *)

LEMMA CountedNext == TypeOK /\ Counted /\ InStep /\ [Next]_vars => Counted'
<1> SUFFICES ASSUME TypeOK, Counted, InStep, [Next]_vars
             PROVE  Counted'
    OBVIOUS
<1>. USE DEF Counted, Busy, TypeOK, Channel
<1>1. ASSUME NEW ch \in Channel, StartReaderDrain(ch)
      PROVE  Counted'
    BY <1>1 DEF StartReaderDrain
<1>2. ASSUME NEW ch \in Channel, EndOfFile(ch) \/ ReadFails(ch)
      PROVE  Counted'
    BY <1>2 DEF EndOfFile, ReadFails
<1>3. ASSUME NEW ch \in Channel, CloseReader(ch)
      PROVE  Counted'
    BY <1>3 DEF CloseReader
<1>4. CASE UNCHANGED <<reader, wg>>
    BY <1>4
<1>. QED BY <1>1, <1>2, <1>3, <1>4
         DEF Next, RunJob, Reader, Processes, vars, readVars, kernelVars, OpenPipes,
             PipeFails, Start, StartFails, WgWait, CmdWait, ReadLine, Write, Redirect,
             Fork, Exit

LEMMA InStepNext == TypeOK /\ Counted /\ InStep /\ [Next]_vars => InStep'
<1> SUFFICES ASSUME TypeOK, Counted, InStep, [Next]_vars
             PROVE  InStep'
    OBVIOUS
<1>. USE DEF InStep, TypeOK, Channel
<1>1. CASE OpenPipes
    BY <1>1 DEF OpenPipes
<1>2. CASE PipeFails \/ StartFails
    BY <1>2 DEF PipeFails, StartFails, Return, readVars
<1>3. CASE Start
    BY <1>3 DEF Start, readVars
<1>4. ASSUME NEW ch \in Channel, StartReaderDrain(ch)
      PROVE  InStep'
    BY <1>4 DEF StartReaderDrain
<1>5. CASE WgWait
    BY <1>5 DEF WgWait, readVars, Counted, Busy
<1>6. CASE CmdWait
    BY <1>6 DEF CmdWait, Return
<1>7. ASSUME NEW ch \in Channel, EndOfFile(ch) \/ ReadFails(ch) \/ CloseReader(ch)
      PROVE  InStep'
    BY <1>7 DEF EndOfFile, ReadFails, CloseReader
<1>8. CASE UNCHANGED <<passthrough, run, reader, open>>
    BY <1>8
<1>. QED BY <1>1, <1>2, <1>3, <1>4, <1>5, <1>6, <1>7, <1>8
         DEF Next, RunJob, Reader, Processes, vars, readVars, kernelVars,
             ReadLine, Write, Redirect, Fork, Exit

-----------------------------------------------------------------------------
(* The output *)

LEMMA UnstartedNext == TypeOK /\ InStep /\ Unstarted /\ [Next]_vars => Unstarted'
<1> SUFFICES ASSUME TypeOK, InStep, Unstarted, [Next]_vars
             PROVE  Unstarted'
    OBVIOUS
<1>. USE CmdAssumption DEF Unstarted, TypeOK
<1>1. CASE OpenPipes \/ PipeFails \/ StartFails \/ WgWait \/ CmdWait
    BY <1>1 DEF OpenPipes, PipeFails, StartFails, WgWait, CmdWait, Return, kernelVars, readVars
<1>2. CASE Start
    BY <1>2 DEF Start, readVars
<1>3. ASSUME NEW ch \in Channel,
             StartReaderDrain(ch) \/ EndOfFile(ch) \/ ReadFails(ch) \/ CloseReader(ch)
      PROVE  Unstarted'
    BY <1>3 DEF StartReaderDrain, EndOfFile, ReadFails, CloseReader, kernelVars
<1>4. ASSUME NEW ch \in Channel, ReadLine(ch)
      PROVE  Unstarted'
    BY <1>4 DEF ReadLine
<1>5. ASSUME NEW p \in Proc, NEW ch \in Channel, Write(p, ch) \/ Redirect(p, ch)
      PROVE  Unstarted'
    BY <1>5 DEF Write, Redirect
<1>6. ASSUME NEW p \in Proc, NEW q \in Proc, Fork(p, q)
      PROVE  Unstarted'
    BY <1>6 DEF Fork
<1>7. ASSUME NEW p \in Proc, Exit(p)
      PROVE  Unstarted'
    BY <1>7 DEF Exit
<1>8. CASE UNCHANGED vars
    BY <1>8 DEF vars, readVars, kernelVars
<1>. QED BY <1>1, <1>2, <1>3, <1>4, <1>5, <1>6, <1>7, <1>8
         DEF Next, RunJob, Reader, Processes

\* A chunk that is read moves from the head of the pipe to the end of the log.
LEMMA MoveHead ==
    ASSUME NEW S, NEW s \in Seq(S), NEW t \in Seq(S), t # <<>>
    PROVE  Append(s, Head(t)) \o Tail(t) = s \o t
<1>1. Head(t) \in S /\ Tail(t) \in Seq(S)
    BY HeadTailProperties
<1>2. Append(s, Head(t)) = s \o <<Head(t)>>
    BY <1>1, AppendIsConcat
<1>3. t = <<Head(t)>> \o Tail(t)
    BY <1>1
<1>. QED BY <1>1, <1>2, <1>3, ConcatAssociative

LEMMA CarriedNext == TypeOK /\ Carried /\ [Next]_vars => Carried'
<1> SUFFICES ASSUME TypeOK, Carried, [Next]_vars
             PROVE  Carried'
    OBVIOUS
<1>. USE DEF Carried, TypeOK
<1>1. ASSUME NEW ch \in Channel, ReadLine(ch)
      PROVE  Carried'
  <2>1. Append(logged[ch], Head(pipe[ch])) \o Tail(pipe[ch]) = logged[ch] \o pipe[ch]
      BY <1>1, MoveHead DEF ReadLine
  <2>. QED BY <1>1, <2>1 DEF ReadLine
<1>2. ASSUME NEW p \in Proc, NEW ch \in Channel, Write(p, ch)
      PROVE  Carried'
  <2>1. /\ logged[ch] \in Seq(Proc) /\ pipe[ch] \in Seq(Proc)
        /\ written[ch] \in Seq(Proc) /\ <<p>> \in Seq(Proc)
      OBVIOUS
  <2>2. pipe'[ch] = pipe[ch] \o <<p>> /\ written'[ch] = written[ch] \o <<p>>
      BY <1>2, <2>1, AppendIsConcat DEF Write
  <2>3. (logged[ch] \o pipe[ch]) \o <<p>> = logged[ch] \o (pipe[ch] \o <<p>>)
      BY <2>1, ConcatAssociative
  <2>4. written'[ch] = logged'[ch] \o pipe'[ch]
      BY <1>2, <2>2, <2>3 DEF Write, readVars
  <2>. QED BY <1>2, <2>4 DEF Write, readVars
<1>3. CASE UNCHANGED <<pipe, written, logged>>
    BY <1>3
<1>. QED BY <1>1, <1>2, <1>3
         DEF Next, RunJob, Reader, Processes, vars, readVars, kernelVars, OpenPipes,
             PipeFails, Start, StartFails, StartReaderDrain, WgWait, CmdWait, EndOfFile,
             ReadFails, CloseReader, Redirect, Fork, Exit

\* InStep: only a reader whose pipe was closed could stop too early, and none
\* is closed while its reader reads.
LEMMA ReadToTheEndNext ==
    TypeOK /\ InStep /\ ReadToTheEnd /\ [Next]_vars => ReadToTheEnd'
<1> SUFFICES ASSUME TypeOK, InStep, ReadToTheEnd, [Next]_vars
             PROVE  ReadToTheEnd'
    OBVIOUS
<1>. USE DEF ReadToTheEnd, TypeOK
<1>1. CASE Start
    BY <1>1 DEF Start, InStep, readVars
<1>2. ASSUME NEW ch \in Channel, StartReaderDrain(ch)
      PROVE  ReadToTheEnd'
    BY <1>2 DEF StartReaderDrain, kernelVars
<1>3. ASSUME NEW ch \in Channel, ReadLine(ch)
      PROVE  ReadToTheEnd'
    BY <1>3 DEF ReadLine
<1>4. ASSUME NEW ch \in Channel, EndOfFile(ch)
      PROVE  ReadToTheEnd'
    BY <1>4 DEF EndOfFile, InStep, kernelVars
<1>5. ASSUME NEW ch \in Channel, ReadFails(ch)
      PROVE  ReadToTheEnd'
    BY <1>5 DEF ReadFails, kernelVars
<1>6. ASSUME NEW ch \in Channel, CloseReader(ch)
      PROVE  ReadToTheEnd'
    BY <1>6 DEF CloseReader, kernelVars
<1>7. ASSUME NEW p \in Proc, NEW ch \in Channel, Write(p, ch) \/ Redirect(p, ch)
      PROVE  ReadToTheEnd'
    BY <1>7 DEF Write, Redirect, readVars
<1>8. ASSUME NEW p \in Proc, NEW q \in Proc, Fork(p, q)
      PROVE  ReadToTheEnd'
    BY <1>8 DEF Fork, readVars
<1>9. ASSUME NEW p \in Proc, Exit(p)
      PROVE  ReadToTheEnd'
    BY <1>9 DEF Exit, readVars
<1>10. CASE UNCHANGED <<reader, broken, pipe, held>>
    BY <1>10
<1>. QED BY <1>1, <1>2, <1>3, <1>4, <1>5, <1>6, <1>7, <1>8, <1>9, <1>10
         DEF Next, RunJob, Reader, Processes, vars, readVars, kernelVars, OpenPipes,
             PipeFails, StartFails, WgWait, CmdWait

LEMMA PassedByNext == TypeOK /\ InStep /\ PassedBy /\ [Next]_vars => PassedBy'
<1> SUFFICES ASSUME TypeOK, InStep, PassedBy, [Next]_vars, passthrough'
             PROVE  PassedBy'
    BY Zenon DEF PassedBy
<1>1. passthrough
    BY Zenon DEF Next, RunJob, Reader, Processes, vars, OpenPipes, PipeFails, Start,
       StartFails, StartReaderDrain, WgWait, CmdWait, ReadLine, EndOfFile, CloseReader,
       ReadFails, Write, Redirect, Fork, Exit
<1>2. \A ch \in Channel : ~ReadLine(ch) /\ \A p \in Proc : ~Write(p, ch)
    BY <1>1 DEF InStep, ReadLine, Write
<1>3. UNCHANGED <<pipe, written, logged>>
    BY <1>2 DEF Next, RunJob, Reader, Processes, vars, readVars, kernelVars, OpenPipes,
       PipeFails, Start, StartFails, StartReaderDrain, WgWait, CmdWait, EndOfFile,
       ReadFails, CloseReader, Redirect, Fork, Exit
<1>. QED BY <1>1, <1>3 DEF PassedBy

LEMMA ReturnedNext ==
    TypeOK /\ InStep /\ Unstarted /\ Returned /\ [Next]_vars => Returned'
<1> SUFFICES ASSUME TypeOK, InStep, Unstarted, Returned, [Next]_vars
             PROVE  Returned'
    OBVIOUS
<1>. USE CmdAssumption DEF Returned, TypeOK
<1>1. CASE OpenPipes \/ Start \/ WgWait
    BY <1>1 DEF OpenPipes, Start, WgWait
<1>2. CASE PipeFails \/ StartFails
    BY <1>2 DEF PipeFails, StartFails, Unstarted, Return, kernelVars
<1>3. CASE CmdWait
    BY <1>3 DEF CmdWait, InStep, Return, kernelVars
<1>4. ASSUME NEW ch \in Channel, StartReaderDrain(ch)
      PROVE  Returned'
    BY <1>4 DEF StartReaderDrain
<1>5. ASSUME NEW ch \in Channel, EndOfFile(ch) \/ ReadFails(ch) \/ CloseReader(ch)
      PROVE  Returned'
    BY <1>5 DEF EndOfFile, ReadFails, CloseReader, kernelVars
<1>6. ASSUME NEW p \in Proc, NEW q \in Proc, Fork(p, q)
      PROVE  Returned'
    BY <1>6 DEF Fork, Unstarted, readVars
<1>7. ASSUME NEW p \in Proc, Exit(p)
      PROVE  Returned'
    BY <1>7 DEF Exit, readVars
<1>8. CASE UNCHANGED <<passthrough, run, reader, proc, exit, result>>
    BY <1>8
<1>. QED BY <1>1, <1>2, <1>3, <1>4, <1>5, <1>6, <1>7, <1>8
         DEF Next, RunJob, Reader, Processes, vars, readVars, kernelVars,
             ReadLine, Write, Redirect

-----------------------------------------------------------------------------
(* Theorems *)

LEMMA InvInit == Init => IInv
<1> SUFFICES ASSUME Init
             PROVE  IInv
    OBVIOUS
<1>1. TypeOK
    BY TypeInit
<1>2. Carried
    BY DEF Init, Carried, Channel
<1>. QED BY <1>1, <1>2, CmdAssumption
         DEF Init, IInv, Counted, Busy, InStep, Unstarted, ReadToTheEnd, PassedBy, Returned, Channel

\* The inductive invariant of a call of runJob: how many readers there are, how
\* far they are at each of its steps, and that nothing gets lost on its way from
\* a pipe into the log (cron.go:25-123).
THEOREM Invariant == Spec => []IInv
<1>1. IInv /\ [Next]_vars => IInv'
    BY TypeNext, CountedNext, InStepNext, UnstartedNext, CarriedNext, ReadToTheEndNext,
       PassedByNext, ReturnedNext DEF IInv
<1>. QED BY <1>1, InvInit, PTL DEF Spec

\* Every variable of a call of runJob keeps its type; the counter of its wait
\* group, between 0 and 2, too.
THEOREM TypeCorrect == Spec => []TypeOK
<1>1. IInv => TypeOK
    BY DEF IInv
<1>. QED BY <1>1, Invariant, PTL

\* When runJob returns, the log has all that the job's processes wrote, in their
\* order (cron.go:114-116), for any number of processes and any size of a pipe.
THEOREM AllOutputLogged == Spec => []OutputLogged
<1>1. IInv => OutputLogged
  <2> SUFFICES ASSUME IInv, run = "returned", NEW ch \in Channel \ broken
               PROVE  logged[ch] = written[ch]
      BY DEF OutputLogged
  <2>. USE DEF IInv
  <2>1. pipe[ch] = <<>>
      BY DEF Unstarted, PassedBy, Returned, ReadToTheEnd
  <2>2. logged[ch] \in Seq(Proc)
      BY DEF TypeOK
  <2>. QED BY <2>1, <2>2, ConcatEmptySeq DEF Carried
<1>. QED BY <1>1, Invariant, PTL

\* runJob returns the command's result after the command, and after whatever
\* the command left behind with a pipe open (cron.go:114-122).
THEOREM ReturnsLast == Spec => []ReturnsAfterTheJob
<1>1. IInv => ReturnsAfterTheJob
    BY DEF IInv, ReturnsAfterTheJob, Started, Unstarted, Returned, ReadToTheEnd
<1>. QED BY <1>1, Invariant, PTL

=============================================================================
