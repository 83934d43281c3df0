------------------------------- MODULE JobRun -------------------------------
(***************************************************************************)
(* One call of runJob of cron.go: it starts the job's command, copies what *)
(* the command's processes write to the log, and returns the command's     *)
(* result.  Each pipe is read by a goroutine of its own (startReaderDrain) *)
(* and runJob waits for both, then for the command.                        *)
(*                                                                         *)
(* The processes and the pipes belong to the kernel.  A process inherits   *)
(* its parent's pipe ends, so a background process may keep them open when *)
(* the command has ended.  What one ReadLine returns, a line or a part of  *)
(* a line longer than the buffer, is one chunk: the process that wrote it. *)
(***************************************************************************)
EXTENDS Integers, Sequences

CONSTANTS
    Proc,           \* the processes of the job
    Cmd,            \* the shell that runJob starts
    PipeSize,       \* how many chunks a pipe holds
    MaxWrites,      \* bound on the chunks written to one channel
    Unbuffered      \* the runs with passthroughLogs that are explored

ASSUME CmdAssumption == Cmd \in Proc
ASSUME PipeAssumption == PipeSize \in Nat \ {0} /\ MaxWrites \in Nat
ASSUME UnbufferedAssumption == Unbuffered \subseteq BOOLEAN

VARIABLES
    passthrough,    \* passthroughLogs
    run,            \* where runJob is
    reader,         \* where the goroutine of each channel is
    wg,             \* the counter of the wait group
    open,           \* the channels whose read end is open
    pipe,           \* what each pipe holds
    held,           \* the processes that have the write end of each channel
    proc,           \* the state of each process
    exit,           \* how the command ended
    result,         \* what runJob returned
    written,        \* history: all that was written to each channel
    logged,         \* what readerLogger.Info got from each channel
    broken          \* history: the channels with a read that failed

kernelVars == <<pipe, held, proc, exit, written>>
readVars   == <<reader, wg, open, logged, broken>>
vars == <<passthrough, run, result, readVars, kernelVars>>

Channel == {"stdout", "stderr"}

TypeOK ==
    /\ passthrough \in BOOLEAN
    /\ run \in {"pipes", "start", "drain", "wgWait", "wait", "returned"}
    /\ reader \in [Channel -> {"off", "reading", "stopping", "done"}]
    /\ wg \in 0..2
    /\ open \subseteq Channel
    /\ pipe \in [Channel -> Seq(Proc)]
    /\ held \in [Channel -> SUBSET Proc]
    /\ proc \in [Proc -> {"unborn", "running", "ended"}]
    /\ exit \in {"none", "ok", "failed"}
    /\ result \in {"none", "ok", "failed"}
    /\ written \in [Channel -> Seq(Proc)]
    /\ logged \in [Channel -> Seq(Proc)]
    /\ broken \subseteq Channel

Init ==
    /\ passthrough \in Unbuffered
    /\ run = "pipes"
    /\ reader = [ch \in Channel |-> "off"]
    /\ wg = 0
    /\ open = {}
    /\ pipe = [ch \in Channel |-> <<>>]
    /\ held = [ch \in Channel |-> {}]
    /\ proc = [p \in Proc |-> "unborn"]
    /\ exit = "none"
    /\ result = "none"
    /\ written = [ch \in Channel |-> <<>>]
    /\ logged = [ch \in Channel |-> <<>>]
    /\ broken = {}

Return(r) == run' = "returned" /\ result' = r

-----------------------------------------------------------------------------
(* runJob *)

OpenPipes ==
    /\ run = "pipes"
    /\ run' = "start"
    /\ open' = IF passthrough THEN {} ELSE Channel
    /\ UNCHANGED <<passthrough, result, reader, wg, logged, broken, kernelVars>>

\* StdoutPipe or StderrPipe fails: nothing was started.
PipeFails ==
    /\ run = "pipes"
    /\ ~passthrough
    /\ Return("failed")
    /\ UNCHANGED <<passthrough, readVars, kernelVars>>

\* The command gets the write ends, or supercronic's own output.
Start ==
    /\ run = "start"
    /\ run' = IF passthrough THEN "wgWait" ELSE "drain"
    /\ proc' = [proc EXCEPT ![Cmd] = "running"]
    /\ held' = [ch \in Channel |-> {Cmd}]
    /\ UNCHANGED <<passthrough, result, readVars, pipe, exit, written>>

\* cmd.Start closes the pipes when it fails.
StartFails ==
    /\ run = "start"
    /\ Return("failed")
    /\ open' = {}
    /\ UNCHANGED <<passthrough, reader, wg, logged, broken, kernelVars>>

\* A reader that starts only when the first one has read everything.
DrainInTurn(ch) ==
    /\ run = "drain"
    /\ reader[ch] = "off"
    /\ ch = "stderr" => reader["stdout"] = "done"
    /\ reader' = [reader EXCEPT ![ch] = "reading"]
    /\ wg' = wg + 1
    /\ run' = IF ch = "stderr" THEN "wgWait" ELSE run
    /\ UNCHANGED <<passthrough, result, open, logged, broken, kernelVars>>

StartReaderDrain(ch) ==
    /\ run = "drain"
    /\ reader[ch] = "off"
    /\ ch = "stderr" => reader["stdout"] # "off"
    /\ reader' = [reader EXCEPT ![ch] = "reading"]
    /\ wg' = wg + 1
    /\ run' = IF ch = "stderr" THEN "wgWait" ELSE run
    /\ UNCHANGED <<passthrough, result, open, logged, broken, kernelVars>>

\* The order that the documentation of StdoutPipe warns of.
WaitAtOnce ==
    /\ run = "wgWait"
    /\ run' = "wait"
    /\ UNCHANGED <<passthrough, result, readVars, kernelVars>>

WgWait ==
    /\ run = "wgWait"
    /\ wg = 0
    /\ run' = "wait"
    /\ UNCHANGED <<passthrough, result, readVars, kernelVars>>

\* cmd.Wait reaps the command, then closes the read ends.
CmdWait ==
    /\ run = "wait"
    /\ proc[Cmd] = "ended"
    /\ open' = {}
    /\ Return(exit)
    /\ UNCHANGED <<passthrough, reader, wg, logged, broken, kernelVars>>

-----------------------------------------------------------------------------
(* startReaderDrain: the goroutine *)

ReadLine(ch) ==
    /\ reader[ch] = "reading"
    /\ ch \in open
    /\ pipe[ch] # <<>>
    /\ logged' = [logged EXCEPT ![ch] = Append(@, Head(pipe[ch]))]
    /\ pipe' = [pipe EXCEPT ![ch] = Tail(@)]
    /\ UNCHANGED <<passthrough, run, result, reader, wg, open, broken,
                   held, proc, exit, written>>

\* A reader that takes an empty pipe for the end of the output.
StopWhenEmpty(ch) ==
    /\ reader[ch] = "reading"
    /\ ch \notin open \/ pipe[ch] = <<>>
    /\ reader' = [reader EXCEPT ![ch] = "stopping"]
    /\ UNCHANGED <<passthrough, run, result, wg, open, logged, broken, kernelVars>>

\* io.EOF, or os.ErrClosed when cmd.Wait was faster.
EndOfFile(ch) ==
    /\ reader[ch] = "reading"
    /\ ch \notin open \/ (pipe[ch] = <<>> /\ held[ch] = {})
    /\ reader' = [reader EXCEPT ![ch] = "stopping"]
    /\ UNCHANGED <<passthrough, run, result, wg, open, logged, broken, kernelVars>>

\* Any other error is logged and ends the reader as well.
ReadFails(ch) ==
    /\ reader[ch] = "reading"
    /\ ch \in open
    /\ reader' = [reader EXCEPT ![ch] = "stopping"]
    /\ broken' = broken \cup {ch}
    /\ UNCHANGED <<passthrough, run, result, wg, open, logged, kernelVars>>

\* A reader that returns without the deferred call.
LeaveWithoutDone(ch) ==
    /\ reader[ch] = "stopping"
    /\ reader' = [reader EXCEPT ![ch] = "done"]
    /\ open' = open \ {ch}
    /\ UNCHANGED <<passthrough, run, result, wg, logged, broken, kernelVars>>

\* The deferred reader.Close and wg.Done
CloseReader(ch) ==
    /\ reader[ch] = "stopping"
    /\ reader' = [reader EXCEPT ![ch] = "done"]
    /\ open' = open \ {ch}
    /\ wg' = wg - 1
    /\ UNCHANGED <<passthrough, run, result, logged, broken, kernelVars>>

-----------------------------------------------------------------------------
(* The job's processes *)

\* Room in the pipe; with passthroughLogs the output passes runJob by.
Write(p, ch) ==
    /\ p \in held[ch]
    /\ ch \in open
    /\ Len(pipe[ch]) < PipeSize
    /\ Len(written[ch]) < MaxWrites
    /\ pipe' = [pipe EXCEPT ![ch] = Append(@, p)]
    /\ written' = [written EXCEPT ![ch] = Append(@, p)]
    /\ UNCHANGED <<passthrough, run, result, readVars, held, proc, exit>>

Fork(p, q) ==
    /\ proc[p] = "running"
    /\ proc[q] = "unborn"
    /\ proc' = [proc EXCEPT ![q] = "running"]
    /\ held' = [ch \in Channel |->
                   IF p \in held[ch] THEN held[ch] \cup {q} ELSE held[ch]]
    /\ UNCHANGED <<passthrough, run, result, readVars, pipe, exit, written>>

\* The process redirects its output elsewhere.
Redirect(p, ch) ==
    /\ p \in held[ch]
    /\ held' = [held EXCEPT ![ch] = @ \ {p}]
    /\ UNCHANGED <<passthrough, run, result, readVars, pipe, proc, exit, written>>

\* With status 0, or with another one or by a signal: SIGPIPE, for one.
Exit(p) ==
    /\ proc[p] = "running"
    /\ proc' = [proc EXCEPT ![p] = "ended"]
    /\ held' = [ch \in Channel |-> held[ch] \ {p}]
    /\ IF p = Cmd THEN exit' \in {"ok", "failed"} ELSE UNCHANGED exit
    /\ UNCHANGED <<passthrough, run, result, readVars, pipe, written>>

-----------------------------------------------------------------------------

RunJob ==
    \/ OpenPipes \/ PipeFails \/ Start \/ StartFails
    \/ \E ch \in Channel : StartReaderDrain(ch)
    \/ WgWait \/ CmdWait

Reader(ch) == ReadLine(ch) \/ EndOfFile(ch) \/ CloseReader(ch)

Processes ==
    \/ \E p \in Proc, ch \in Channel : Write(p, ch) \/ Redirect(p, ch)
    \/ \E p, q \in Proc : Fork(p, q)
    \/ \E p \in Proc : Exit(p)

Next ==
    \/ RunJob
    \/ \E ch \in Channel : Reader(ch) \/ ReadFails(ch)
    \/ Processes

Spec == Init /\ [][Next]_vars

\* Go runs every goroutine that is ready.  Nothing is assumed of the processes,
\* and no read need ever fail.
Fairness == WF_vars(RunJob) /\ \A ch \in Channel : WF_vars(Reader(ch))

FairSpec == Spec /\ Fairness

-----------------------------------------------------------------------------
(* Correctness *)

Started == \E p \in Proc : proc[p] # "unborn"

\* Nothing that the job's processes wrote is missing from the log when runJob
\* returns, in the order in which they wrote it: the readers are joined before
\* cmd.Wait closes the pipes (cron.go:114-116).
OutputLogged ==
    run = "returned" =>
        \A ch \in Channel \ broken : logged[ch] = written[ch]

\* runJob returns the command's own result, and not before the command has
\* ended; without passthroughLogs and read errors it also outlives whatever the
\* command left in the background with a pipe open, so that a run that did not
\* overlap another one does not share its log with leftovers of the last.
ReturnsAfterTheJob ==
    run = "returned" /\ Started =>
        /\ proc[Cmd] = "ended"
        /\ result = exit
        /\ ~passthrough => \A ch \in Channel \ broken : held[ch] = {}

\* A process that waits for room in a pipe gets it, whichever pipe it fills and
\* whatever happens to the other one, or the pipe is closed: the two readers
\* are goroutines of their own.
WritersGoOn ==
    \A ch \in Channel :
        (Len(pipe[ch]) = PipeSize)
            ~> (Len(pipe[ch]) < PipeSize \/ ch \notin open)

\* runJob returns once the command has ended and nobody holds a pipe (with
\* passthroughLogs: once the command has ended): the run's metrics, the job's
\* loop and a graceful shutdown all wait for this.
RunReturns ==
    (proc[Cmd] = "ended" /\ (passthrough \/ \A ch \in Channel : held[ch] = {}))
        ~> (run = "returned")

=============================================================================
