# A TLA+ model of supercronic

Supercronic runs the jobs of a crontab inside a container.  This directory
models it in TLA+: the scheduler, the main goroutine with its signals and
reloads, the goroutine that watches the crontab file, the process that reaps
the container's zombies, and the composition of the first three; the run of one
command with its output; and the way from the text of a crontab to the instants at
which its jobs are due.  TLC checks the models on small instances; TLAPS proves the most important properties for every
instance.  Line numbers below are those of the repository.

## 1. The system

| Component | State | Operations | Talks to |
|---|---|---|---|
| Scheduler, `cron/cron.go` | per job: a loop goroutine with `nextRun` and `jobWg`; per run: a goroutine or a call, a monitor goroutine with `t` and a context | `StartJob`, the loop of `startFunc`, `runThisJob`, `runJob`, `monitorJob` | the caller through `wg` and `exitCtx`; the expression through `Next`; the metric series |
| Main goroutine, `main.go:177-277` | the crontab in use, `exitCtx`, `wg`, `termSig` | read the crontab, start its jobs, receive a signal, `notifyExit`, `wg.Wait`, start over or exit | `termChan` (one signal), scheduler, metrics, Prometheus server |
| Watcher, `main.go:131-147, 195-228` | the inotify watch, queued events | take an event, put the watch back, send a reload signal | `termChan`; the kernel through fsnotify |
| Metrics, `prometheus_metrics/` | six series per job; the HTTP server | increments from `cron.go`, `Reset`, serve, shut down | scheduler, main |
| Expression, `cronexpr/` | lists of a parsed expression; `actualDaysOfMonthList`, rewritten by `Next` | `Parse`, `Next`, `NextN` | scheduler and monitor, from several goroutines |
| Crontab parser, `crontab/` | none | `ParseCrontab`, `parseJobLine` | main; expression parser |
| Command runner, `runJob` | a process, two pipe readers | start, drain, wait | scheduler |
| Reaper, `reaper.go` | a child, two signal channels, a notification channel | fork, forward signals, reap, exit with the child's status | supercronic as a child process; the kernel |
| Log hook, `cronexpr` CLI | none | | |

What is hard here, and hardly reached by a test:

- a `select` whose exit and timer cases are ready at once, runs in goroutines of
  their own (`-overlapping`) or in the loop's call, and the order of deferred calls
  that lets `wg.Wait` mean "every command has ended";
- instants that pass while a job runs: missed, made up for, or run twice by the
  loops of two crontabs;
- a signal channel of capacity one that `signal.Notify` never blocks on, a file that
  changes while it is read, a watch that dies with the file it is on;
- a monitor goroutine that nobody waits for, series reset while goroutines are about;
- SIGCHLDs that merge, get dropped, or come before anyone listens;
- an expression with no further instant, or with days that most months do not have;
- a list of days that two goroutines write and read without a lock; clocks that are set
  forward and back;
- a grammar with seven kinds of entries per field, four lengths of a schedule, and a
  command right behind it;
- pipes that fill up, and background processes that keep them open.

`PROJECT.json` lists these hazards with their lines and the properties that cover them.

For each component, what makes it correct:

- **Scheduler** - never two runs of a job at once without `-overlapping`; never an
  instant before its time, twice, out of order, or made up for after a run that was
  too long; on a fast machine none missed; what is announced is run; `wg.Wait` returns
  only when all runs have ended, and does return after `notifyExit`; the series add up
  at every scrape; a missed deadline is an instant that came during a run.
- **Main and watcher** - no reload request and no edit is lost; jobs of two crontabs
  never mix; an accepted stop ends the process with status 0 and no command running.
- **Reaper** - ends with supercronic's status, leaves no zombie, forwards signals.
- **Command runner** - all output is in the log when a run ends; a run ends after its
  command and nobody waits for ever.
- **Expression and parsers** - `Next` is the earliest later match of the documented
  grammar, and comes to an end; the lists of an expression are those of that grammar; a
  crontab line loses no word, a setting holds for the whole file.

## 2. Modules

| Module | What it is |
|---|---|
| `CronService` | what the scheduler promises: serve, start, end, stop serving - no goroutines |
| `Cron` | `cron/cron.go`, one action per atomic section of a goroutine |
| `CronProofs` | its inductive invariant and theorems, its series among them |
| `CronPrompt` | `Cron` on a fast machine, with history variables for the missed deadlines |
| `CronPromptProofs` | what is proved of a fast machine: no instant missed, the missed deadlines |
| `Main` | the main goroutine, the watcher, the Prometheus server, signals and edits |
| `MainProofs` | its inductive invariant and theorems |
| `Supercronic` | Main over Cron: joint steps for reload, job start and exit |
| `SupercronicProofs` | that it implements both, and what follows from the two together |
| `Reaper` | `reaper.go` with the container's processes and signals |
| `ReaperProofs` | its inductive invariant and theorems |
| `JobRun` | `runJob` of `cron/cron.go`: the command, its two pipes and their readers |
| `JobRunProofs` | its inductive invariant and theorems |
| `Cronexpr` | the parser of schedules, `cronexpr_parse.go`, as operators |
| `Crontab` | `ParseCrontab`, line by line, over `Cronexpr` |
| `CrontabProofs` | its theorems, with lemmas about the operators of `Cronexpr` |
| `Calendar` | what `cronexpr` uses of Go's package `time`: dates, weekdays, a zone |
| `CronexprNext` | `Next` and `NextN`, with the goroutines that share an expression |
| `CronexprNextProofs` | lemmas about the calendar and the lists of days, its inductive invariant and theorems |
| `MCCron`, `MCCronPrompt`, `MCMain`, `MCSupercronic`, `MCReaper`, `MCJobRun`, `MCCrontab`, `MCCronexprNext` | instances for TLC |

Operators that stand directly before a definition and are named after it with a twist
(`NextMatchInclusive`, `DrainWithoutWait`, ...) are *mutants*: plausible bugs of that
definition.  Nothing uses them; `PROJECT.json` says which property each one breaks.

### Cron

`loop[j]` is where the goroutine of `startFunc` is:

| `loop` | code | actions out of it |
|---|---|---|
| `new` | 158-165 | `ReadClock` (`nextRun := time.Now()`) |
| `next` | 169-180 | `TooLate` (`delay < 0`: `nextRun = now`, `continue`), `Arm` |
| `select` | 182-188 | `SelectExit`, `SelectTimer` (jobWg.Add, then `go` or a call) |
| `call` | 209 | the loop is inside `runThisJob` (without `-overlapping`) |
| `drain` | 185, 159-162 | `Drain`: the deferred `jobWg.Wait`, then `wg.Done` |
| `off`, `done` | | not started; ended |

`run[j][s]` is where the run that was scheduled for instant `s` is: `begin` (190, before
227), `exec` (in `runJob`), `ok`/`err` (247), `counted` (252, 256), `observed` (after the
deferred calls of 230-243), `ended` (after 197).  `watching` and `deadline` are the
monitor goroutines and their `t`; `metrics` the Prometheus series; `last` and `freed` are
history variables that only `CronService` and `NothingMissed` look at.

Abstractions.  Time is a clock of integer instants that only goes forward, at any
speed relative to the goroutines; a tick is not a second, so what happens within a
second is covered by a schedule with gaps.  `Schedule` gives the instants that an
expression matches, and `NextMatch` what `Next` is documented to answer
(cronexpr.go:166-173).  The clock is read (173) and compared (176) in one step with `Next`
(170).  A command is a step that succeeds or fails, and takes any time.  The deferred
calls of a run (`ObserveDuration`, `cancelMonitor`, `Dec`) are one step.

### CronPrompt

`Cron` with a clock that waits for the goroutines (`Settled`), and two history variables that no
step reads: `until[j][s]` is the latest instant the clock came to while the run for `s` was on, that
is from its call of `runThisJob` to the cancellation of its monitor, and `reset` is when the series
were last reset.  `DeadlinesAreMissed` compares the counter with the pairs of a run and a later instant that
came while that run was on (`CameDuring`).  It leaves two things open, as the code does: in the
instant in which a run ends, and in that of a reset, `monitorJob` may find its timer
and its cancellation ready at once and take either (cron.go:131-143).  So the counter is at most
the number of those pairs, and at least the number of those that the clock went beyond with the run
still on (`PassedDuring`).  A slow machine would leave more open: a timer that is late is read late.

### Main

`main` is `read` (231-239), `start` (250-258, and 260 once `toStart` is empty), `join`
(270), `return` (272-277 with the deferred calls) or `exited`.  `termChan` is the buffer:
`Kill` drops a signal that finds it full, as `signal.Notify` does, and `SendReload` waits.
SIGINT, SIGTERM and SIGQUIT are treated alike by the code and are one signal, `TERM`.
`watch` says what the inotify watch is on: the file the path leads to (`current`), one
that was replaced but not removed (`old`), or nothing since that file was removed (`gone`,
which queues `chmod` and `remove`, README.md:237-238).  A job is only live or not; `LoopExits`
is `Cron!Drain`.  The reading of a file is atomic, and a file is valid with some set of
jobs, broken, or absent.

The kernel, fsnotify, `os/signal` and `net/http` are not in this repository: they
are modelled from how the code uses them.

### Supercronic

Conjoins the steps of both: `ReadCrontab` is `Main!ReadCrontab` with `Cron!Reload`
(the metrics reset and the new exit context), `StartJob` and `RecvSignal` likewise.
`Main`'s `live` is the set of `Cron`'s live loops.  When the process has exited, no
goroutine moves.

### Reaper

The three goroutines of pid 1 (`reaper`, `forwarder`, `handler`), the two signal buffers
(`termChan` of 1, `sigs` of 3), `notifications` of 1, and each process below
pid 1: unborn, running, zombie, gone.  A SIGCHLD is heard only after
`RegisterHandler`.  A terminating signal before `signalToFork` ends pid 1 with status 2, the
default of the Go runtime.

### JobRun

`run` is where `runJob` is: `pipes` (81-98), `start` (100), `drain` (104-114), `wgWait`
(116), `wait` (118), `returned`.  `reader[ch]` is the goroutine of `startReaderDrain`: `off`,
`reading` (38-62), `stopping` (the deferred call, 29-34), `done`.  The kernel's part is
`pipe` (what was written and not yet read), `held` (the processes that have the write
end; a forked process inherits it) and `open` (the read ends that are open).  Processes write,
fork, redirect and end when they like; a command that ends with an error is a command
that ends.  A chunk is what one `ReadLine` returns, and it is identified by who wrote it.
`Cron`'s `RunJob` is one call of this.

### Cronexpr and Crontab

A schedule is a sequence of words, a word an alias or a list of entries, an entry one of the
layouts of `cronexpr_parse.go:183-194` with its numbers and how they are spelt (with a leading
zero, as a name).  The regular expressions are modelled by what they match, letter case
and `?` for `*` not at all; so is an alias inside a longer word.  The parsed lists are sets:
they are sorted and have no value twice.  `Directive` is `genericFieldParse`, `GenericField`,
`DomField` and `DowField` are the handlers with their early returns, `Parse` is `parse`.

`Crontab` reads one line per step; each kind of line is an action, and so is each way to
fail: a line that no schedule length fits, an unknown zone, an empty value (line 88 indexes
it), a scanner that gives up.  Its properties compare the result with `read`, the lines so far:
`ReadAsDocumented` with a grammar that is written from `cronexpr/README.md` and knows nothing
of directives - the values of every field, the days marked with `L`, `LW`, `W` and `#`
(`MarksAsDocumented`), and no other form, number or week (`Outside`) - `CommandKept` and `ContextOfTheFile` with the lines by their places in the file.

### CronexprNext

An instant is a number of seconds; `Calendar` gives its reading on the wall clock of a zone that
changes its offset once, and `Date` does what `time.Date` does with readings that are
skipped or come twice.  `call[c]` is the call that a goroutine is in:

| `pc` | code | action |
|---|---|---|
| `next` | cronexpr.go:174-207 | `Enter` |
| `store` | the assignment in cronexpr.go:209, cronexpr_next.go:44, 77 | `StoreWord`, one for the array and one for the length |
| `empty` | 210 | `TestEmpty` |
| `search`, `pick` | 215-222 and cronexpr_next.go:106-119 | `Search`, `Pick` |
| `month`, `year` | cronexpr_next.go:36-43, 69-76 | `nextMonth`, `nextYear` |
| `first` | cronexpr_next.go:45-64, 78-98 | `First` |
| `done` | | the next call, by `LoopCalls`, `MonitorCalls` or `NextN` |
| `wild`, `panicked` | | the call used a length that does not go with the array, or an index beyond it |

Unsynchronized access to a slice is a data race: its words may be stored in either order and
read in between.  `disturbed` marks the calls that this may have misled; `NextIsEarliest` promises
nothing about them, and without that exception TLC finds wrong days, slices that are read beyond
their array, and index panics.  Within one use the search is a step, and the comparison
of the index with the length and the element are one step.  `NextIsEarliest` compares with
`IsDay` and `IsMatch`, which are written from the grammar of `cronexpr/README.md`.

## 3. Runs

| Run | Instance | Shows |
|---|---|---|
| `CronSequential` | 2 jobs with instants {2, 3, 9} and {3, 9}, clock to 4, no overlapping | `TypeOK`, `NoOverlap`, `StartedOnce`, and that Cron implements `CronService` |
| `CronOverlapping` | 1 job, {2, 3, 9}, clock to 3, overlapping, fair | `JoinedRuns`, `MetricsAddUp`, `CronService`, and the liveness properties `GracefulExit`, `AnnouncedRunStarts`, `MonitorsStop` |
| `CronPrompt` | 1 job, {2, 3, 4, 5, 9}, clock to 6, the clock waits for the goroutines | `NothingMissed`, `DeadlinesAreMissed` |
| `Main` | 2 crontabs over 2 jobs, inotify and Prometheus on, file versions up to 3, fair | `TypeOK`, `NoLostRequest`, `NoMissedEdit`, `OneGeneration`, `RequestsAreMet`, `EditsAreLoaded`, `AcceptedStopEnds` |
| `Supercronic` | 2 crontabs with one job each, instants {2, 9}, clock to 2, 2 file versions, inotify, fair | `ExitsWithoutRuns`, `ResetsCompleteSeries`, `StartsListedJobs`, `StopEnds`, and that the process is a behaviour of `Main` |
| `Reaper` | supercronic and 2 orphans, exit statuses 0, 1 and "killed", fair | `TypeOK`, `StatusKept`, `HeardIsReaped`, `ReloadForwarded`, `ZombiesAreReaped`, `StopEnds` |
| `JobRun` | a shell and a background process, pipes of one chunk, two chunks per channel, with and without passthrough, fair | `OutputLogged`, `ReturnsAfterTheJob`, `WritersGoOn`, `RunReturns` |
| `Crontab` | two lines out of some 6 000: each field with each layout at and beyond its bounds, 5 to 8 words, aliases, settings | `ReadAsDocumented`, `CommandKept`, `ContextOfTheFile` |
| `CronexprNext` | 46 schedules and zones, 3 calls per caller, starts at the ends of months and years and every 10 minutes around a change of the clocks | `NextIsEarliest`, `ClockChanges`, `SearchAdvances` |

Three runs show a disagreement between the code and what it says of itself; each checks the
one property that fails, and TLC prints the behaviour:

| Run | What happens |
|---|---|
| `CronExhausted` | `Next` answers the zero time (a year that is over, 30 February): the loop repeats its late branch (cron.go:176-180) for ever, never looks at `exitCtx`, and SIGTERM hangs in `wg.Wait` - against README.md:42 |
| `MainExit` | `Serve` returns `http.ErrServerClosed` after the shutdown, which prommetrics.go:166-167 takes for fatal: a graceful shutdown may end with status 1 |
| `ReaperRace` | supercronic ends before SIGCHLD is registered (reaper.go:39, 77, 112): pid 1 waits for ever |

The models show more of this kind, which the passing properties state with their
exceptions instead:

- During the last run of a schedule `Next` answers the zero time in `monitorJob` as
  well, which then warns and counts without pause (cron.go:129-139).  `DeadlinesAreMissed` is
  checked for schedules that have a further instant, and is false of the others.
- The monitor is cancelled, not joined: it may say "job is still running" (cron.go:138) of a
  run that has ended.  `MonitorsStop` says that it ends.
- A SIGTERM that finds a SIGUSR2 in the buffer is dropped (main.go:192, against README.md:42);
  `AcceptedStopEnds` speaks of the ones that got in.  So a supercronic to which the reaper forwards a
  SIGTERM need not end, and then neither does pid 1: the reaper's `StopEnds` asks for a supercronic that does.
- Near a change of the clocks `Next` may answer an instant that is not later than its argument
  (`ClockChanges` has the bounds).  With `30 2 * * *` in New York, on the day without 02:30,
  `Next` of 01:30 is 01:30: the loop recovers by starting over from the present time, a
  monitor counts until its run ends.
- `nextMonth` passes over a month without a day by calling itself with the first day of that
  month (cronexpr_next.go:78-87, 46-55).  A zone may skip that reading: `time.Date` is then an instant
  of the month before, and the same month is found again, until the stack overflows - against
  cronexpr.go:166-173.  `0 0 * 10 5#5` does so in Paraguay, where 1 October 2023 began at 01:00 and the month
  has no fifth Friday.  `MCCronexprNext` evaluates that `time.Date` (`SkippedMidnight`); with the
  schedule and the zone as a scene TLC finds `SearchAdvances` violated.
- `Next` of a call that was disturbed by another goroutine (cronexpr.go:209, see above).
- `05` as a weekday is Sunday, `0-7` is Sunday only, `1-7/2` is no day; a range with an
  interval may run backwards, and a field of nothing else is empty: `Next` then panics
  (cronexpr_next.go:50, 52).  `ReadAsDocumented` names these exceptions (`Odd`, `Backwards`), and
  `CronexprNext` takes only schedules without an empty field (`SceneAssumption`).
- After a `*` the fields of seconds, minutes, hours, months and years are not read on
  (cronexpr_parse.go:283): `*,99` is any hour, while `99,*` is an error, and so is `*,99` as a
  day.  `cronexpr/README.md` promises nothing of malformed fields; `ReadAsDocumented` says
  exactly where a number out of range can be.
- `15W` is taken in a list of days, although `cronexpr/README.md:49` allows it only alone; `ReadAsDocumented`
  says what each entry of such a list stands for.
- Only the last word of a long schedule need look like a year.  In `* 1 * * * 5 2020 cmd` the `5` is
  taken as a weekday, of a schedule with seconds (crontab.go:30-41); `CommandKept` promises no more.
- A setting without a value panics (crontab.go:88), `ContextOfTheFile` names it.

### Bounds

- `Horizon` stops the clock.  2 or 3 instants within it and one beyond (9) make
  the cases differ: an instant that is waited for, one that passes during a run, one
  that is due when a run ends, one that never comes.  `CronExhausted`
  leaves out the one beyond.
- `MaxDeadlines` bounds the counter of missed deadlines; with the schedules of the
  passing runs it is never reached.
- `MaxEdits` bounds the edits of the crontab file: three versions let an edit come during the
  reload caused by an earlier one.  Signals are not bounded: the buffer is.
- Two jobs suffice where jobs only meet in `wg`; one where the properties are per job.
- `JobRun`: `PipeSize = 1` makes a pipe fill up at once, two chunks make the order matter, and two
  processes give one that outlives the command.
- `Crontab`: the second line is a setting or a job, so that a setting comes before, after or
  instead of another; more lines repeat this.  Every field is varied alone, since the fields do
  not depend on each other.
- `CronexprNext`: `MaxCalls = 3` gives each caller a first call and two that start from an answer.
  The schedules end in 2026: instants fit into TLC's integers until 2038.
- No state constraint and no symmetry is used.  `CHECK_DEADLOCK FALSE` because the clock
  stops, and because processes exit.

### Fairness

Goroutines that can run do run (weak fairness of each goroutine's steps): the Go scheduler
promises that.  A `select` picks among ready cases at random, so a case that is ready again
and again is picked: strong fairness of `SelectExit` and `MonitorDone`.  A goroutine that
is blocked in a send is first in the channel's queue: strong fairness of `SendReload`.
Commands end, which nothing guarantees: `GracefulExit` and `StopEnds` of the whole process hold only under
this assumption, by design of the code (a graceful shutdown has no time limit).  Whoever
replaces the crontab file removes the old one (`RemoveOld`), which is what kubernetes
does; the reload depends on it.  Nothing is assumed of signals, edits, reloads,
the life of orphans, or the processes of a job.  In `Reaper` only the goroutines of pid 1 are fair;
its `StopEnds` carries what it needs of supercronic as a premise, that one which was sent a terminating
signal ends.  In `JobRun` only `runJob` and its readers are
fair, and a read need not fail.  `Crontab` and `CronexprNext` have no liveness properties;
that a search ends is the action property `SearchAdvances`, with finite lists of years and months.
`PromptSpec` is not a fairness condition but an assumption on
speed, for `NothingMissed` and `DeadlinesAreMissed` only.

## 4. Proofs

All are safety properties, for all values of the constants that satisfy the named assumptions:
of `Cron`, that schedules are sets of positive numbers and that the clock has some bound, which
may be any; of `Supercronic`, those of `Cron` and `Main`; of `Crontab`, that a place of the file
has lines (any set of them, so every crontab is covered); of `CronexprNext`, that the expressions are
such as the parser makes, without an empty field, and that everything lies between 1970 and 2099.

**CronProofs.**  `IInv` is `TypeOK` with four parts, none of which is inductive alone:
`Counted` (`wg` is the number of live loops, `jobWg[j]` that of the runs underway),
`Drained` (a loop that is off or done has no run underway, and only leaves after an
exit), `OneCall` (without overlapping the only run is the one the loop is calling),
`InOrder` (what was started is at or before `last`, which is at or before `nextRun`, and
neither is in the future).  `NoOverlap` needs `OneCall`; `JoinedRuns` needs
`Counted` and `Drained`; `StartedOnce` and the refinement need `InOrder`, since a run may
start only after `last` and not before `freed`.  `CronImplementsService` maps `serving` to
the live loops and `active` to the runs underway; most steps stutter, `SelectTimer` is
`Start`, `EndRun` is `End`, `Drain` is `Leave`.
The schedule is any set of positive numbers, infinite ones included: `EarliestIsFirst` uses
that the naturals are well-ordered.

`MetricsAddUp` is about cardinalities: how many runs are in some of the
states.  Every step of a run moves one of them, so that each count changes by one or not at
all (`CountChange`, `RunMoved`), which must match the increments of the step; a reset finds
no run that was counted in part (`CompleteWhenIdle`).  That the sets are finite comes from
`Counted`: a job with an infinite schedule has only finitely many runs underway.

**CronPromptProofs.**  `NothingMissed` is proved of `PromptSpec`, whose clock waits for goroutines that can
go on (`Settled`).  Its invariant `PInv` says of each job that it is `OnTime`: the clock is not beyond
the instant a loop waits for, and nothing that the loop still owes lies before that
(`NextMatchIsFirst`); a loop that is about to look for its next instant has just started a run
or got the job back, with the clock where it was then.  That a tick finds no loop there is what
makes it inductive.  `HistoriesOnly` says that `SpecPrompt` adds nothing to `PromptSpec` but its histories.

`DeadlinesAreMissed` needs `HInv`.  `Follows`: a run is called in the instant that it is for (`OnTime`
again), has its monitor from then until it is over, and the monitor waits for the first instant of the
schedule that has not come during the run.  `Bounded`: the counter lies between the pairs
that were certainly counted (`Sure`: the clock went beyond the instant, or the monitor of a run that is
still on is past it) and those that may have been (`Possible`: all that came, except those that a
monitor still waits for).  Each step moves at most one pair (`OneMoreAtMost`), which must match the increment
(`CountHolds`), and a tick finds all monitors past what came so far (`TickHolds`).
It is proved under `Lasting`, that every schedule has an instant beyond the bound of the clock:
with a schedule that runs out it is false, since the monitor then counts without pause (see
section 3).

**SupercronicProofs.**  `CronInside` and `MainInside` are refinements: the process, seen through
the variables of one component, makes only steps of that component or none.  The joint
steps are where this could fail: `Main` assumes of its environment that a live job only leaves
after `notifyExit`, and `Cron` that its caller resets the series only after `wg.Wait` and starts no job twice; each
finds in the other that it is so (`LoopsStayOrLeave`).  By them all that is proved
of `Cron` and `Main` holds of the process.  `ExitsWithoutRuns` adds `ExitInv`: with status 0 no
loop is live, hence by `Drained` no run is underway.  `ResetsCompleteSeries` and `StartsListedJobs` follow from both invariants.

**MainProofs.**  `NoLostRequest`, `NoMissedEdit` and `OneGeneration` are made inductive
by `Lagging` (nothing is read or requested that is not yet written), `AllStarted` and
`WatchComesBack` (a dead watch has a `remove` event coming, or the watcher is about to put the
watch back).  That the watch comes back before the reload signal is sent is what
`NoMissedEdit` rests on.

**ReaperProofs.**  `ChildAlive` (supercronic is reaped only in the step that ends pid 1)
makes `wait4` never fail with ECHILD, so the reaper never returns to wait for a
notification: `HeardIsReaped` follows; `StartedInOrder` gives `StatusKept` and `ReloadForwarded`.

**JobRunProofs.**  `Counted` (the wait group is the number of readers at work), `InStep` (how
far the readers are at each step of `runJob`; whoever reads has its pipe open), `Unstarted`,
`Carried` (what was written is what was logged and what is still in the pipe), `ReadToTheEnd` (a
reader that stopped left nothing behind), `PassedBy` and `Returned`.  `OutputLogged` needs them
all: that the pipe is empty (`ReadToTheEnd`) once the readers are done (`Returned`), which `wg` tells
(`Counted`).  Even `TypeOK` needs `Counted`, for the bounds of `wg`.

**CrontabProofs.**  The lemmas go up the parser: `Strides` and `SpanValues` (what the loop of
`populateMany` lists is what the grammar says), `EntryListed` (one entry),
`GenericAsListed`, `DomAsListed`, `DowAsListed` (one field, with its early returns), `NormalizeWord`
and `NormalWordsOf` (aliases), `Parsed` and `ScheduleAsDocumented` (one schedule, of
five, six or seven words; `MarksRead` for the marked days, where the weekday and the week are
found in one number, `WeekdayMeant`), `LineRead` (one job line) and then the steps of `ParseCrontab`.  `Typed` and
`Scheduled` are the invariant of `DocumentedLists`, `Kept` that of `CommandsKept`: it adds that the
jobs so far are those of *all* job lines so far, in order, which an error ends.
The aliases are expanded with `FlattenSeq`, a recursive function.  What it computes is found without an
induction principle: a least number at which the claim fails exists, since the naturals are
well-founded (`LeastNumber`), and there is none (`JoinsUnique`).
The proof made the property more exact: what it said at first of numbers out of range is false of
`*,99` (section 3).

**CronexprNextProofs.**  `SearchGoesForward` is what makes the recursion of `nextMonth` and
`nextYear` end.  Its invariant, `Inv`, says of every call that it is `Placed`: the month of the instant asked
for is not after the month that is searched, and where the call is about to look for a later
month, the candidate `t` lies in the month searched and not before it.  `t` is an instant; the month
searched is a reading of the clock.  So the proof needs the calendar: that months and years
follow each other without a gap (`Lengths`, `InMonths`, `MonthsInOrder`), that a day's number gives its date back
(`DateOfDay`, `IndexOfDay`), and that `time.Date` of a reading shows a reading of the same month
(`DateFits`).  The last is true only of zones that change no clock where a month
begins, which is the hypothesis `CalmScenes` of the theorems.  Section 3 shows that
it cannot be dropped (Paraguay); the zones of `MCCronexprNext` satisfy it
(`CalmAssumption`, which TLC evaluates in every run), and so does every zone that sets its clocks at
01:00 or later in the night, on whatever day.
The other half is the list of days: whoever stored its words, its days are days of *some* month and its
length is at most 31 (`DomDaysInMonth`, `DowDaysInMonth`, `ListType`), and the element at an index
below its size exists (`Elements`, `Ranked`), which is all that a call can rely on when others store in between.
`TypeCorrect` is this half by itself; no run of its own checks `TypeOK` of `CronexprNext`.

Only model-checked:

- everything about liveness and fairness (`ENABLED` is out of the prover's reach): `GracefulExit`,
  `AnnouncedRunStarts`, `MonitorsStop`, `RequestsAreMet`, `EditsAreLoaded`, `AcceptedStopEnds`, the two `StopEnds`,
  `ZombiesAreReaped`, `WritersGoOn`, `RunReturns`;
- `NextIsEarliest` and `ClockChanges` of `CronexprNext`.  They compare with the documented kinds of days, over
  every instant between the one asked for and the answer; the lemmas about the calendar and the
  lists are the part of such a proof that exists.

## 5. Not modelled, and the plan

Left out for good: flag parsing, logging and its hook, Sentry, HTTP routing, the cronexpr
command line (`NextN`, which it calls, is modelled), and the environment of a command.  The hook
`log/hook/splitstream.go` and the command line keep no state and interact with nothing.

Abstracted: the bytes of a crontab line; a crontab file that is read half written (it is `Broken` or
another valid one); a wall clock that is set, for which the code promises nothing; fsnotify
operations that combine two bits; a zone with more than one change of its offset.

Next, in this order:

1. That `JobRun` implements the one step `RunJob` of `Cron`, in a composition.
2. `Cron` with a `Next` that may answer an earlier instant, as `ClockChanges` bounds it: does the
   loop still start every run once?
3. Of `NextIsEarliest`, the part that speaks of single days as a lemma: that the directives of
   `DomDays` and `DowDays` list the days that `IsDomDay` and `IsDowDay` describe.
