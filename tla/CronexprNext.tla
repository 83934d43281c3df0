---------------------------- MODULE CronexprNext ----------------------------
(***************************************************************************)
(* Next and NextN of cronexpr.go with the functions of cronexpr_next.go.   *)
(*                                                                         *)
(* An Expression is parsed once and used by several goroutines: the loop   *)
(* of a job and the monitors of its runs call Next whenever they like.     *)
(* The list of the days of the month that is being searched is a field of  *)
(* the Expression, so they share it, without a lock.  The list is a slice: *)
(* its array, which is sorted and here a set, and its length are stored    *)
(* one after the other and read again for every use.  Everything else that *)
(* a call does is its own business and part of the step that follows the   *)
(* access.                                                                 *)
(***************************************************************************)
EXTENDS Integers, FiniteSets, FiniteSetsExt, Calendar

CONSTANTS
    Scene,          \* the situations explored: [expr, zone, starts, users]
    MaxCalls        \* bound on the calls of each caller

\* The days around the readings that a wall clock skips or shows twice
Touched(z) ==
    {(z.at + z.before - Jump(z)) \div 86400, (z.at + z.after + Jump(z)) \div 86400}

NonEmpty(S) == (SUBSET S) \ {{}}

\* An Expression as parse makes it, except that no field is empty
Expr ==
    [secondList : NonEmpty(0..59), minuteList : NonEmpty(0..59), hourList : NonEmpty(0..23),
     monthList : NonEmpty(1..12), yearList : NonEmpty(Years),
     dom : [bad : {FALSE}, daysOfMonth : SUBSET (1..31), workdaysOfMonth : SUBSET (1..31),
            lastDayOfMonth : BOOLEAN, lastWorkdayOfMonth : BOOLEAN,
            daysOfMonthRestricted : BOOLEAN],
     dow : [bad : {FALSE}, daysOfWeek : SUBSET (0..6), lastWeekDaysOfWeek : SUBSET (0..6),
            specificWeekDaysOfWeek : SUBSET (0..34), daysOfWeekRestricted : BOOLEAN]]

Caller == {"loop", "monitor", "cli"}

\* Everything happens between 1970 and 2099.
ASSUME BoundAssumption == MaxCalls \in Nat
ASSUME SceneAssumption ==
    \A s \in Scene :
        /\ s.expr \in Expr
        /\ s.zone \in [at : Int, before : Int, after : Int]
        /\ Touched(s.zone) \subseteq 0..LastDay
        /\ s.users \subseteq Caller
        /\ \A u \in s.starts : u \in Int /\ Wall(s.zone, u).number \in 0..LastDay

VARIABLES
    scene,          \* the situation; never changes
    actualDaysOfMonthList,
    call            \* where each caller is, with the variables of its call

vars == <<scene, actualDaysOfMonthList, call>>

expr == scene.expr
zone == scene.zone

Words == {"array", "len"}

Init ==
    /\ scene \in Scene
    /\ actualDaysOfMonthList = [array |-> {}, len |-> 0]
    /\ call = [c \in Caller |->
                  [pc |-> "idle", calls |-> 0, from |-> Zero, t |-> Zero, left |-> {},
                   mode |-> "check", year |-> 0, month |-> 0, i |-> 0, disturbed |-> FALSE]]

-----------------------------------------------------------------------------
(* calculateActualDaysOfMonth *)

\* The nearest weekday of the same month
workdayOfMonth(dom, first, last) ==
    LET dow == Weekday(first + dom - 1)
    IN CASE dow = 6 -> IF dom > 1 THEN dom - 1 ELSE dom + 2
         [] dow = 0 -> IF dom < last THEN dom + 1 ELSE dom - 2
         [] OTHER -> dom

DomDays(dom, first, last) ==
    (IF dom.lastDayOfMonth THEN {last} ELSE {})
    \cup (IF dom.lastWorkdayOfMonth THEN {workdayOfMonth(last, first, last)} ELSE {})
    \cup {v \in dom.daysOfMonth : v <= last}
    \cup {workdayOfMonth(v, first, last) : v \in {w \in dom.workdaysOfMonth : w <= last}}

\* Rows without the fifth week
dowFourWeeks(k, last) == {d \in {k + 1, k + 8, k + 15, k + 22} : d <= last}

\* The rows of dowNormalizedOffsets; the entries below 29 are always days.
dowNormalizedOffsets(k, last) == {d \in {k + 1, k + 8, k + 15, k + 22, k + 29} : d <= last}

DowDays(dow, first, last) ==
    LET offset == 7 - Weekday(first)
        lastWeekOrigin == last - 6
        lastOffset == 7 - Weekday(first + lastWeekOrigin - 1)
    IN (UNION {dowNormalizedOffsets((offset + v) % 7, last) : v \in dow.daysOfWeek})
       \cup {v \in {1 + 7 * (w \div 7) + ((offset + w) % 7) : w \in dow.specificWeekDaysOfWeek} : v <= last}
       \cup {lastWeekOrigin + ((lastOffset + v) % 7) : v \in dow.lastWeekDaysOfWeek}

\* A slice of genericDefaultList, whose array goes on
AllDays(last) == [array |-> 1..31, len |-> last]

toList(days) == [array |-> days, len |-> Cardinality(days)]

calculateActualDaysOfMonth(e, year, month) ==
    LET first == DayNumber(year, month, 1)
        last == DaysIn(year, month)
    IN IF ~e.dom.daysOfMonthRestricted /\ ~e.dow.daysOfWeekRestricted
       THEN AllDays(last)
       ELSE toList((IF e.dom.daysOfMonthRestricted THEN DomDays(e.dom, first, last) ELSE {})
                   \cup (IF e.dow.daysOfWeekRestricted THEN DowDays(e.dow, first, last) ELSE {}))

-----------------------------------------------------------------------------
(* The functions that do not look at the days: they return an instant, or *)
(* Carry when the day has no further one.                                 *)

Carry == -2

After(list, v) == {x \in list : x > v}

\* time.Date with the first second, minute and hour of the lists
DateAt(year, month, day) ==
    Date(zone, year, month, day, Min(expr.hourList), Min(expr.minuteList), Min(expr.secondList))

\* A new hour that keeps the minute
nextHourKeepingMinute(w) ==
    LET later == After(expr.hourList, w.hour)
    IN IF later = {} THEN Carry
       ELSE Date(zone, w.year, w.month, w.day, Min(later), w.minute, Min(expr.secondList))

nextHour(w) ==
    LET later == After(expr.hourList, w.hour)
    IN IF later = {} THEN Carry
       ELSE Date(zone, w.year, w.month, w.day, Min(later), Min(expr.minuteList), Min(expr.secondList))

nextMinute(w) ==
    LET later == After(expr.minuteList, w.minute)
    IN IF later = {} THEN nextHour(w)
       ELSE Date(zone, w.year, w.month, w.day, w.hour, Min(later), Min(expr.secondList))

nextSecond(w) ==
    LET later == After(expr.secondList, w.second)
    IN IF later = {} THEN nextMinute(w)
       ELSE Date(zone, w.year, w.month, w.day, w.hour, w.minute, Min(later))

\* The second half of Next, on a day of the list.  A list that has no value
\* from the wall clock's on makes the next function carry on by itself.
WithinDay(w) ==
    CASE w.hour \notin expr.hourList -> nextHour(w)
      [] w.hour \in expr.hourList /\ w.minute \notin expr.minuteList -> nextMinute(w)
      [] OTHER -> nextSecond(w)

-----------------------------------------------------------------------------
(* One call: l is the caller's record, and a step gives it a new one. *)

ListOf(l) == calculateActualDaysOfMonth(expr, l.year, l.month)

Step(c, pc, l) ==
    /\ call[c].pc = pc
    /\ call' = [call EXCEPT ![c] = l]
    /\ UNCHANGED <<scene, actualDaysOfMonthList>>

Goto(l, pc) == [l EXCEPT !.pc = pc]

Return(l, t) == [l EXCEPT !.pc = "done", !.t = t]

\* The list of a month is to be stored, for Next itself ("check") or for the
\* first instant of the month ("first").
StoreDaysOf(l, year, month, mode) ==
    [l EXCEPT !.pc = "store", !.left = Words, !.mode = mode, !.year = year, !.month = month]

\* nextDayOfMonth
NextDay(l) == [l EXCEPT !.pc = "search", !.mode = "day"]

\* An instant, or the rest of the month
ReturnOrCarry(l, t) == IF t = Carry THEN NextDay(l) ELSE Return(l, t)

\* The first half of Next
Enter(c) ==
    LET l == call[c]
        w == Wall(zone, l.t)
    IN Step(c, "next",
            CASE l.t = Zero -> Return(l, Zero)
              [] l.t # Zero /\ w.year \notin expr.yearList -> Goto(l, "year")
              [] l.t # Zero /\ w.year \in expr.yearList /\ w.month \notin expr.monthList ->
                    Goto(l, "month")
              [] OTHER -> StoreDaysOf(l, w.year, w.month, "check"))

\* Whoever has stored a word of another list and still reads it is disturbed.
Disturbs(c, d) ==
    /\ d # c
    /\ call[d].pc \in {"store", "empty", "search", "pick", "first"}
    /\ call[d].left # Words
    /\ ListOf(call[d]) # ListOf(call[c])

StoreWord(c, word) ==
    LET l == call[c]
        left == l.left \ {word}
        pc == IF left # {} THEN "store" ELSE IF l.mode = "first" THEN "first" ELSE "empty"
    IN /\ l.pc = "store"
       /\ word \in l.left
       /\ actualDaysOfMonthList' = [actualDaysOfMonthList EXCEPT ![word] = ListOf(l)[word]]
       /\ call' = [d \in Caller |->
                      IF d = c THEN [l EXCEPT !.left = left, !.pc = pc]
                      ELSE [call[d] EXCEPT !.disturbed = @ \/ Disturbs(c, d)]]
       /\ UNCHANGED scene

\* len(expr.actualDaysOfMonthList) == 0
TestEmpty(c) ==
    LET l == call[c]
    IN Step(c, "empty", IF actualDaysOfMonthList.len = 0 THEN Goto(l, "month") ELSE Goto(l, "search"))

\* A slice whose length does not go with its array reads what lies behind it.
Torn == actualDaysOfMonthList.len > Cardinality(actualDaysOfMonthList.array)

\* The element of the array with this index
At(array, i) == CHOOSE d \in array : Cardinality({e \in array : e < d}) = i

\* sort.SearchInts for the day, or for the day after it
Wanted(l) == Wall(zone, l.t).day + (IF l.mode = "day" THEN 1 ELSE 0)

SearchInts(l) ==
    Min({actualDaysOfMonthList.len,
         Cardinality({d \in actualDaysOfMonthList.array : d < Wanted(l)})})

Search(c) ==
    LET l == call[c]
    IN Step(c, "search",
            IF Torn THEN Goto(l, "wild") ELSE [l EXCEPT !.pc = "pick", !.i = SearchInts(l)])

\* The comparison of the index with the length, and the element
Pick(c) ==
    LET l == call[c]
        w == Wall(zone, l.t)
        day == At(actualDaysOfMonthList.array, l.i)
    IN Step(c, "pick",
            CASE l.i = actualDaysOfMonthList.len -> Goto(l, "month")
              [] l.i > actualDaysOfMonthList.len -> Goto(l, "panicked")
              [] l.i < actualDaysOfMonthList.len /\ Torn -> Goto(l, "wild")
              [] OTHER ->
                    IF l.mode = "day" THEN Return(l, DateAt(w.year, w.month, day))
                    ELSE IF day # w.day THEN NextDay(l)
                    ELSE ReturnOrCarry(l, WithinDay(w)))

\* The end of nextMonth and nextYear; a month without a day is skipped.
First(c) ==
    LET l == call[c]
        list == actualDaysOfMonthList
    IN Step(c, "first",
            CASE list.len = 0 -> [l EXCEPT !.pc = "month", !.t = DateAt(l.year, l.month, 1)]
              [] list.len > 0 /\ list.array = {} -> Goto(l, "wild")
              [] OTHER -> Return(l, DateAt(l.year, l.month, At(list.array, 0))))

\* An index that is off by one finds the month that was searched already.
nextMonthOrSame(c) ==
    LET l == call[c]
        w == Wall(zone, l.t)
        later == After(expr.monthList, w.month - 1)
    IN Step(c, "month",
            IF later = {} THEN Goto(l, "year") ELSE StoreDaysOf(l, w.year, Min(later), "first"))

nextMonth(c) ==
    LET l == call[c]
        w == Wall(zone, l.t)
        later == After(expr.monthList, w.month)
    IN Step(c, "month",
            IF later = {} THEN Goto(l, "year") ELSE StoreDaysOf(l, w.year, Min(later), "first"))

nextYear(c) ==
    LET l == call[c]
        later == After(expr.yearList, Wall(zone, l.t).year)
    IN Step(c, "year",
            IF later = {} THEN Return(l, Zero)
            ELSE StoreDaysOf(l, Min(later), Min(expr.monthList), "first"))

-----------------------------------------------------------------------------
(* The callers *)

Ready(c) ==
    /\ c \in scene.users
    /\ call[c].pc \in {"idle", "done"}
    /\ call[c].calls < MaxCalls

Call(c, from) ==
    LET l == call[c]
    IN /\ Ready(c)
       /\ call' = [call EXCEPT ![c] =
                       [l EXCEPT !.pc = "next", !.calls = l.calls + 1, !.from = from, !.t = from,
                                 !.year = 0, !.month = 0, !.disturbed = FALSE]]
       /\ UNCHANGED <<scene, actualDaysOfMonthList>>

\* startFunc: from the time at which it starts; then from its last answer, or
\* from the present time when that is later.
LoopCalls ==
    \E from \in scene.starts \cup {call["loop"].t} :
        /\ call["loop"].pc = "idle" => from \in scene.starts
        /\ from >= call["loop"].t
        /\ Call("loop", from)

\* monitorJob: from the instant at which its run was started, then from its own
\* answers.
MonitorCalls ==
    \/ /\ call["monitor"].pc = "idle"
       /\ call["loop"].pc = "done"
       /\ call["loop"].t # Zero
       /\ Call("monitor", call["loop"].t)
    \/ /\ call["monitor"].pc = "done"
       /\ Call("monitor", call["monitor"].t)

\* NextN of the command line: Next, then nextSecond from answer to answer.
NextN ==
    \/ /\ call["cli"].pc = "idle"
       /\ \E from \in scene.starts : Call("cli", from)
    \/ LET l == call["cli"]
       IN /\ l.pc = "done"
          /\ l.t # Zero
          /\ Ready("cli")
          /\ Step("cli", "done",
                  ReturnOrCarry([l EXCEPT !.calls = @ + 1, !.from = l.t],
                                nextSecond(Wall(zone, l.t))))

Go(c) ==
    \/ Enter(c) \/ TestEmpty(c) \/ Search(c) \/ Pick(c)
    \/ First(c) \/ nextMonth(c) \/ nextYear(c)
    \/ \E word \in Words : StoreWord(c, word)

Next == LoopCalls \/ MonitorCalls \/ NextN \/ \E c \in Caller : Go(c)

Spec == Init /\ [][Next]_vars

-----------------------------------------------------------------------------
(* What the documentation says of the days (cronexpr/README.md) *)

Weekdays(day) == Weekday(day) \in 1..5

\* n days into the month is the weekday of the month that is nearest to day v.
Nearest(v, n, first, last) ==
    /\ Weekdays(first + n - 1)
    /\ \A m \in 1..last :
          Weekdays(first + m - 1) => (m - v) * (m - v) >= (n - v) * (n - v)

IsDomDay(dom, n, first, last) ==
    \/ n \in dom.daysOfMonth
    \/ dom.lastDayOfMonth /\ n = last
    \/ dom.lastWorkdayOfMonth /\ Weekdays(first + n - 1)
          /\ \A m \in n + 1 .. last : ~Weekdays(first + m - 1)
    \/ \E v \in dom.workdaysOfMonth : v <= last /\ Nearest(v, n, first, last)

IsDowDay(dow, n, first, last) ==
    LET weekday == Weekday(first + n - 1)
    IN \/ weekday \in dow.daysOfWeek
       \/ weekday \in dow.lastWeekDaysOfWeek /\ n + 7 > last
       \/ 7 * ((n - 1) \div 7) + weekday \in dow.specificWeekDaysOfWeek

\* A restricted field decides; if both are, either may match.
IsDay(number) ==
    LET date == DateOf(number)
        first == number - date.day + 1
        last == DaysIn(date.year, date.month)
    IN /\ date.year \in expr.yearList
       /\ date.month \in expr.monthList
       /\ \/ ~expr.dom.daysOfMonthRestricted /\ ~expr.dow.daysOfWeekRestricted
          \/ expr.dom.daysOfMonthRestricted /\ IsDomDay(expr.dom, date.day, first, last)
          \/ expr.dow.daysOfWeekRestricted /\ IsDowDay(expr.dow, date.day, first, last)

\* The wall clock's reading at u is one of the expression's.
IsMatch(u) ==
    LET w == Wall(zone, u)
    IN /\ IsDay(w.number)
       /\ w.hour \in expr.hourList
       /\ w.minute \in expr.minuteList
       /\ w.second \in expr.secondList

\* No instant after from and before to matches, while the zone has one offset.
NoneBetween(from, to) ==
    LET number(u) == Wall(zone, u).number
        midnight(day) == day * 86400 - Offset(zone, from)
    IN \A day \in number(from) .. number(to) :
          IsDay(day) =>
              /\ day \in {number(from), number(to)}
              /\ \A h \in expr.hourList, m \in expr.minuteList, s \in expr.secondList :
                    LET u == midnight(day) + 3600 * h + 60 * m + s
                    IN u <= from \/ u >= to

\* The last second of the last year that the expression names
LastSecond == Date(zone, Max(expr.yearList), 12, 31, 23, 59, 59)

-----------------------------------------------------------------------------
(* Correctness *)

\* No zone changes its clocks where a month begins.
Calm(z) ==
    \A d, e \in Touched(z) :
        DateOf(d).year = DateOf(e).year /\ DateOf(d).month = DateOf(e).month

CalmScenes == \A s \in Scene : Calm(s.zone)

Ended == {"idle", "done", "wild", "panicked"}

\* A list never has a day that no month has, and its length fits.
TypeOK ==
    /\ actualDaysOfMonthList \in [array : SUBSET (1..31), len : 0..31]
    /\ call \in [Caller ->
          [pc : Ended \cup {"next", "store", "empty", "search", "pick", "first", "month", "year"},
           calls : 0..MaxCalls, from : Int, t : Int, left : SUBSET Words,
           mode : {"check", "first", "day"}, year : Nat, month : 0..12, i : Nat,
           disturbed : BOOLEAN]]

\* The step gives c an answer, and nobody has stored the days of another month
\* while c used the list.
Answers(c) == call'[c] # call[c] /\ call'[c].pc = "done" /\ ~call'[c].disturbed

\* The wall clock runs evenly from before from until after the answer.
Even(l) ==
    \/ l.from >= zone.at + Jump(zone)
    \/ l.t # Zero /\ l.t < zone.at - Jump(zone)

Earliest(l) ==
    CASE l.from = Zero -> l.t = Zero
      [] l.from # Zero /\ l.t = Zero -> l.from >= LastSecond \/ NoneBetween(l.from, LastSecond + 1)
      [] OTHER -> l.t > l.from /\ IsMatch(l.t) /\ NoneBetween(l.from, l.t)

Bounded(l) ==
    LET near == zone.at - Jump(zone) <= l.t /\ l.t < zone.at + Jump(zone)
    IN l.from # Zero /\ l.t # Zero =>
          /\ IsMatch(l.t) \/ (near /\ zone.before < zone.after)
          /\ l.t > l.from \/ (near /\ l.t < zone.at /\ zone.after < 0)

\* An answer of Next or of NextN is the first matching instant after the one
\* asked for, and the zero time means that there is none (cronexpr.go:166-173,
\* 256-265): for every kind of day, over months and years without one, with a
\* list of days that an earlier call left behind, and with other goroutines that
\* share the list, as long as those store the same days meanwhile.
NextIsEarliest ==
    [][\A c \in Caller : Answers(c) /\ Even(call'[c]) => Earliest(call'[c])]_vars

\* When the zone changes its offset an answer may be early or late, but within
\* bounds: it shows a reading of the expression unless that one is skipped, and
\* it comes after the instant asked for unless it lies in the last hour before
\* the change, in a zone west of Greenwich.  The loop catches up from there
\* (cron.go:176-181); the monitor does not (cron.go:129-132).
ClockChanges == [][\A c \in Caller : Answers(c) => Bounded(call'[c])]_vars

\* nextMonth and nextYear call each other over months without a day
\* (cronexpr_next.go:48, 78) and yet come to an end: a month is searched only if
\* it is later than the one searched before in the same call, and than that of
\* the instant asked for.
SearchAdvances ==
    [][\A c \in Caller :
          LET l == call'[c]
          IN l.pc = "store" /\ l.mode = "first" /\ call[c].pc # "store" =>
                /\ 12 * l.year + l.month > 12 * call[c].year + call[c].month
                /\ LET w == Wall(zone, l.from)
                   IN 12 * l.year + l.month > 12 * w.year + w.month]_vars

=============================================================================
