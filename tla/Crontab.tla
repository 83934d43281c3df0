------------------------------ MODULE Crontab -------------------------------
(***************************************************************************)
(* ParseCrontab of crontab.go: the crontab is read line by line into a     *)
(* list of jobs and one context for all of them.                           *)
(*                                                                         *)
(* A line is a record: blank (or a comment), a setting of the environment  *)
(* or a job, as line[0] and envLineMatcher tell them apart.  A job line is *)
(* its words; those of the command are words like the others, since only   *)
(* parsing tells where the schedule ends.  A setting has a key and the     *)
(* text right of the equals sign without its quotes, if quoted.            *)
(***************************************************************************)
EXTENDS Integers, Sequences, SequencesExt, Cronexpr

CONSTANTS
    Lines,          \* the lines a crontab may have at each place; its length
                    \* bounds that of a crontab
    Zone            \* the names that time.LoadLocation knows

Line == [kind : {"blank"}]
           \cup [kind : {"setting"}, key : STRING, text : STRING, quoted : BOOLEAN]
           \cup [kind : {"job"}, words : Seq(Word)]

ASSUME LinesAssumption == Lines \in Seq(SUBSET Line)

VARIABLES
    outcome,        \* "reading", what ParseCrontab returned, or "panic"
    jobs,           \* the jobs so far
    environ,        \* the environment: a function of the keys set so far
    shell,
    tz,
    read            \* history: the lines read

vars == <<outcome, jobs, environ, shell, tz, read>>

Init ==
    /\ outcome = "reading"
    /\ jobs = <<>>
    /\ environ = << >>
    /\ shell = "/bin/sh"
    /\ tz = "Local"
    /\ read = <<>>

-----------------------------------------------------------------------------
(* parseJobLine *)

\* The shortest schedule first
ShortestFirst == <<5, 6, 7, 1>>

parameterCounts == <<7, 6, 5, 1>>

\* The first words are a schedule, and they are not all there is.
IsSchedule(words, count) ==
    /\ Len(words) > count
    /\ ~Parse(SubSeq(words, 1, count), TRUE).bad

\* The places of the counts that would do
Candidates(words) ==
    {i \in DOMAIN parameterCounts : IsSchedule(words, parameterCounts[i])}

JobLine(words, count) ==
    [expression |-> Parse(SubSeq(words, 1, count), TRUE).expr,
     schedule |-> SubSeq(words, 1, count),
     command |-> SubSeq(words, count + 1, Len(words))]

-----------------------------------------------------------------------------
(* ParseCrontab *)

\* The scanner's next line
Scan(line) ==
    /\ outcome = "reading"
    /\ read' = Append(read, line)

ReadBlank(line) ==
    /\ Scan(line)
    /\ line.kind = "blank"
    /\ UNCHANGED <<outcome, jobs, environ, shell, tz>>

\* A job's Position is its place in the list.
ReadJob(line) ==
    /\ Scan(line)
    /\ line.kind = "job"
    /\ \E i \in Candidates(line.words) :
          /\ \A j \in Candidates(line.words) : i <= j
          /\ jobs' = Append(jobs, JobLine(line.words, parameterCounts[i]))
    /\ UNCHANGED <<outcome, environ, shell, tz>>

BadJob(line) ==
    /\ Scan(line)
    /\ line.kind = "job"
    /\ Candidates(line.words) = {}
    /\ outcome' = "error"
    /\ UNCHANGED <<jobs, environ, shell, tz>>

\* envVal[0]
EmptyValue(line) == line.text = "" /\ ~line.quoted

Put(map, key, value) ==
    [k \in DOMAIN map \cup {key} |-> IF k = key THEN value ELSE map[k]]

\* The first setting of a key stays.
ReadSettingOnce(line) ==
    /\ Scan(line)
    /\ line.kind = "setting"
    /\ ~EmptyValue(line)
    /\ line.key = "CRON_TZ" => line.text \in Zone
    /\ environ' = IF line.key \in DOMAIN environ THEN environ
                                                  ELSE Put(environ, line.key, line.text)
    /\ shell' = IF line.key = "SHELL" THEN line.text ELSE shell
    /\ tz' = IF line.key = "CRON_TZ" THEN line.text ELSE tz
    /\ UNCHANGED <<outcome, jobs>>

ReadSetting(line) ==
    /\ Scan(line)
    /\ line.kind = "setting"
    /\ ~EmptyValue(line)
    /\ line.key = "CRON_TZ" => line.text \in Zone
    /\ environ' = Put(environ, line.key, line.text)
    /\ shell' = IF line.key = "SHELL" THEN line.text ELSE shell
    /\ tz' = IF line.key = "CRON_TZ" THEN line.text ELSE tz
    /\ UNCHANGED <<outcome, jobs>>

\* time.LoadLocation fails.
BadZone(line) ==
    /\ Scan(line)
    /\ line.kind = "setting"
    /\ line.key = "CRON_TZ"
    /\ ~EmptyValue(line)
    /\ line.text \notin Zone
    /\ outcome' = "error"
    /\ UNCHANGED <<jobs, environ, shell, tz>>

\* The index of an empty string
SettingPanics(line) ==
    /\ Scan(line)
    /\ line.kind = "setting"
    /\ EmptyValue(line)
    /\ outcome' = "panic"
    /\ UNCHANGED <<jobs, environ, shell, tz>>

\* A line that is too long for the scanner, or the file cannot be read on.
ScanFails ==
    /\ outcome = "reading"
    /\ outcome' = "error"
    /\ UNCHANGED <<jobs, environ, shell, tz, read>>

EndOfCrontab ==
    /\ outcome = "reading"
    /\ outcome' = "crontab"
    /\ UNCHANGED <<jobs, environ, shell, tz, read>>

Next ==
    \/ /\ Len(read) < Len(Lines)
       /\ \E line \in Lines[Len(read) + 1] :
          \/ ReadBlank(line) \/ ReadJob(line) \/ BadJob(line)
          \/ ReadSetting(line) \/ BadZone(line) \/ SettingPanics(line)
    \/ ScanFails \/ EndOfCrontab

Spec == Init /\ [][Next]_vars

-----------------------------------------------------------------------------
(* What cronexpr/README.md says of a schedule *)

\* For weekdays 7 is Sunday, like 0.
Meant(f, n) == IF f = "dow" THEN n % 7 ELSE n

\* The values from first to last in steps of n
Walk(first, last, n) == {x \in first..last : \E k \in 0..last : x = first + k * n}

Listed(f, e) ==
    LET min == Descriptor[f].min
        max == Descriptor[f].max
    IN CASE e.form = "*"     -> DefaultList(f)
         [] e.form = "a"     -> {Meant(f, e.a.n)}
         [] e.form = "a-b"   -> {Meant(f, x) : x \in Walk(e.a.n, e.b.n, 1)}
         [] e.form = "*/n"   -> Walk(min, max, e.n)
         [] e.form = "a/n"   -> Walk(Meant(f, e.a.n), max, e.n)
         [] e.form = "a-b/n" -> {Meant(f, x) : x \in Walk(e.a.n, e.b.n, e.n)}
         [] OTHER -> {}

\* A star leaves nothing for the other entries to add.
AllListed(f, word) ==
    IF With(word, "*") # {} THEN DefaultList(f)
                            ELSE UNION {Listed(f, e) : e \in ToSet(word.entries)}

\* Where parse and the documentation part: a weekday with a leading zero is
\* Sunday, and a 7 in a range of weekdays is 0.
Odd(e) ==
    \/ "padded" \in {e.a.style, e.b.style}
    \/ e.form \in {"a-b", "a-b/n"} /\ 7 \in {e.a.n, e.b.n}

IsOdd(f, word) == f = "dow" /\ \E e \in ToSet(word.entries) : Odd(e)

\* A range with an interval may run backwards; it lists nothing.
Backwards(e) == e.form = "a-b/n" /\ e.a.n > e.b.n

\* The fields of a schedule by name; the other ones have their default.
Named(schedule) ==
    LET words == NormalWords(schedule)
        place == [second |-> 1, minute |-> 2, hour |-> 3, dom |-> 4,
                  month |-> 5, dow |-> 6, year |-> 7]
        missing == IF Len(words) = 7 THEN 0 ELSE 1
    IN [f \in {g \in DOMAIN place : place[g] - missing \in 1..Len(words)} |->
          words[place[f] - missing]]

Lists(expr) ==
    [second |-> expr.secondList, minute |-> expr.minuteList, hour |-> expr.hourList,
     dom |-> expr.dom.daysOfMonth, month |-> expr.monthList,
     dow |-> expr.dow.daysOfWeek, year |-> expr.yearList]

Default(f) == IF f = "second" THEN {0} ELSE DefaultList(f)

-----------------------------------------------------------------------------
(* Correctness *)

\* The forms of an entry that the documentation has for a field
FormsOf(f) ==
    {"*", "a", "a-b", "*/n", "a/n", "a-b/n"}
       \cup IF f = "dom" THEN {"l", "lw", "aw"} ELSE {}
       \cup IF f = "dow" THEN {"al", "a#n"} ELSE {}

\* An entry of a form, with a number or for a week that the field does not have
Outside(f, e) ==
    LET numbers == IF f = "dow" THEN 0..7 ELSE DefaultList(f)
    IN \/ e.form \notin FormsOf(f)
       \/ e.form \in {"a", "a-b", "a/n", "a-b/n", "aw", "al", "a#n"} /\ e.a.n \notin numbers
       \/ e.form \in {"a-b", "a-b/n"} /\ e.b.n \notin numbers
       \/ e.form = "a#n" /\ e.n \notin 1..5

\* The days in the entries of one of the marked forms
Marked(f, word, form) == {Meant(f, e.a.n) : e \in With(word, form)}

\* The week and the day that an element of specificWeekDaysOfWeek is for
WeekAndDay(x) == <<x \div 7 + 1, x % 7>>

\* 15W, L and LW of a day of the month, 5L and 5#3 of a weekday
MarksAsDocumented(dom, dow, domWord, dowWord) ==
    /\ dom.workdaysOfMonth = Marked("dom", domWord, "aw")
    /\ dom.lastDayOfMonth = (With(domWord, "l") # {})
    /\ dom.lastWorkdayOfMonth = (With(domWord, "lw") # {})
    /\ \/ IsOdd("dow", dowWord)
       \/ /\ dow.lastWeekDaysOfWeek = Marked("dow", dowWord, "al")
          /\ {WeekAndDay(x) : x \in dow.specificWeekDaysOfWeek} =
                {<<e.n, Meant("dow", e.a.n)>> : e \in With(dowWord, "a#n")}

\* The lists of an expression are those that its fields by name stand for.
AsDocumented(expr, field) ==
    /\ \A f \in DOMAIN Descriptor :
          IF f \in DOMAIN field
          THEN IsOdd(f, field[f]) \/ Lists(expr)[f] = AllListed(f, field[f])
          ELSE Lists(expr)[f] = Default(f)
    /\ MarksAsDocumented(expr.dom, expr.dow, field["dom"], field["dow"])
    /\ expr.dom.daysOfMonthRestricted = (With(field["dom"], "*") = {})
    /\ expr.dow.daysOfWeekRestricted = (With(field["dow"], "*") = {})
    /\ \A f \in DOMAIN field :
          \A k \in DOMAIN field[f].entries :
             Outside(f, field[f].entries[k]) =>
                /\ f \notin {"dom", "dow"}
                /\ \E j \in 1 .. k - 1 : field[f].entries[j].form = "*"
    /\ \A f \in DOMAIN field \ {"dom", "dow"} :
          \/ Lists(expr)[f] # {}
          \/ \A e \in ToSet(field[f].entries) : Backwards(e)

\* Every list of a job's expression holds what the documentation says its field
\* stands for, those of L, W and # included, except for the two odd kinds of
\* weekdays.  No entry of another form, or with a number or a week out of range,
\* is taken, but after a star only the fields of the days are read on.  And a
\* field is never left without a value, which Next relies on when it takes the
\* first one (cronexpr_next.go:52-58), unless all it has is ranges that run
\* backwards.
ReadAsDocumented ==
    \A i \in DOMAIN jobs : AsDocumented(jobs[i].expression, Named(jobs[i].schedule))

\* The places of the lines of a kind
Places(kind) == {p \in DOMAIN read : read[p].kind = kind}

\* The years a word may be taken for
LooksLikeYear(word) ==
    \E e \in ToSet(word.entries) :
        \/ e.form \in {"*", "*/n"}
        \/ e.form \in {"a", "a-b", "a/n", "a-b/n"} /\ e.a.n \in DefaultList("year")

\* The jobs are the job lines, in their order.  Each is divided into its schedule
\* and its command without a loss.  More than the five fields of crontab(5) are
\* taken for a schedule only if the last word of them can be read as a year,
\* whatever the ones before it are, and then the longest schedule wins.
CommandKept ==
    \E place \in [DOMAIN jobs -> Places("job")] :
        /\ \A i, j \in DOMAIN jobs : i < j => place[i] < place[j]
        /\ outcome # "error" => \A p \in Places("job") : \E i \in DOMAIN jobs : place[i] = p
        /\ \A i \in DOMAIN jobs :
              LET words == read[place[i]].words
                  count == Len(jobs[i].schedule)
              IN /\ words = jobs[i].schedule \o jobs[i].command
                 /\ jobs[i].command # <<>>
                 /\ count > 5 => LooksLikeYear(words[count])
                 /\ \A n \in {5, 6, 7} : IsSchedule(words, n) => n <= count

\* The key is set at a place, and no more below it.
IsLast(key, p) ==
    /\ p \in Places("setting")
    /\ read[p].key = key
    /\ \A q \in Places("setting") : read[q].key = key => q <= p

\* The key has its default or the value that its last setting gives it.
LastCounts(key, value, default) ==
    \/ value = default /\ \A p \in Places("setting") : read[p].key # key
    \/ \E p \in Places("setting") : IsLast(key, p) /\ value = read[p].text

\* The context that the jobs share is that of the whole file: for each key the
\* last setting counts, for the jobs above it, too.  The crontab is read to its
\* end or not at all, and only a setting without a value ends the program.
ContextOfTheFile ==
    /\ outcome \in {"reading", "crontab"} =>
          /\ DOMAIN environ = {read[p].key : p \in Places("setting")}
          /\ \A key \in DOMAIN environ :
                \E p \in Places("setting") : IsLast(key, p) /\ environ[key] = read[p].text
          /\ LastCounts("SHELL", shell, "/bin/sh")
          /\ LastCounts("CRON_TZ", tz, "Local")
    /\ (outcome = "panic") = \E p \in Places("setting") : EmptyValue(read[p])

=============================================================================
