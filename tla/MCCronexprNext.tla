--------------------------- MODULE MCCronexprNext ---------------------------
(* Instances of CronexprNext for TLC: schedules as the parser reads them. *)
EXTENDS CronexprNext

P == INSTANCE Cronexpr

NewEntry(form, a, b, n) ==
    [form |-> form, a |-> P!Token(a, "plain"), b |-> P!Token(b, "plain"), n |-> n]

List(entries) == P!Fields(entries)
Is(n) == P!Number(n)
Are(m, n) == List(<<NewEntry("a", m, 0, 0), NewEntry("a", n, 0, 0)>>)
To(m, n) == List(<<NewEntry("a-b", m, n, 0)>>)
Every(n) == List(<<NewEntry("*/n", 0, 0, n)>>)

Schedule(words) == P!Parse(words, TRUE).expr

UTC == [at |-> 0, before |-> 0, after |-> 0]
OnDay(y, m, d, h, min, s) == Date(UTC, y, m, d, h, min, s)

Job(words, starts) ==
    [expr |-> Schedule(words), zone |-> UTC, starts |-> starts, users |-> {"loop", "monitor"}]

Starts == {OnDay(2024, 1, 31, 23, 59, 59), OnDay(2024, 2, 28, 12, 0, 0), OnDay(2023, 12, 30, 0, 29, 0)}

\* minute, hour, day of the month, month, day of the week, year
At0(dom, month, dow) == <<Is(0), Is(0), dom, month, dow, To(2023, 2026)>>

L == List(<<NewEntry("l", 0, 0, 0)>>)
LW == List(<<NewEntry("lw", 0, 0, 0)>>)
W(n) == List(<<NewEntry("aw", n, 0, 0)>>)
LastDow(n) == List(<<NewEntry("al", n, 0, 0)>>)
Nth(n, k) == List(<<NewEntry("a#n", n, 0, k)>>)

Star == P!Star

Days ==
    {At0(dom, Star, dow) : dom \in {L, LW, W(1), W(15), W(31), Are(29, 31)},
                           dow \in {Star, LastDow(5)}}
    \cup {At0(Star, Star, dow) : dow \in {Is(7), Nth(3, 5), Nth(0, 1), To(1, 5)}}
    \cup {At0(Is(30), Is(2), Star), At0(Is(29), Is(2), Star), At0(Is(31), Are(2, 4), Star),
          At0(Star, Star, Star), At0(Is(13), Is(9), Is(5)), At0(W(1), Is(6), Star)}

Times ==
    {<<List(<<NewEntry("*/n", 0, 0, 30), NewEntry("a", 59, 0, 0)>>), Are(0, 23), Star, Star, Star, To(2023, 2024)>>,
     <<Are(0, 59), Are(0, 30), Are(5, 23), Are(30, 31), Star, Star, To(2023, 2024)>>}

Sharing == {At0(L, Star, LastDow(5)), At0(Star, Star, Star), At0(Are(29, 31), Star, Star)}

\* Zones that change their clocks: New York and Berlin, in autumn and in spring
Zones ==
    {[at |-> OnDay(2023, 11, 5, 6, 0, 0), before |-> -4 * 3600, after |-> -5 * 3600],
     [at |-> OnDay(2024, 3, 10, 7, 0, 0), before |-> -5 * 3600, after |-> -4 * 3600],
     [at |-> OnDay(2023, 10, 29, 1, 0, 0), before |-> 2 * 3600, after |-> 3600],
     [at |-> OnDay(2024, 3, 31, 1, 0, 0), before |-> 3600, after |-> 2 * 3600]}

AllDay(minutes, hours) == <<minutes, hours, Star, Star, Star, To(2023, 2024)>>

Changing ==
    {[expr |-> Schedule(AllDay(Every(30), hours)), zone |-> z,
      starts |-> {z.at + 600 * k : k \in -12..12}, users |-> {"loop"}] :
        hours \in {Star, Is(1), Is(2), Is(3), Is(0)}, z \in Zones}

Scenes ==
    {Job(words, Starts) : words \in Sharing}
    \cup {[Job(words, Starts) EXCEPT !.users = {"cli"}] : words \in Days \cup Times}
    \cup Changing

\* None of these zones changes its clocks where a month begins.
ASSUME CalmAssumption == \A s \in Scenes : Calm(s.zone)

\* Paraguay set its clocks forward at midnight, on the first of October 2023:
\* time.Date of that midnight shows the month before.
Asuncion == [at |-> OnDay(2023, 10, 1, 4, 0, 0), before |-> -4 * 3600, after |-> -3 * 3600]

ASSUME SkippedMidnight ==
    /\ ~Calm(Asuncion)
    /\ Wall(Asuncion, Date(Asuncion, 2023, 10, 1, 0, 0, 0)).month = 9
=============================================================================
