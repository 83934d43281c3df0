------------------------------ MODULE Calendar ------------------------------
(***************************************************************************)
(* The parts of Go's package time that cronexpr uses.  An instant is a     *)
(* number of seconds since 1970 began in UTC; the calendar is right up to  *)
(* the year 2099.  A zone changes its offset from UTC once, at the instant *)
(* at, from before to after.                                               *)
(***************************************************************************)
EXTENDS Integers

\* The zero value of time.Time
Zero == -1

FirstYear == 1970
LastYear == 2099
Years == FirstYear..LastYear
Months == 1..12

DaysIn(y, m) ==
    IF m = 2 THEN (IF y % 4 = 0 THEN 29 ELSE 28) ELSE IF m \in {4, 6, 9, 11} THEN 30 ELSE 31

\* The days of the year before month m
Before(y, m) ==
    <<0, 31, 59, 90, 120, 151, 181, 212, 243, 273, 304, 334>>[m]
        + (IF m > 2 /\ y % 4 = 0 THEN 1 ELSE 0)

\* Days since the first of January 1970, whatever d is
DayNumber(y, m, d) == 365 * (y - 1970) + (y - 1969) \div 4 + Before(y, m) + d - 1

\* The first of January 1970 was a Thursday; Sunday is 0.
Weekday(day) == (day + 4) % 7

\* The year that a day is in
YearOf(day) ==
    LET guess == 1970 + day \div 365
    IN IF DayNumber(guess, 1, 1) > day THEN guess - 1 ELSE guess

\* The month of a day of a year, which are counted from 0
MonthOf(y, n) ==
    CHOOSE m \in Months : Before(y, m) <= n /\ (m < 12 => n < Before(y, m + 1))

\* Year, month and day of a day's number
DateOf(day) ==
    LET y == YearOf(day)
        m == MonthOf(y, day - DayNumber(y, 1, 1))
    IN [year |-> y, month |-> m, day |-> day - DayNumber(y, m, 1) + 1]

\* The dates of all the days, which TLC computes once
LastDay == DayNumber(LastYear, 12, 31)
Dates == [day \in 0..LastDay |-> DateOf(day)]

Offset(z, u) == IF u < z.at THEN z.before ELSE z.after

Jump(z) == IF z.before > z.after THEN z.before - z.after ELSE z.after - z.before

\* time.Date takes the offset that is valid at the wall clock's reading as if it
\* were UTC, and if that leads to an instant with another offset, that one.
Date(z, y, m, d, h, min, s) ==
    LET clock == ((DayNumber(y, m, d) * 24 + h) * 60 + min) * 60 + s
        offset == Offset(z, clock)
        u == clock - offset
    IN IF Offset(z, u) = offset THEN u ELSE clock - Offset(z, u)

\* What the wall clock of the zone shows at an instant
Wall(z, u) ==
    LET clock == u + Offset(z, u)
        day == clock \div 86400
        rest == clock % 86400
        date == Dates[day]
    IN [year |-> date.year, month |-> date.month, day |-> date.day,
        hour |-> rest \div 3600, minute |-> (rest % 3600) \div 60, second |-> rest % 60,
        number |-> day]

=============================================================================
