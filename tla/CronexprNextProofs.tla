------------------------- MODULE CronexprNextProofs -------------------------
(***************************************************************************)
(* Theorems about CronexprNext: the search for the next instant goes from  *)
(* month to month and never back, whoever else uses the expression.        *)
(***************************************************************************)
EXTENDS CronexprNext, FiniteSetTheorems, TLAPS

-----------------------------------------------------------------------------
(* The calendar *)

Leap(y) == IF y % 4 = 0 THEN 1 ELSE 0

LEMMA BeforeTable ==
    ASSUME NEW y \in Int
    PROVE  /\ Before(y, 1) = 0 /\ Before(y, 2) = 31
           /\ Before(y, 3) = 59 + Leap(y) /\ Before(y, 4) = 90 + Leap(y)
           /\ Before(y, 5) = 120 + Leap(y) /\ Before(y, 6) = 151 + Leap(y)
           /\ Before(y, 7) = 181 + Leap(y) /\ Before(y, 8) = 212 + Leap(y)
           /\ Before(y, 9) = 243 + Leap(y) /\ Before(y, 10) = 273 + Leap(y)
           /\ Before(y, 11) = 304 + Leap(y) /\ Before(y, 12) = 334 + Leap(y)
           /\ Leap(y) \in 0..1
  BY DEF Before, Leap

\* A year's first day, a month's first day and the one after its last
NewYear(y) == 365 * (y - 1970) + (y - 1969) \div 4

Start(y, m) == NewYear(y) + Before(y, m)

End(y, m) == IF m = 12 THEN NewYear(y + 1) ELSE Start(y, m + 1)

LEMMA NewYears ==
    ASSUME NEW y \in Int
    PROVE  /\ NewYear(y) \in Int
           /\ NewYear(y + 1) = NewYear(y) + 365 + Leap(y)
           /\ \A z \in Int : y <= z => NewYear(y) <= NewYear(z)
  BY DEF NewYear, Leap

LEMMA Lengths ==
    ASSUME NEW y \in Int, NEW m \in Months
    PROVE  /\ Before(y, m) \in 0..335
           /\ DaysIn(y, m) \in 28..31
           /\ m < 12 => Before(y, m + 1) = Before(y, m) + DaysIn(y, m)
           /\ m = 12 => Before(y, m) + 31 = 365 + Leap(y) /\ DaysIn(y, m) = 31
<1>0. m \in 1..12
  BY DEF Months
<1>1. CASE m = 1
  BY <1>1, BeforeTable DEF DaysIn
<1>2. CASE m = 2
  BY <1>2, BeforeTable DEF DaysIn, Leap
<1>3. CASE m = 3
  BY <1>3, BeforeTable DEF DaysIn
<1>4. CASE m = 4
  BY <1>4, BeforeTable DEF DaysIn
<1>5. CASE m = 5
  BY <1>5, BeforeTable DEF DaysIn
<1>6. CASE m = 6
  BY <1>6, BeforeTable DEF DaysIn
<1>7. CASE m = 7
  BY <1>7, BeforeTable DEF DaysIn
<1>8. CASE m = 8
  BY <1>8, BeforeTable DEF DaysIn
<1>9. CASE m = 9
  BY <1>9, BeforeTable DEF DaysIn
<1>10. CASE m = 10
  BY <1>10, BeforeTable DEF DaysIn
<1>11. CASE m = 11
  BY <1>11, BeforeTable DEF DaysIn
<1>12. CASE m = 12
  BY <1>12, BeforeTable DEF DaysIn
<1> QED
  BY <1>0, <1>1, <1>2, <1>3, <1>4, <1>5, <1>6, <1>7, <1>8, <1>9, <1>10, <1>11, <1>12

LEMMA InMonths ==
    ASSUME NEW y \in Int, NEW m \in Months
    PROVE  /\ Start(y, m) \in Int /\ End(y, m) \in Int
           /\ NewYear(y) <= Start(y, m)
           /\ Start(y, m) + 28 <= End(y, m)
           /\ End(y, m) <= NewYear(y + 1)
           /\ DaysIn(y, m) = End(y, m) - Start(y, m)
<1>1. /\ Start(y, m) = NewYear(y) + Before(y, m)
      /\ End(y, m) = Start(y, m) + DaysIn(y, m)
  <2>1. NewYear(y) \in Int /\ Before(y, m) \in Int /\ DaysIn(y, m) \in Int /\ Leap(y) \in Int
    <3>1. Before(y, m) \in 0..335 /\ DaysIn(y, m) \in 28..31
      BY Lengths
    <3>2. NewYear(y) \in Int /\ Leap(y) \in 0..1
      BY NewYears DEF Leap
    <3> QED
      BY <3>1, <3>2
  <2>2. CASE m < 12
    <3>1. End(y, m) = NewYear(y) + Before(y, m + 1)
      BY <2>2 DEF Start, End, Months
    <3>2. Before(y, m + 1) = Before(y, m) + DaysIn(y, m)
      BY <2>2, Lengths
    <3> QED
      BY <2>1, <3>1, <3>2 DEF Start
  <2>3. CASE m = 12
    <3>1. End(y, m) = NewYear(y) + 365 + Leap(y)
      BY <2>3, NewYears DEF End
    <3>2. Before(y, m) + DaysIn(y, m) = 365 + Leap(y)
      BY <2>1, <2>3, Lengths
    <3> QED
      BY <2>1, <3>1, <3>2 DEF Start
  <2> QED
    BY <2>2, <2>3 DEF Months
<1>2. NewYear(y) \in Int /\ NewYear(y + 1) = NewYear(y) + 365 + Leap(y) /\ Leap(y) \in 0..1
  BY NewYears, BeforeTable
<1>3. Before(y, m) \in 0..335 /\ DaysIn(y, m) \in 28..31
  BY Lengths
<1>4. Before(y, m) + DaysIn(y, m) <= 365 + Leap(y)
  <2>1. CASE m < 12
    <3>1. m + 1 \in Months /\ Before(y, m + 1) = Before(y, m) + DaysIn(y, m)
      BY <2>1, Lengths DEF Months
    <3>2. Before(y, m + 1) \in 0..335
      BY <3>1, Lengths
    <3> QED
      BY <1>2, <1>3, <3>1, <3>2
  <2>2. CASE m = 12
    BY <1>2, <1>3, <2>2, Lengths
  <2> QED
    BY <2>1, <2>2 DEF Months
<1> QED
  BY <1>1, <1>2, <1>3, <1>4, SMTT(40)

LEMMA BeforeInOrder ==
    ASSUME NEW y \in Int, NEW m \in Months, NEW n \in Months, m <= n
    PROVE  Before(y, m) <= Before(y, n)
<1>0. m \in 1..12 /\ n \in 1..12
  BY DEF Months
<1>1. CASE m = 1
  BY <1>0, <1>1, BeforeTable
<1>2. CASE m = 2
  BY <1>0, <1>2, BeforeTable
<1>3. CASE m = 3
  BY <1>0, <1>3, BeforeTable
<1>4. CASE m = 4
  BY <1>0, <1>4, BeforeTable
<1>5. CASE m = 5
  BY <1>0, <1>5, BeforeTable
<1>6. CASE m = 6
  BY <1>0, <1>6, BeforeTable
<1>7. CASE m = 7
  BY <1>0, <1>7, BeforeTable
<1>8. CASE m = 8
  BY <1>0, <1>8, BeforeTable
<1>9. CASE m = 9
  BY <1>0, <1>9, BeforeTable
<1>10. CASE m = 10
  BY <1>0, <1>10, BeforeTable
<1>11. CASE m = 11
  BY <1>0, <1>11, BeforeTable
<1>12. CASE m = 12
  BY <1>0, <1>12, BeforeTable
<1> QED
  BY <1>0, <1>1, <1>2, <1>3, <1>4, <1>5, <1>6, <1>7, <1>8, <1>9, <1>10, <1>11, <1>12

LEMMA LaterMonths ==
    ASSUME NEW y \in Int, NEW m \in Months, NEW n \in Months, m < n
    PROVE  End(y, m) <= Start(y, n)
<1>1. m + 1 \in Months /\ m + 1 <= n /\ m # 12
  BY DEF Months
<1>2. Before(y, m + 1) <= Before(y, n)
  BY <1>1, BeforeInOrder
<1>3. End(y, m) = NewYear(y) + Before(y, m + 1) /\ Start(y, n) = NewYear(y) + Before(y, n)
  BY <1>1 DEF End, Start
<1>4. NewYear(y) \in Int /\ Before(y, m + 1) \in Int /\ Before(y, n) \in Int
  <2>1. NewYear(y) \in Int
    BY NewYears
  <2>2. Before(y, m + 1) \in 0..335 /\ Before(y, n) \in 0..335
    BY <1>1, Lengths
  <2> QED
    BY <2>1, <2>2
<1> QED
  BY <1>2, <1>3, <1>4

\* Months come one after the other.
LEMMA MonthsInOrder ==
    ASSUME NEW y \in Int, NEW m \in Months, NEW z \in Int, NEW n \in Months,
           12 * y + m < 12 * z + n
    PROVE  End(y, m) <= Start(z, n)
<1>1. y < z \/ (y = z /\ m < n)
  BY DEF Months
<1>2. CASE y < z
  <2>1. End(y, m) \in Int /\ Start(z, n) \in Int /\ y + 1 \in Int /\ y + 1 <= z
    BY <1>2, InMonths
  <2>2. End(y, m) <= NewYear(y + 1) /\ NewYear(z) <= Start(z, n)
    BY InMonths
  <2>3. NewYear(y + 1) \in Int /\ NewYear(z) \in Int /\ NewYear(y + 1) <= NewYear(z)
    BY <2>1, NewYears
  <2> QED
    BY <2>1, <2>2, <2>3
<1>3. CASE y = z /\ m < n
  BY <1>3, LaterMonths
<1> QED
  BY <1>1, <1>2, <1>3

LEMMA DayNumbers ==
    ASSUME NEW y \in Int, NEW m \in Months, NEW d \in Int
    PROVE  DayNumber(y, m, d) = Start(y, m) + d - 1
  BY InMonths DEF DayNumber, Start, NewYear

LEMMA LastDayIs == LastDay \in Int /\ LastDay <= 47481 /\ 47481 <= LastDay
  BY BeforeTable DEF LastDay, LastYear, DayNumber, NewYear, Leap

LEMMA YearOfDay ==
    ASSUME NEW day \in 0..LastDay
    PROVE  /\ YearOf(day) \in Years
           /\ NewYear(YearOf(day)) <= day
           /\ day < NewYear(YearOf(day) + 1)
<1> DEFINE guess == 1970 + day \div 365
<1>1. day \in Int /\ 0 <= day /\ day <= 47481
  BY LastDayIs
<1>2. guess \in 1970..2101 /\ guess - 1 \in Int /\ guess + 1 \in Int
  BY <1>1
<1>3. DayNumber(guess, 1, 1) = NewYear(guess)
  BY <1>2, BeforeTable DEF DayNumber, NewYear
<1>4. YearOf(day) = IF NewYear(guess) > day THEN guess - 1 ELSE guess
  BY <1>1, <1>3 DEF YearOf
<1>5. CASE NewYear(guess) > day
  <2>1. NewYear(guess - 1) <= day /\ guess # 1970
    BY <1>1, <1>5 DEF NewYear
  <2>2. guess - 1 \in Years
    BY <1>1, <1>2, <1>5, <2>1 DEF NewYear, Years, FirstYear, LastYear
  <2> QED
    BY <1>2, <1>4, <1>5, <2>1, <2>2
<1>6. CASE ~(NewYear(guess) > day)
  <2>1. day < NewYear(guess + 1) /\ guess <= 2099
    BY <1>1, <1>6 DEF NewYear
  <2>2. NewYear(guess) \in Int /\ YearOf(day) = guess /\ guess \in Years
    BY <1>2, <1>4, <1>6, <2>1, NewYears DEF Years, FirstYear, LastYear
  <2> QED
    BY <1>1, <1>6, <2>1, <2>2
<1> QED
  BY <1>5, <1>6

LEMMA MonthOfDay ==
    ASSUME NEW y \in Int, NEW n \in Nat
    PROVE  /\ MonthOf(y, n) \in Months
           /\ Before(y, MonthOf(y, n)) <= n
           /\ MonthOf(y, n) < 12 => n < Before(y, MonthOf(y, n) + 1)
<1>1. \E m \in Months : Before(y, m) <= n /\ (m < 12 => n < Before(y, m + 1))
  <2>1. CASE n < 31
    BY <2>1, BeforeTable DEF Months
  <2>2. CASE 31 <= n /\ n < 59 + Leap(y)
    BY <2>2, BeforeTable DEF Months
  <2>3. CASE 59 + Leap(y) <= n /\ n < 90 + Leap(y)
    BY <2>3, BeforeTable DEF Months
  <2>4. CASE 90 + Leap(y) <= n /\ n < 120 + Leap(y)
    BY <2>4, BeforeTable DEF Months
  <2>5. CASE 120 + Leap(y) <= n /\ n < 151 + Leap(y)
    BY <2>5, BeforeTable DEF Months
  <2>6. CASE 151 + Leap(y) <= n /\ n < 181 + Leap(y)
    BY <2>6, BeforeTable DEF Months
  <2>7. CASE 181 + Leap(y) <= n /\ n < 212 + Leap(y)
    BY <2>7, BeforeTable DEF Months
  <2>8. CASE 212 + Leap(y) <= n /\ n < 243 + Leap(y)
    BY <2>8, BeforeTable DEF Months
  <2>9. CASE 243 + Leap(y) <= n /\ n < 273 + Leap(y)
    BY <2>9, BeforeTable DEF Months
  <2>10. CASE 273 + Leap(y) <= n /\ n < 304 + Leap(y)
    BY <2>10, BeforeTable DEF Months
  <2>11. CASE 304 + Leap(y) <= n /\ n < 334 + Leap(y)
    BY <2>11, BeforeTable DEF Months
  <2>12. CASE 334 + Leap(y) <= n
    BY <2>12, BeforeTable DEF Months
  <2> QED
    BY <2>1, <2>2, <2>3, <2>4, <2>5, <2>6, <2>7, <2>8, <2>9, <2>10, <2>11, <2>12, BeforeTable
<1>2. MonthOf(y, n) =
         CHOOSE m \in Months : Before(y, m) <= n /\ (m < 12 => n < Before(y, m + 1))
  BY DEF MonthOf
<1> QED
  BY <1>1, <1>2

\* The date of a day is the month that it lies in and its place there.
LEMMA DateOfDay ==
    ASSUME NEW day \in 0..LastDay
    PROVE  /\ Dates[day] = DateOf(day)
           /\ DateOf(day).year \in Years
           /\ DateOf(day).month \in Months
           /\ Start(DateOf(day).year, DateOf(day).month) <= day
           /\ day < End(DateOf(day).year, DateOf(day).month)
           /\ DateOf(day).day = day - Start(DateOf(day).year, DateOf(day).month) + 1
<1>1. PICK y \in Years :
         y = YearOf(day) /\ NewYear(y) <= day /\ day < NewYear(y + 1)
  BY YearOfDay
<1>2. y \in Int /\ NewYear(y) \in Int /\ day \in Int /\ day <= 47481 /\ 0 <= day
  BY NewYears, LastDayIs DEF Years, FirstYear, LastYear
<1>3. PICK n \in Nat : n = day - NewYear(y)
  BY <1>1, <1>2
<1>4. PICK m \in Months :
         m = MonthOf(y, n) /\ Before(y, m) <= n /\ (m < 12 => n < Before(y, m + 1))
  BY <1>2, MonthOfDay
<1>5. DayNumber(y, 1, 1) = NewYear(y)
  BY <1>2, BeforeTable DEF DayNumber, NewYear
<1>6. Start(y, m) \in Int /\ DayNumber(y, m, 1) = Start(y, m)
  <2>1. Start(y, m) \in Int
    BY <1>2, InMonths
  <2>2. DayNumber(y, m, 1) = Start(y, m) + 1 - 1
    BY <1>2, DayNumbers
  <2> QED
    BY <2>1, <2>2
<1>7. DateOf(day) = [year |-> y, month |-> m, day |-> day - Start(y, m) + 1]
  BY <1>1, <1>3, <1>4, <1>5, <1>6 DEF DateOf
<1>8. Start(y, m) <= day
  BY <1>2, <1>3, <1>4, Lengths DEF Start
<1>9. day < End(y, m)
  <2>1. CASE m < 12
    <3>1. End(y, m) = NewYear(y) + Before(y, m + 1)
      BY <2>1 DEF Start, End, Months
    <3>2. m + 1 \in Months
      BY <2>1 DEF Months
    <3>3. Before(y, m + 1) \in Int
      BY <1>2, <3>2, Lengths
    <3> QED
      BY <1>2, <1>3, <1>4, <2>1, <3>1, <3>3
  <2>2. CASE m = 12
    BY <1>1, <2>2 DEF End
  <2> QED
    BY <2>1, <2>2 DEF Months
<1> QED
  BY <1>7, <1>8, <1>9 DEF Dates

\* Months are counted by one number.
Index(day) == 12 * DateOf(day).year + DateOf(day).month

LEMMA IndexInOrder ==
    ASSUME NEW day \in 0..LastDay, NEW later \in 0..LastDay, day <= later
    PROVE  Index(day) \in Int /\ Index(later) \in Int /\ Index(day) <= Index(later)
<1>1. PICK y \in Years, m \in Months :
         /\ Index(day) = 12 * y + m /\ Start(y, m) <= day /\ day < End(y, m)
  BY DateOfDay DEF Index
<1>2. PICK z \in Years, n \in Months :
         /\ Index(later) = 12 * z + n /\ Start(z, n) <= later /\ later < End(z, n)
  BY DateOfDay DEF Index
<1>3. 12 * y + m \in Int /\ 12 * z + n \in Int
  BY DEF Months, Years, FirstYear, LastYear
<1>4. ~(12 * z + n < 12 * y + m)
  <2> SUFFICES ASSUME 12 * z + n < 12 * y + m
               PROVE  FALSE
    OBVIOUS
  <2>1. End(z, n) <= Start(y, m)
    BY MonthsInOrder DEF Years, FirstYear, LastYear
  <2>2. y \in Int /\ z \in Int /\ day \in Int /\ later \in Int
    BY LastDayIs DEF Years, FirstYear, LastYear
  <2>3. End(z, n) \in Int /\ Start(y, m) \in Int
    BY <2>2, InMonths
  <2> QED
    BY <1>1, <1>2, <2>1, <2>2, <2>3
<1> QED
  BY <1>1, <1>2, <1>3, <1>4

LEMMA MonthsInRange ==
    ASSUME NEW y \in Years, NEW m \in Months
    PROVE  Start(y, m) \in Int /\ 0 <= Start(y, m) /\ Start(y, m) <= 47451
<1>2. y \in Int /\ y + 1 \in Int /\ Start(y, m) \in Int /\ End(y, m) \in Int
  BY InMonths DEF Years, FirstYear, LastYear
<1>3. 0 <= Start(y, m)
  <2>1. NewYear(1970) = 0 /\ 1970 \in Int
    BY DEF NewYear
  <2>2. NewYear(1970) <= NewYear(y) /\ NewYear(y) \in Int
    <3>1. \A z \in Int : 1970 <= z => NewYear(1970) <= NewYear(z)
      BY <2>1, NewYears
    <3>2. NewYear(y) \in Int
      BY <1>2, NewYears
    <3>3. y \in Int /\ 1970 <= y
      BY DEF Years, FirstYear, LastYear
    <3>4. NewYear(1970) <= NewYear(y)
      BY <3>1, <3>3
    <3> QED
      BY <3>2, <3>4
  <2>3. NewYear(y) <= Start(y, m)
    BY <1>2, InMonths
  <2> QED
    BY <1>2, <2>1, <2>2, <2>3
<1>4. Start(y, m) <= 47451
  <2>1. 2099 \in Int /\ 12 \in Months /\ Start(2099, 12) = 47451
    BY BeforeTable DEF Start, NewYear, Leap, Months
  <2>2. CASE 12 * y + m < 12 * 2099 + 12
    <3>1. End(y, m) <= Start(2099, 12)
      BY <1>2, <2>1, <2>2, MonthsInOrder
    <3>2. Start(y, m) + 28 <= End(y, m)
      BY <1>2, InMonths
    <3> QED
      BY <1>2, <2>1, <3>1, <3>2
  <2>3. CASE ~(12 * y + m < 12 * 2099 + 12)
    <3>1. y = 2099 /\ m = 12
      BY <2>3 DEF Months, Years, FirstYear, LastYear
    <3> QED
      BY <2>1, <3>1
  <2> QED
    BY <2>2, <2>3
<1> QED
  BY <1>2, <1>3, <1>4

\* A day number that is made from a month is in it, or later.
LEMMA IndexOfDay ==
    ASSUME NEW y \in Years, NEW m \in Months, NEW d \in 1..31
    PROVE  /\ 12 * y + m <= Index(DayNumber(y, m, d))
           /\ d = 1 => Index(DayNumber(y, m, d)) = 12 * y + m
<1>1. DayNumber(y, m, d) = Start(y, m) + d - 1
  BY DayNumbers DEF Years, FirstYear, LastYear
<1>2. y \in Int /\ Start(y, m) \in Int /\ End(y, m) \in Int
  BY InMonths DEF Years, FirstYear, LastYear
<1>3. Start(y, m) \in 0..LastDay /\ DayNumber(y, m, d) \in 0..LastDay
  <2>1. 0 <= Start(y, m) /\ Start(y, m) <= 47451
    BY MonthsInRange
  <2> QED
    BY <1>1, <1>2, <2>1, LastDayIs
<1>4. Index(Start(y, m)) = 12 * y + m
  <2>1. PICK z \in Int, n \in Months :
           /\ z = DateOf(Start(y, m)).year /\ n = DateOf(Start(y, m)).month
           /\ Start(z, n) <= Start(y, m) /\ Start(y, m) < End(z, n)
    BY <1>3, DateOfDay DEF Years, FirstYear, LastYear
  <2>2. /\ Start(z, n) \in Int /\ End(z, n) \in Int
        /\ Start(y, m) + 28 <= End(y, m)
    BY <1>2, InMonths
  <2>3. ~(12 * z + n < 12 * y + m)
    <3> SUFFICES ASSUME 12 * z + n < 12 * y + m
                 PROVE  FALSE
      OBVIOUS
    <3>1. End(z, n) <= Start(y, m)
      BY <1>2, MonthsInOrder
    <3> QED
      BY <1>2, <2>1, <2>2, <3>1
  <2>4. ~(12 * y + m < 12 * z + n)
    <3> SUFFICES ASSUME 12 * y + m < 12 * z + n
                 PROVE  FALSE
      OBVIOUS
    <3>1. End(y, m) <= Start(z, n)
      BY <1>2, MonthsInOrder
    <3> QED
      BY <1>2, <2>1, <2>2, <3>1
  <2> QED
    BY <1>2, <2>1, <2>3, <2>4 DEF Index, Months
<1>5. Index(Start(y, m)) <= Index(DayNumber(y, m, d))
  BY <1>1, <1>2, <1>3, IndexInOrder
<1>6. d = 1 => DayNumber(y, m, d) = Start(y, m)
  BY <1>1, <1>2
<1> QED
  BY <1>4, <1>5, <1>6

-----------------------------------------------------------------------------
(* Elements of finite sets of numbers *)

\* A smaller element has fewer elements before it.
LEMMA Ranked ==
    ASSUME NEW S \in SUBSET Int, IsFiniteSet(S), NEW d \in S, NEW e \in S, d < e
    PROVE  Cardinality({x \in S : x < d}) < Cardinality({x \in S : x < e})
<1>1. IsFiniteSet({x \in S : x < e}) /\ {x \in S : x < d} \in SUBSET {x \in S : x < e}
  <2>1. {x \in S : x < e} \in SUBSET S
    OBVIOUS
  <2>2. \A x \in S : x < d => x < e
    OBVIOUS
  <2> QED
    BY <2>1, <2>2, FS_Subset
<1>2. {x \in S : x < d} # {x \in S : x < e}
  OBVIOUS
<1>3. /\ Cardinality({x \in S : x < d}) \in Nat /\ Cardinality({x \in S : x < e}) \in Nat
  BY FS_Subset, FS_CardinalityType
<1>4. /\ Cardinality({x \in S : x < d}) <= Cardinality({x \in S : x < e})
      /\ Cardinality({x \in S : x < d}) # Cardinality({x \in S : x < e})
  BY <1>1, <1>2, FS_Subset
<1> QED
  BY <1>3, <1>4

\* Every index below the number of elements is that of one of them.
LEMMA Elements ==
    ASSUME NEW S \in SUBSET Int, IsFiniteSet(S), NEW i \in Nat, i < Cardinality(S)
    PROVE  At(S, i) \in S /\ Cardinality({e \in S : e < At(S, i)}) = i
<1> DEFINE rank == [d \in S |-> Cardinality({e \in S : e < d})]
           T == 0..(Cardinality(S) - 1)
<1>1. Cardinality(S) \in Nat
  BY FS_CardinalityType
<1>2. IsFiniteSet(T) /\ Cardinality(T) = Cardinality(S) /\ i \in T
  <2>1. 0 \in Int /\ Cardinality(S) - 1 \in Int /\ ~(0 > Cardinality(S) - 1)
    BY <1>1
  <2>2. IsFiniteSet(T) /\ Cardinality(T) = Cardinality(S) - 1 - 0 + 1
    BY <2>1, FS_Interval
  <2> QED
    BY <1>1, <2>2
<1>3. ASSUME NEW d \in S
      PROVE  Cardinality({e \in S : e < d}) \in T
  <2>1. {e \in S : e < d} \in SUBSET S /\ {e \in S : e < d} # S
    OBVIOUS
  <2>2. Cardinality({e \in S : e < d}) \in Nat
    BY <2>1, FS_Subset, FS_CardinalityType
  <2>3. /\ Cardinality({e \in S : e < d}) <= Cardinality(S)
        /\ Cardinality({e \in S : e < d}) # Cardinality(S)
    BY <2>1, FS_Subset
  <2> QED
    BY <1>1, <2>2, <2>3
<1>4. ASSUME NEW d \in S, NEW e \in S, rank[d] = rank[e]
      PROVE  d = e
  <2>1. ~(d < e)
    <3> SUFFICES ASSUME d < e
                 PROVE  FALSE
      OBVIOUS
    <3>1. Cardinality({x \in S : x < d}) < Cardinality({x \in S : x < e})
      BY Ranked
    <3> QED
      BY <1>1, <1>3, <1>4, <3>1
  <2>2. ~(e < d)
    <3> SUFFICES ASSUME e < d
                 PROVE  FALSE
      OBVIOUS
    <3>1. Cardinality({x \in S : x < e}) < Cardinality({x \in S : x < d})
      BY Ranked
    <3> QED
      BY <1>1, <1>3, <1>4, <3>1
  <2> QED
    BY <2>1, <2>2
<1>5. rank \in Injection(S, T)
  BY <1>3, <1>4 DEF Injection, IsInjective
<1>6. rank \in Surjection(S, T)
  BY <1>2, <1>5, FS_Injection
<1>7. \E d \in S : rank[d] = i
  BY <1>2, <1>6 DEF Surjection
<1>8. \E d \in S : Cardinality({e \in S : e < d}) = i
  BY <1>7
<1> QED
  BY <1>8 DEF At

\* A finite set of numbers has a least element: the one without another before.
LEMMA Least ==
    ASSUME NEW S \in SUBSET Int, IsFiniteSet(S), S # {}
    PROVE  Min(S) \in S /\ \A x \in S : Min(S) <= x
<1>1. Cardinality(S) \in Nat /\ Cardinality(S) # 0
  BY FS_EmptySet, FS_CardinalityType
<1>2. PICK d \in S : Cardinality({e \in S : e < d}) = 0
  <2>1. 0 \in Nat /\ 0 < Cardinality(S)
    BY <1>1
  <2> QED
    BY <2>1, Elements
<1>3. IsFiniteSet({e \in S : e < d})
  BY FS_Subset
<1>4. {e \in S : e < d} = {}
  BY <1>2, <1>3, FS_EmptySet
<1>5. \A x \in S : d <= x
  BY <1>4
<1> QED
  BY <1>5 DEF Min

\* Lists of numbers have a least one.
LEMMA Lists ==
    ASSUME NEW a \in Int, NEW b \in Int, NEW S \in SUBSET (a..b)
    PROVE  /\ S \in SUBSET Int
           /\ IsFiniteSet(S)
           /\ S # {} => Min(S) \in S
<1>1. S \in SUBSET Int
  OBVIOUS
<1>2. IsFiniteSet(S)
  <2>1. IsFiniteSet(a..b)
    BY FS_Interval
  <2> QED
    BY <2>1, FS_Subset
<1>3. S # {} => Min(S) \in S
  BY <1>1, <1>2, Least
<1> QED
  BY <1>1, <1>2, <1>3

LEMMA DayLists ==
    ASSUME NEW S \in SUBSET (1..31)
    PROVE  IsFiniteSet(S) /\ S \in SUBSET Int /\ Cardinality(S) \in 0..31
<1>1. IsFiniteSet(1..31) /\ Cardinality(1..31) = 31 - 1 + 1
  <2>1. 1 \in Int /\ 31 \in Int /\ ~(1 > 31)
    OBVIOUS
  <2> QED
    BY <2>1, FS_Interval
<1>2. IsFiniteSet(S) /\ Cardinality(S) <= Cardinality(1..31)
  BY <1>1, FS_Subset
<1>3. Cardinality(S) \in Nat
  BY <1>2, FS_CardinalityType
<1> QED
  BY <1>1, <1>2, <1>3

-----------------------------------------------------------------------------
(* Wall clocks *)

Sane(z, u) == u \in Int /\ Wall(z, u).number \in 0..LastDay

MonthAt(z, u) == Index(Wall(z, u).number)

Zone == {z \in [at : Int, before : Int, after : Int] : Touched(z) \subseteq 0..LastDay}

\* time.Date finds an instant that shows the reading that it is given, or one
\* of those around the change of the offset.
LEMMA Readings ==
    ASSUME NEW z \in Zone, NEW clock \in Int,
           NEW u \in Int,
           u = IF Offset(z, clock - Offset(z, clock)) = Offset(z, clock)
               THEN clock - Offset(z, clock)
               ELSE clock - Offset(z, clock - Offset(z, clock))
    PROVE  \/ u + Offset(z, u) = clock
           \/ /\ z.at + z.before - Jump(z) <= clock /\ clock <= z.at + z.after + Jump(z)
              /\ z.at + z.before - Jump(z) <= u + Offset(z, u)
              /\ u + Offset(z, u) <= z.at + z.after + Jump(z)
<1>1. z.at \in Int /\ z.before \in Int /\ z.after \in Int
  BY DEF Zone
<1> QED
  BY <1>1 DEF Offset, Jump

LEMMA WallShows ==
    ASSUME NEW z \in Zone, NEW u, Sane(z, u)
    PROVE  /\ Wall(z, u).year \in Years /\ Wall(z, u).month \in Months
           /\ Wall(z, u).day \in 1..31
           /\ Wall(z, u).hour \in 0..23
           /\ Wall(z, u).minute \in 0..59 /\ Wall(z, u).second \in 0..59
           /\ MonthAt(z, u) = 12 * Wall(z, u).year + Wall(z, u).month
<1> DEFINE clock == u + Offset(z, u)
<1>1. clock \in Int
  BY DEF Sane, Offset, Zone
<1>2. /\ Wall(z, u).year = Dates[clock \div 86400].year
      /\ Wall(z, u).month = Dates[clock \div 86400].month
      /\ Wall(z, u).day = Dates[clock \div 86400].day
      /\ Wall(z, u).number = clock \div 86400
  BY DEF Wall
<1>3. /\ Wall(z, u).hour = (clock % 86400) \div 3600
      /\ Wall(z, u).minute = ((clock % 86400) % 3600) \div 60
      /\ Wall(z, u).second = (clock % 86400) % 60
  BY DEF Wall
<1> HIDE DEF clock
<1>4. PICK day \in 0..LastDay : day = clock \div 86400
  BY <1>2 DEF Sane
<1>5. PICK y \in Years, m \in Months :
         /\ y = Dates[day].year /\ m = Dates[day].month
         /\ y = DateOf(day).year /\ m = DateOf(day).month
         /\ Start(y, m) <= day /\ day < End(y, m)
         /\ Dates[day].day = day - Start(y, m) + 1
  BY DateOfDay
<1>6. Dates[day].day \in 1..31
  <2>1. /\ y \in Int /\ day \in Int
        /\ Start(y, m) \in Int /\ End(y, m) \in Int
        /\ DaysIn(y, m) = End(y, m) - Start(y, m)
    BY InMonths, LastDayIs DEF Years, FirstYear, LastYear
  <2>2. DaysIn(y, m) \in 28..31
    BY <2>1, Lengths
  <2> QED
    BY <1>5, <2>1, <2>2
<1>7. /\ Wall(z, u).hour \in 0..23
      /\ Wall(z, u).minute \in 0..59 /\ Wall(z, u).second \in 0..59
  BY <1>1, <1>3
<1>8. MonthAt(z, u) = 12 * y + m
  BY <1>2, <1>4, <1>5 DEF MonthAt, Index
<1> QED
  BY <1>2, <1>4, <1>5, <1>6, <1>7, <1>8

\* An instant that is made from a month is in it, or later.
LEMMA DateFits ==
    ASSUME NEW z \in Zone, Calm(z),
           NEW y \in Years, NEW m \in Months, NEW d \in 1..31,
           NEW h \in 0..23, NEW min \in 0..59, NEW s \in 0..59
    PROVE  /\ Sane(z, Date(z, y, m, d, h, min, s))
           /\ 12 * y + m <= MonthAt(z, Date(z, y, m, d, h, min, s))
<1>1. PICK day \in 0..LastDay : day = DayNumber(y, m, d) /\ 12 * y + m <= Index(day)
  <2>1. DayNumber(y, m, d) \in Int /\ 0 <= DayNumber(y, m, d) /\ DayNumber(y, m, d) <= LastDay
    <3>1. y \in Int /\ DayNumber(y, m, d) = Start(y, m) + d - 1
      BY DayNumbers DEF Years, FirstYear, LastYear
    <3>2. Start(y, m) \in Int /\ 0 <= Start(y, m) /\ Start(y, m) <= 47451
      BY MonthsInRange
    <3> QED
      BY <3>1, <3>2, LastDayIs
  <2>2. 12 * y + m <= Index(DayNumber(y, m, d))
    BY IndexOfDay
  <2> QED
    BY <2>1, <2>2, LastDayIs
<1>2. PICK clock \in Int : clock = ((day * 24 + h) * 60 + min) * 60 + s /\ clock \div 86400 = day
  BY LastDayIs
<1>3. PICK u \in Int :
         /\ u = Date(z, y, m, d, h, min, s)
         /\ u = IF Offset(z, clock - Offset(z, clock)) = Offset(z, clock)
                THEN clock - Offset(z, clock)
                ELSE clock - Offset(z, clock - Offset(z, clock))
  BY <1>1, <1>2 DEF Date, Offset, Zone
<1>4. PICK r \in Int : r = u + Offset(z, u) /\ Wall(z, u).number = r \div 86400
  BY DEF Wall, Offset, Zone
<1>5. CASE r = clock
  BY <1>1, <1>2, <1>3, <1>4, <1>5 DEF Sane, MonthAt
<1>6. CASE r # clock
  <2>1. PICK a \in Int, b \in Int :
           /\ a = z.at + z.before - Jump(z) /\ b = z.at + z.after + Jump(z)
           /\ a <= clock /\ clock <= b /\ a <= r /\ r <= b
    <3>1. z.at \in Int /\ z.before \in Int /\ z.after \in Int /\ Jump(z) \in Int
      BY DEF Zone, Jump
    <3> QED
      BY <1>3, <1>4, <1>6, <3>1, Readings
  <2>2. /\ a \div 86400 \in 0..LastDay /\ b \div 86400 \in 0..LastDay
        /\ Index(a \div 86400) = Index(b \div 86400)
    BY <2>1 DEF Zone, Touched, Calm, Index
  <2>3. /\ a \div 86400 <= clock \div 86400 /\ clock \div 86400 <= b \div 86400
        /\ a \div 86400 <= r \div 86400 /\ r \div 86400 <= b \div 86400
    BY <2>1
  <2>4. r \div 86400 \in 0..LastDay
    BY <2>2, <2>3, LastDayIs
  <2>5. Index(a \div 86400) <= Index(r \div 86400) /\ Index(day) <= Index(b \div 86400)
    BY <1>2, <2>2, <2>3, <2>4, IndexInOrder
  <2>6. /\ Index(day) \in Int /\ Index(a \div 86400) \in Int /\ Index(r \div 86400) \in Int
    BY <2>2, <2>4, IndexInOrder
  <2>7. Index(day) <= Index(r \div 86400)
    BY <2>2, <2>5, <2>6
  <2>8. 12 * y + m \in Int
    BY DEF Months, Years, FirstYear, LastYear
  <2> QED
    BY <1>1, <1>3, <1>4, <2>4, <2>6, <2>7, <2>8 DEF Sane, MonthAt
<1> QED
  BY <1>5, <1>6

-----------------------------------------------------------------------------
(* The list of a month *)

List == [array : SUBSET (1..31), len : 0..31]

LEMMA WorkdayInMonth ==
    ASSUME NEW last \in 28..31, NEW dom \in 1..last, NEW first \in Int
    PROVE  workdayOfMonth(dom, first, last) \in 1..31
<1>1. PICK dow \in Int : dow = Weekday(first + dom - 1)
  BY DEF Weekday
<1>2. workdayOfMonth(dom, first, last) =
         CASE dow = 6 -> IF dom > 1 THEN dom - 1 ELSE dom + 2
           [] dow = 0 -> IF dom < last THEN dom + 1 ELSE dom - 2
           [] OTHER -> dom
  BY <1>1 DEF workdayOfMonth
<1> QED
  BY <1>2

LEMMA DomDaysInMonth ==
    ASSUME NEW e \in Expr, NEW last \in 28..31, NEW first \in Int
    PROVE  DomDays(e.dom, first, last) \in SUBSET (1..31)
<1>1. /\ e.dom.daysOfMonth \in SUBSET (1..31)
      /\ e.dom.workdaysOfMonth \in SUBSET (1..31)
  BY DEF Expr
<1>2. last \in 1..31 /\ last \in 1..last
  OBVIOUS
<1>3. workdayOfMonth(last, first, last) \in 1..31
  BY <1>2, WorkdayInMonth
<1>4. \A v \in e.dom.workdaysOfMonth : v <= last => workdayOfMonth(v, first, last) \in 1..31
  <2> SUFFICES ASSUME NEW v \in e.dom.workdaysOfMonth, v <= last
               PROVE  workdayOfMonth(v, first, last) \in 1..31
    OBVIOUS
  <2>1. v \in 1..last
    BY <1>1
  <2> QED
    BY <2>1, WorkdayInMonth
<1> QED
  BY <1>1, <1>2, <1>3, <1>4 DEF DomDays

LEMMA DowDaysInMonth ==
    ASSUME NEW e \in Expr, NEW last \in 28..31, NEW first \in Int
    PROVE  DowDays(e.dow, first, last) \in SUBSET (1..31)
<1>1. /\ e.dow.daysOfWeek \in SUBSET (0..6)
      /\ e.dow.lastWeekDaysOfWeek \in SUBSET (0..6)
      /\ e.dow.specificWeekDaysOfWeek \in SUBSET (0..34)
  BY DEF Expr
<1>2. PICK offset \in Int : offset = 7 - Weekday(first)
  BY DEF Weekday
<1>3. PICK lastOffset \in Int : lastOffset = 7 - Weekday(first + (last - 6) - 1)
  BY DEF Weekday
<1>4. \A v \in 0..6 : dowNormalizedOffsets((offset + v) % 7, last) \subseteq 1..31
  BY DEF dowNormalizedOffsets
<1>5. \A w \in 0..34 :
         LET v == 1 + 7 * (w \div 7) + ((offset + w) % 7) IN v <= last => v \in 1..31
  OBVIOUS
<1>6. \A v \in 0..6 : (last - 6) + ((lastOffset + v) % 7) \in 1..31
  OBVIOUS
<1> DEFINE every == UNION {dowNormalizedOffsets((offset + v) % 7, last) : v \in e.dow.daysOfWeek}
           nth == {v \in {1 + 7 * (w \div 7) + ((offset + w) % 7) : w \in e.dow.specificWeekDaysOfWeek} : v <= last}
           ending == {(last - 6) + ((lastOffset + v) % 7) : v \in e.dow.lastWeekDaysOfWeek}
<1>7. DowDays(e.dow, first, last) = every \cup nth \cup ending
  BY <1>2, <1>3 DEF DowDays
<1>8. every \subseteq 1..31
  BY <1>1, <1>4
<1>9. nth \subseteq 1..31
  BY <1>1, <1>5
<1>10. ending \subseteq 1..31
  BY <1>1, <1>6
<1> HIDE DEF every, nth, ending
<1> QED
  BY <1>7, <1>8, <1>9, <1>10

LEMMA ListType ==
    ASSUME NEW e \in Expr, NEW y \in Years, NEW m \in Months
    PROVE  calculateActualDaysOfMonth(e, y, m) \in List
<1>1. PICK last \in 28..31 : last = DaysIn(y, m)
  BY Lengths DEF Years, FirstYear, LastYear
<1>2. PICK first \in Int : first = DayNumber(y, m, 1)
  <2>1. y \in Int
    BY DEF Years, FirstYear, LastYear
  <2>2. Start(y, m) \in Int /\ DayNumber(y, m, 1) = Start(y, m) + 1 - 1
    BY <2>1, InMonths, DayNumbers
  <2> QED
    BY <2>2
<1> DEFINE dom == IF e.dom.daysOfMonthRestricted THEN DomDays(e.dom, first, last) ELSE {}
           dow == IF e.dow.daysOfWeekRestricted THEN DowDays(e.dow, first, last) ELSE {}
<1>3. dom \in SUBSET (1..31)
  BY DomDaysInMonth
<1>4. dow \in SUBSET (1..31)
  <2>1. DowDays(e.dow, first, last) \in SUBSET (1..31)
    BY DowDaysInMonth
  <2> QED
    BY <2>1
<1>5. calculateActualDaysOfMonth(e, y, m) \in {AllDays(last), toList(dom \cup dow)}
  BY <1>1, <1>2 DEF calculateActualDaysOfMonth
<1> HIDE DEF dom, dow
<1>6. dom \cup dow \in SUBSET (1..31)
  BY <1>3, <1>4
<1>7. AllDays(last) \in List
  BY DEF AllDays, List
<1>8. toList(dom \cup dow) \in List
  BY <1>6, DayLists DEF toList, List
<1> QED
  BY <1>5, <1>7, <1>8

-----------------------------------------------------------------------------
(* What each of a caller's steps does *)

Places == Ended \cup {"next", "store", "empty", "search", "pick", "first", "month", "year"}

\* The types of a caller's variables
Calls ==
    [pc : Places,
     calls : 0..MaxCalls, from : Int, t : Int, left : SUBSET Words,
     mode : {"check", "first", "day"}, year : Nat, month : 0..12, i : Nat,
     disturbed : BOOLEAN]

\* The month whose days were wanted last
Wants(l) == 12 * l.year + l.month

\* The month of the instant asked for comes before those that are searched, and
\* the candidate lies in the last one searched or after it.
Placed(z, l) ==
    /\ l.pc = "next" => l.t = l.from /\ (l.t = Zero \/ Sane(z, l.t)) /\ Wants(l) = 0
    /\ l.pc \in {"empty", "search", "pick", "month", "year"} \/ (l.pc = "store" /\ l.mode # "first") =>
          /\ Sane(z, l.from) /\ Sane(z, l.t)
          /\ MonthAt(z, l.from) <= MonthAt(z, l.t)
          /\ Wants(l) <= MonthAt(z, l.t)
    /\ l.pc = "first" \/ (l.pc = "store" /\ l.mode = "first") =>
          Sane(z, l.from) /\ MonthAt(z, l.from) < Wants(l)
    /\ l.pc \in {"store", "first"} => l.year \in Years /\ l.month \in Months
    /\ l.pc = "done" => l.t = Zero \/ (Sane(z, l.t) /\ Wants(l) <= MonthAt(z, l.t))

\* A month that is to be searched is later than the one before.
Advances(z, l, k) ==
    k.pc = "store" /\ k.mode = "first" /\ l.pc # "store" =>
        Wants(k) > Wants(l) /\ Wants(k) > MonthAt(z, k.from)

Moves(z, l, k) == k \in Calls /\ Placed(z, k) /\ Advances(z, l, k)

\* A step of one caller leaves the others where they are.
LEMMA OneMoves ==
    ASSUME NEW z, NEW C \in [Caller -> Calls], \A d \in Caller : Placed(z, C[d]),
           NEW c \in Caller, NEW l, Moves(z, C[c], l)
    PROVE  /\ [C EXCEPT ![c] = l] \in [Caller -> Calls]
           /\ \A d \in Caller : Placed(z, [C EXCEPT ![c] = l][d])
           /\ \A d \in Caller : Advances(z, C[d], [C EXCEPT ![c] = l][d])
<1>1. \A d \in Caller : [C EXCEPT ![c] = l][d] = IF d = c THEN l ELSE C[d]
  OBVIOUS
<1>2. \A d \in Caller : Advances(z, C[d], C[d])
  BY DEF Advances
<1> QED
  BY <1>1, <1>2 DEF Moves

LEMMA GotoIs ==
    ASSUME NEW l \in Calls, NEW pc \in Places
    PROVE  /\ Goto(l, pc) \in Calls
           /\ Goto(l, pc).pc = pc /\ Goto(l, pc).from = l.from /\ Goto(l, pc).t = l.t
           /\ Goto(l, pc).mode = l.mode /\ Wants(Goto(l, pc)) = Wants(l)
           /\ Goto(l, pc).year = l.year /\ Goto(l, pc).month = l.month
  BY DEF Goto, Calls, Places, Wants

LEMMA ReturnIs ==
    ASSUME NEW l \in Calls, NEW t \in Int
    PROVE  /\ Return(l, t) \in Calls
           /\ Return(l, t).pc = "done" /\ Return(l, t).t = t /\ Wants(Return(l, t)) = Wants(l)
<1>1. "done" \in Places
  BY DEF Places, Ended
<1> QED
  BY <1>1 DEF Return, Calls, Places, Wants

LEMMA NextDayIs ==
    ASSUME NEW l \in Calls
    PROVE  /\ NextDay(l) \in Calls
           /\ NextDay(l).pc = "search" /\ NextDay(l).from = l.from /\ NextDay(l).t = l.t
           /\ Wants(NextDay(l)) = Wants(l)
<1>1. "search" \in Places
  BY DEF Places
<1> QED
  BY <1>1 DEF NextDay, Calls, Wants

\* An answer that is not before the month that was searched last
LEMMA ReturnMoves ==
    ASSUME NEW z, NEW l \in Calls, NEW t \in Int,
           t = Zero \/ (Sane(z, t) /\ Wants(l) <= MonthAt(z, t))
    PROVE  Moves(z, l, Return(l, t))
<1>1. PICK k \in Calls : k = Return(l, t) /\ k.pc = "done" /\ k.t = t /\ Wants(k) = Wants(l)
  BY ReturnIs
<1>2. Placed(z, k)
  BY <1>1 DEF Placed
<1>3. Advances(z, l, k)
  BY <1>1 DEF Advances
<1> QED
  BY <1>1, <1>2, <1>3 DEF Moves

\* Where the search goes on with the same instant
LEMMA GotoMoves ==
    ASSUME NEW z, NEW l \in Calls, Placed(z, l),
           l.pc \in {"empty", "search", "pick", "month"},
           NEW pc \in {"search", "pick", "month", "year", "wild", "panicked"}
    PROVE  Moves(z, l, Goto(l, pc))
<1>1. pc \in Places
  BY DEF Places, Ended
<1>2. PICK k \in Calls :
         k = Goto(l, pc) /\ k.pc = pc /\ k.from = l.from /\ k.t = l.t /\ Wants(k) = Wants(l)
  BY <1>1, GotoIs
<1>3. Placed(z, k)
  BY <1>2 DEF Placed
<1>4. Advances(z, l, k)
  BY <1>2 DEF Advances
<1> QED
  BY <1>2, <1>3, <1>4 DEF Moves

LEMMA NextDayMoves ==
    ASSUME NEW z, NEW l \in Calls, Placed(z, l), l.pc = "pick"
    PROVE  Moves(z, l, NextDay(l))
<1>1. PICK k \in Calls :
         k = NextDay(l) /\ k.pc = "search" /\ k.from = l.from /\ k.t = l.t /\ Wants(k) = Wants(l)
  BY NextDayIs
<1>2. Placed(z, k)
  BY <1>1 DEF Placed
<1>3. Advances(z, l, k)
  BY <1>1 DEF Advances
<1> QED
  BY <1>1, <1>2, <1>3 DEF Moves

LEMMA EnterMoves ==
    ASSUME NEW z \in Zone, NEW l \in Calls, Placed(z, l), l.pc = "next", l.t # Zero
    PROVE  /\ \A pc \in {"year", "month"} : Moves(z, l, Goto(l, pc))
           /\ Moves(z, l, StoreDaysOf(l, Wall(z, l.t).year, Wall(z, l.t).month, "check"))
<1>1. Sane(z, l.t) /\ l.from = l.t /\ Wants(l) = 0
  BY DEF Placed
<1>2. PICK y \in Years, m \in Months :
         y = Wall(z, l.t).year /\ m = Wall(z, l.t).month /\ MonthAt(z, l.t) = 12 * y + m
  BY <1>1, WallShows
<1>3. MonthAt(z, l.t) \in Int /\ 0 <= MonthAt(z, l.t)
  BY <1>2 DEF Months, Years, FirstYear, LastYear
<1>4. ASSUME NEW pc \in {"year", "month"}
      PROVE  Moves(z, l, Goto(l, pc))
  <2>1. pc \in Places
    BY DEF Places
  <2>2. PICK k \in Calls :
           k = Goto(l, pc) /\ k.pc = pc /\ k.from = l.from /\ k.t = l.t /\ Wants(k) = Wants(l)
    BY <2>1, GotoIs
  <2>3. Placed(z, k)
    BY <1>1, <1>3, <2>2 DEF Placed
  <2>4. Advances(z, l, k)
    BY <2>2 DEF Advances
  <2> QED
    BY <2>2, <2>3, <2>4 DEF Moves
<1>5. Moves(z, l, StoreDaysOf(l, y, m, "check"))
  <2> DEFINE k == StoreDaysOf(l, y, m, "check")
  <2>1. k = [l EXCEPT !.pc = "store", !.left = Words, !.mode = "check", !.year = y, !.month = m]
    BY DEF StoreDaysOf
  <2> HIDE DEF k
  <2>2. /\ k \in Calls /\ k.pc = "store" /\ k.mode = "check" /\ k.year = y /\ k.month = m
        /\ k.from = l.from /\ k.t = l.t
    <3>1. y \in Nat /\ m \in 0..12 /\ "store" \in Places
      BY DEF Months, Years, FirstYear, LastYear, Places
    <3> QED
      BY <2>1, <3>1 DEF Calls
  <2>3. Placed(z, k)
    BY <1>1, <1>2, <1>3, <2>2 DEF Placed, Wants
  <2>4. Advances(z, l, k)
    BY <2>2 DEF Advances
  <2> QED
    BY <2>2, <2>3, <2>4 DEF Moves, k
<1> QED
  BY <1>2, <1>4, <1>5

\* The days of a later month than that of the candidate are wanted next.
LEMMA LaterMoves ==
    ASSUME NEW z, NEW l \in Calls, Placed(z, l), l.pc \in {"month", "year"},
           NEW y \in Years, NEW m \in Months, MonthAt(z, l.t) < 12 * y + m,
           MonthAt(z, l.t) \in Int, MonthAt(z, l.from) \in Int
    PROVE  Moves(z, l, StoreDaysOf(l, y, m, "first"))
<1> DEFINE k == StoreDaysOf(l, y, m, "first")
<1>1. k = [l EXCEPT !.pc = "store", !.left = Words, !.mode = "first", !.year = y, !.month = m]
  BY DEF StoreDaysOf
<1> HIDE DEF k
<1>2. /\ k \in Calls /\ k.pc = "store" /\ k.mode = "first" /\ k.year = y /\ k.month = m
      /\ k.from = l.from /\ k.t = l.t
  <2>1. y \in Nat /\ m \in 0..12 /\ "store" \in Places
    BY DEF Months, Years, FirstYear, LastYear, Places
  <2> QED
    BY <1>1, <2>1 DEF Calls
<1>3. /\ Sane(z, l.from)
      /\ MonthAt(z, l.from) <= MonthAt(z, l.t) /\ Wants(l) <= MonthAt(z, l.t)
  BY DEF Placed
<1>4. Wants(k) \in Int /\ Wants(l) \in Int /\ Wants(k) = 12 * y + m
  BY <1>2 DEF Wants, Calls, Months
<1>5. Wants(k) > Wants(l) /\ Wants(k) > MonthAt(z, k.from)
  BY <1>2, <1>3, <1>4
<1>6. Placed(z, k)
  BY <1>2, <1>3, <1>5 DEF Placed
<1>7. Advances(z, l, k)
  BY <1>5 DEF Advances
<1> QED
  BY <1>2, <1>6, <1>7 DEF Moves, k

-----------------------------------------------------------------------------
(* The functions that make an instant *)

LEMMA SceneType ==
    ASSUME scene \in Scene
    PROVE  expr \in Expr /\ zone \in Zone
  BY SceneAssumption DEF expr, zone, Zone

LEMMA Firsts ==
    ASSUME NEW e \in Expr
    PROVE  /\ Min(e.hourList) \in 0..23 /\ Min(e.minuteList) \in 0..59 /\ Min(e.secondList) \in 0..59
           /\ Min(e.monthList) \in Months
<1>1. /\ e.hourList \in SUBSET (0..23) /\ e.hourList # {}
      /\ e.minuteList \in SUBSET (0..59) /\ e.minuteList # {}
      /\ e.secondList \in SUBSET (0..59) /\ e.secondList # {}
      /\ e.monthList \in SUBSET (1..12) /\ e.monthList # {}
  BY DEF Expr, NonEmpty
<1>2. Min(e.hourList) \in e.hourList
  BY <1>1, Lists
<1>3. Min(e.minuteList) \in e.minuteList
  BY <1>1, Lists
<1>4. Min(e.secondList) \in e.secondList
  BY <1>1, Lists
<1>5. Min(e.monthList) \in e.monthList
  <2>1. 1 \in Int /\ 12 \in Int /\ e.monthList \in SUBSET (1..12) /\ e.monthList # {}
    BY <1>1
  <2> QED
    BY <2>1, Lists
<1> QED
  BY <1>1, <1>2, <1>3, <1>4, <1>5 DEF Months

LEMMA YearsAreNumbers == \A y \in Years : y \in Int
  BY DEF Years, FirstYear, LastYear

LEMMA Afters ==
    ASSUME NEW a \in Int, NEW b \in Int, NEW list \in SUBSET (a..b), NEW v \in Int,
           After(list, v) # {}
    PROVE  Min(After(list, v)) \in list /\ Min(After(list, v)) > v
<1>1. After(list, v) \in SUBSET (a..b)
  BY DEF After
<1>2. Min(After(list, v)) \in After(list, v)
  BY <1>1, Lists
<1> QED
  BY <1>2 DEF After

\* A later instant of the same day
LEMMA SecondFits ==
    ASSUME scene \in Scene, Calm(zone), NEW u \in Int, Sane(zone, u),
           NEW f \in {nextSecond(Wall(zone, u)), nextMinute(Wall(zone, u)), nextHour(Wall(zone, u))}
    PROVE  f = Carry \/ (Sane(zone, f) /\ MonthAt(zone, u) <= MonthAt(zone, f))
<1> DEFINE w == Wall(zone, u)
<1>1. zone \in Zone /\ expr \in Expr
  BY SceneType
<1>2. /\ w.year \in Years /\ w.month \in Months /\ w.day \in 1..31
      /\ w.hour \in 0..23 /\ w.minute \in 0..59 /\ w.second \in 0..59
      /\ MonthAt(zone, u) = 12 * w.year + w.month
  BY <1>1, WallShows
<1>3. /\ expr.hourList \in SUBSET (0..23) /\ expr.minuteList \in SUBSET (0..59)
      /\ expr.secondList \in SUBSET (0..59)
  BY <1>1 DEF Expr, NonEmpty
<1>4. /\ Min(expr.hourList) \in 0..23 /\ Min(expr.minuteList) \in 0..59
      /\ Min(expr.secondList) \in 0..59
  BY <1>1, Firsts
<1> HIDE DEF w
<1>5. ASSUME NEW h \in 0..23, NEW min \in 0..59, NEW s \in 0..59,
             f = Date(zone, w.year, w.month, w.day, h, min, s)
      PROVE  Sane(zone, f) /\ MonthAt(zone, u) <= MonthAt(zone, f)
  <2>1. PICK y \in Years, m \in Months, d \in 1..31 :
           /\ y = w.year /\ m = w.month /\ d = w.day
           /\ MonthAt(zone, u) = 12 * y + m
    BY <1>2
  <2>2. /\ Sane(zone, Date(zone, y, m, d, h, min, s))
        /\ 12 * y + m <= MonthAt(zone, Date(zone, y, m, d, h, min, s))
    BY <1>1, DateFits
  <2>3. f = Date(zone, y, m, d, h, min, s)
    BY <1>5, <2>1
  <2> QED
    BY <2>1, <2>2, <2>3
<1>6. CASE f = nextHour(w)
  <2>1. CASE After(expr.hourList, w.hour) = {}
    BY <1>6, <2>1 DEF nextHour
  <2>2. CASE After(expr.hourList, w.hour) # {}
    <3>1. Min(After(expr.hourList, w.hour)) \in 0..23
      <4>1. 0 \in Int /\ 23 \in Int /\ w.hour \in Int /\ expr.hourList \in SUBSET (0..23)
        BY <1>2, <1>3
      <4>2. Min(After(expr.hourList, w.hour)) \in expr.hourList
        BY <2>2, <4>1, Afters
      <4> QED
        BY <4>1, <4>2
    <3>2. f = Date(zone, w.year, w.month, w.day, Min(After(expr.hourList, w.hour)),
                   Min(expr.minuteList), Min(expr.secondList))
      BY <1>6, <2>2 DEF nextHour
    <3> QED
      BY <1>4, <1>5, <3>1, <3>2
  <2> QED
    BY <2>1, <2>2
<1>7. CASE f = nextMinute(w)
  <2>1. CASE After(expr.minuteList, w.minute) = {}
    BY <1>6, <1>7, <2>1 DEF nextMinute
  <2>2. CASE After(expr.minuteList, w.minute) # {}
    <3>1. Min(After(expr.minuteList, w.minute)) \in 0..59
      <4>1. 0 \in Int /\ 59 \in Int /\ w.minute \in Int /\ expr.minuteList \in SUBSET (0..59)
        BY <1>2, <1>3
      <4>2. Min(After(expr.minuteList, w.minute)) \in expr.minuteList
        BY <2>2, <4>1, Afters
      <4> QED
        BY <4>1, <4>2
    <3>2. f = Date(zone, w.year, w.month, w.day, w.hour, Min(After(expr.minuteList, w.minute)),
                   Min(expr.secondList))
      BY <1>7, <2>2 DEF nextMinute
    <3> QED
      BY <1>2, <1>4, <1>5, <3>1, <3>2
  <2> QED
    BY <2>1, <2>2
<1>8. CASE f = nextSecond(w)
  <2>1. CASE After(expr.secondList, w.second) = {}
    BY <1>7, <1>8, <2>1 DEF nextSecond
  <2>2. CASE After(expr.secondList, w.second) # {}
    <3>1. Min(After(expr.secondList, w.second)) \in 0..59
      <4>1. 0 \in Int /\ 59 \in Int /\ w.second \in Int /\ expr.secondList \in SUBSET (0..59)
        BY <1>2, <1>3
      <4>2. Min(After(expr.secondList, w.second)) \in expr.secondList
        BY <2>2, <4>1, Afters
      <4> QED
        BY <4>1, <4>2
    <3>2. f = Date(zone, w.year, w.month, w.day, w.hour, w.minute,
                   Min(After(expr.secondList, w.second)))
      BY <1>8, <2>2 DEF nextSecond
    <3> QED
      BY <1>2, <1>5, <3>1, <3>2
  <2> QED
    BY <2>1, <2>2
<1> QED
  BY <1>6, <1>7, <1>8 DEF w

LEMMA WithinDayFits ==
    ASSUME scene \in Scene, Calm(zone), NEW u \in Int, Sane(zone, u),
           NEW f, f = WithinDay(Wall(zone, u))
    PROVE  f = Carry \/ (Sane(zone, f) /\ MonthAt(zone, u) <= MonthAt(zone, f))
<1>1. f \in {nextSecond(Wall(zone, u)), nextMinute(Wall(zone, u)), nextHour(Wall(zone, u))}
  BY DEF WithinDay
<1> QED
  BY <1>1, SecondFits

\* The first instant of a day
LEMMA DayFits ==
    ASSUME scene \in Scene, Calm(zone), NEW y \in Years, NEW m \in Months, NEW d \in 1..31
    PROVE  /\ Sane(zone, DateAt(y, m, d))
           /\ 12 * y + m <= MonthAt(zone, DateAt(y, m, d))
<1>1. zone \in Zone /\ expr \in Expr
  BY SceneType
<1>2. PICK h \in 0..23, min \in 0..59, s \in 0..59 :
         h = Min(expr.hourList) /\ min = Min(expr.minuteList) /\ s = Min(expr.secondList)
  BY <1>1, Firsts
<1>3. DateAt(y, m, d) = Date(zone, y, m, d, h, min, s)
  BY <1>2 DEF DateAt
<1> QED
  BY <1>1, <1>3, DateFits

-----------------------------------------------------------------------------
(* Every action *)

Inv ==
    /\ scene \in Scene
    /\ actualDaysOfMonthList \in List
    /\ call \in [Caller -> Calls]
    /\ \A c \in Caller : Placed(zone, call[c])

AllAdvance == \A d \in Caller : Advances(zone, call[d], call'[d])

LEMMA Steps ==
    ASSUME Inv, NEW c \in Caller, NEW l, Moves(zone, call[c], l),
           call' = [call EXCEPT ![c] = l], UNCHANGED <<scene, actualDaysOfMonthList>>
    PROVE  Inv' /\ AllAdvance
<1>1. /\ [call EXCEPT ![c] = l] \in [Caller -> Calls]
      /\ \A d \in Caller : Placed(zone, [call EXCEPT ![c] = l][d])
      /\ \A d \in Caller : Advances(zone, call[d], [call EXCEPT ![c] = l][d])
  BY OneMoves DEF Inv
<1>2. scene' \in Scene /\ actualDaysOfMonthList' \in List /\ zone' = zone
  BY DEF Inv, zone
<1>3. call' \in [Caller -> Calls] /\ \A d \in Caller : Placed(zone, call'[d])
  BY <1>1
<1>4. \A d \in Caller : Advances(zone, call[d], call'[d])
  BY <1>1
<1> QED
  BY <1>2, <1>3, <1>4 DEF Inv, AllAdvance

LEMMA Searching ==
    ASSUME Inv, NEW c \in Caller,
           call[c].pc \in {"empty", "search", "pick", "month", "year"}
    PROVE  /\ call[c] \in Calls /\ Placed(zone, call[c]) /\ zone \in Zone /\ expr \in Expr
           /\ call[c].from \in Int /\ Sane(zone, call[c].from)
           /\ call[c].t \in Int /\ Sane(zone, call[c].t)
           /\ Wants(call[c]) <= MonthAt(zone, call[c].t)
           /\ MonthAt(zone, call[c].from) \in Int /\ MonthAt(zone, call[c].t) \in Int
<1>1. /\ call[c] \in Calls /\ Placed(zone, call[c]) /\ zone \in Zone /\ expr \in Expr
  BY SceneType DEF Inv
<1>2. /\ Sane(zone, call[c].from) /\ Sane(zone, call[c].t)
      /\ Wants(call[c]) <= MonthAt(zone, call[c].t)
  BY <1>1 DEF Placed
<1>3. \A u : Sane(zone, u) => u \in Int /\ MonthAt(zone, u) \in Int
  <2> SUFFICES ASSUME NEW u, Sane(zone, u)
               PROVE  u \in Int /\ MonthAt(zone, u) \in Int
    OBVIOUS
  <2>1. Wall(zone, u).number \in 0..LastDay
    BY DEF Sane
  <2> QED
    BY <2>1, IndexInOrder, LastDayIs DEF Sane, MonthAt
<1> QED
  BY <1>1, <1>2, <1>3

LEMMA EnterKeeps ==
    ASSUME Inv, NEW c \in Caller, Enter(c)
    PROVE  Inv' /\ AllAdvance
<1> DEFINE l == call[c]
           w == Wall(zone, l.t)
<1>1. l \in Calls /\ Placed(zone, l) /\ zone \in Zone
  BY SceneType DEF Inv
<1>2. PICK k :
         /\ l.pc = "next"
         /\ call' = [call EXCEPT ![c] = k] /\ UNCHANGED <<scene, actualDaysOfMonthList>>
         /\ \/ l.t = Zero /\ k = Return(l, Zero)
            \/ l.t # Zero /\ k \in {Goto(l, "year"), Goto(l, "month"),
                                    StoreDaysOf(l, w.year, w.month, "check")}
  BY DEF Enter, Step
<1>3. CASE l.t = Zero /\ k = Return(l, Zero)
  <2>1. Zero \in Int
    BY DEF Zero
  <2>2. Moves(zone, l, Return(l, Zero))
    BY <1>1, <2>1, ReturnMoves
  <2> QED
    BY <1>2, <1>3, <2>2, Steps
<1>4. CASE l.t # Zero /\ k \in {Goto(l, "year"), Goto(l, "month"),
                                StoreDaysOf(l, w.year, w.month, "check")}
  <2>1. /\ \A pc \in {"year", "month"} : Moves(zone, l, Goto(l, pc))
        /\ Moves(zone, l, StoreDaysOf(l, w.year, w.month, "check"))
    BY <1>1, <1>2, <1>4, EnterMoves
  <2>2. Moves(zone, l, k)
    BY <1>4, <2>1
  <2> QED
    BY <1>2, <2>2, Steps
<1> QED
  BY <1>2, <1>3, <1>4

LEMMA TestEmptyKeeps ==
    ASSUME Inv, NEW c \in Caller, TestEmpty(c)
    PROVE  Inv' /\ AllAdvance
<1>1. PICK pc \in {"month", "search"} :
         /\ call[c].pc = "empty"
         /\ call' = [call EXCEPT ![c] = Goto(call[c], pc)]
         /\ UNCHANGED <<scene, actualDaysOfMonthList>>
  BY DEF TestEmpty, Step
<1>2. Moves(zone, call[c], Goto(call[c], pc))
  BY <1>1, Searching, GotoMoves
<1> QED
  BY <1>1, <1>2, Steps

LEMMA SearchKeeps ==
    ASSUME Inv, NEW c \in Caller, Search(c)
    PROVE  Inv' /\ AllAdvance
<1> DEFINE l == call[c]
           days == actualDaysOfMonthList
           before == Cardinality({d \in days.array : d < Wanted(l)})
<1>1. /\ l.pc = "search" /\ UNCHANGED <<scene, actualDaysOfMonthList>>
      /\ \/ call' = [call EXCEPT ![c] = Goto(l, "wild")]
         \/ call' = [call EXCEPT ![c] = [l EXCEPT !.pc = "pick", !.i = SearchInts(l)]]
  BY DEF Search, Step
<1>2. /\ l \in Calls /\ Placed(zone, l) /\ days \in List
  BY <1>1, Searching DEF Inv
<1>3. CASE call' = [call EXCEPT ![c] = Goto(l, "wild")]
  <2>1. Moves(zone, l, Goto(l, "wild"))
    BY <1>1, <1>2, GotoMoves
  <2> QED
    BY <1>1, <1>3, <2>1, Steps
<1>4. CASE call' = [call EXCEPT ![c] = [l EXCEPT !.pc = "pick", !.i = SearchInts(l)]]
  <2>1. SearchInts(l) \in Nat
    <3>1. {d \in days.array : d < Wanted(l)} \in SUBSET (1..31)
      BY <1>2 DEF List
    <3>2. before \in 0..31 /\ days.len \in 0..31
      BY <1>2, <3>1, DayLists DEF List
    <3>3. PICK S \in SUBSET (0..31) : S = {days.len, before} /\ S # {}
      BY <3>2
    <3>4. 0 \in Int /\ 31 \in Int
      OBVIOUS
    <3>5. Min(S) \in S
      BY <3>3, <3>4, Lists
    <3> QED
      BY <3>3, <3>5 DEF SearchInts
  <2> DEFINE k == [l EXCEPT !.pc = "pick", !.i = SearchInts(l)]
  <2>2. "pick" \in Places
    BY DEF Places
  <2>3. /\ k \in Calls /\ k.pc = "pick" /\ k.from = l.from /\ k.t = l.t
        /\ k.year = l.year /\ k.month = l.month
    BY <1>2, <2>1, <2>2 DEF Calls
  <2> HIDE DEF k
  <2>4. Placed(zone, k)
    BY <1>1, <1>2, <2>3 DEF Placed, Wants
  <2>5. Advances(zone, l, k)
    BY <2>3 DEF Advances
  <2>6. Moves(zone, l, k)
    BY <2>3, <2>4, <2>5 DEF Moves
  <2> QED
    BY <1>1, <1>4, <2>6, Steps DEF k
<1> QED
  BY <1>1, <1>3, <1>4

LEMMA PickKeeps ==
    ASSUME Inv, Calm(zone), NEW c \in Caller, Pick(c)
    PROVE  Inv' /\ AllAdvance
<1> DEFINE l == call[c]
           w == Wall(zone, l.t)
           days == actualDaysOfMonthList
           day == At(days.array, l.i)
<1>1. PICK k :
         /\ l.pc = "pick" /\ call' = [call EXCEPT ![c] = k]
         /\ UNCHANGED <<scene, actualDaysOfMonthList>>
         /\ \/ k \in {Goto(l, "month"), Goto(l, "panicked"), Goto(l, "wild"), NextDay(l)}
            \/ l.i < days.len /\ ~Torn /\ k = Return(l, DateAt(w.year, w.month, day))
            \/ k = Return(l, WithinDay(w)) /\ WithinDay(w) # Carry
  <2>1. l.i \in Nat /\ days.len \in Int
    BY DEF Inv, Calls, List
  <2> DEFINE k == CASE l.i = days.len -> Goto(l, "month")
                    [] l.i > days.len -> Goto(l, "panicked")
                    [] l.i < days.len /\ Torn -> Goto(l, "wild")
                    [] OTHER -> IF l.mode = "day" THEN Return(l, DateAt(w.year, w.month, day))
                                ELSE IF day # w.day THEN NextDay(l)
                                ELSE ReturnOrCarry(l, WithinDay(w))
  <2>2. /\ l.pc = "pick" /\ call' = [call EXCEPT ![c] = k]
        /\ UNCHANGED <<scene, actualDaysOfMonthList>>
    BY DEF Pick, Step
  <2>3. \/ k \in {Goto(l, "month"), Goto(l, "panicked"), Goto(l, "wild"), NextDay(l)}
        \/ l.i < days.len /\ ~Torn /\ k = Return(l, DateAt(w.year, w.month, day))
        \/ k = Return(l, WithinDay(w)) /\ WithinDay(w) # Carry
    BY <2>1 DEF ReturnOrCarry
  <2> QED
    BY <2>2, <2>3
<1>2. /\ l \in Calls /\ Placed(zone, l) /\ zone \in Zone
      /\ l.t \in Int /\ Sane(zone, l.t) /\ Sane(zone, l.from)
      /\ Wants(l) <= MonthAt(zone, l.t) /\ MonthAt(zone, l.t) \in Int
  BY <1>1, Searching
<1>3. scene \in Scene /\ days \in List
  BY DEF Inv
<1>4. Wants(l) \in Int
  BY <1>2 DEF Wants, Calls
<1>5. /\ w.year \in Years /\ w.month \in Months
      /\ MonthAt(zone, l.t) = 12 * w.year + w.month
  BY <1>2, WallShows
<1>6. ASSUME NEW t, Sane(zone, t), MonthAt(zone, l.t) <= MonthAt(zone, t)
      PROVE  Moves(zone, l, Return(l, t))
  <2>1. t \in Int /\ MonthAt(zone, t) \in Int
    BY <1>6, IndexInOrder, LastDayIs DEF Sane, MonthAt
  <2>2. Wants(l) <= MonthAt(zone, t)
    BY <1>2, <1>4, <1>6, <2>1
  <2> QED
    BY <1>2, <1>6, <2>1, <2>2, ReturnMoves
<1>7. CASE k \in {Goto(l, "month"), Goto(l, "panicked"), Goto(l, "wild"), NextDay(l)}
  <2>1. /\ Moves(zone, l, Goto(l, "month"))
        /\ Moves(zone, l, Goto(l, "panicked"))
        /\ Moves(zone, l, Goto(l, "wild"))
    BY <1>1, <1>2, GotoMoves
  <2>2. Moves(zone, l, NextDay(l))
    BY <1>1, <1>2, NextDayMoves
  <2>3. Moves(zone, l, k)
    BY <1>7, <2>1, <2>2
  <2> QED
    BY <1>1, <2>3, Steps
<1>8. CASE l.i < days.len /\ ~Torn /\ k = Return(l, DateAt(w.year, w.month, day))
  <2>1. day \in 1..31
    <3>1. /\ days.array \in SUBSET (1..31) /\ days.array \in SUBSET Int /\ IsFiniteSet(days.array)
          /\ Cardinality(days.array) \in Int
      BY <1>3, DayLists DEF List
    <3>2. l.i \in Nat /\ l.i < Cardinality(days.array)
      BY <1>2, <1>3, <1>8, <3>1 DEF Torn, Calls, List
    <3>3. day \in days.array
      BY <3>1, <3>2, Elements
    <3> QED
      BY <3>1, <3>3
  <2>2. /\ Sane(zone, DateAt(w.year, w.month, day))
        /\ MonthAt(zone, l.t) <= MonthAt(zone, DateAt(w.year, w.month, day))
    BY <1>3, <1>5, <2>1, DayFits
  <2>3. Moves(zone, l, k)
    BY <1>6, <1>8, <2>2
  <2> QED
    BY <1>1, <2>3, Steps
<1>9. CASE k = Return(l, WithinDay(w)) /\ WithinDay(w) # Carry
  <2>1. Sane(zone, WithinDay(w)) /\ MonthAt(zone, l.t) <= MonthAt(zone, WithinDay(w))
    BY <1>2, <1>3, <1>9, WithinDayFits
  <2>2. Moves(zone, l, k)
    BY <1>6, <1>9, <2>1
  <2> QED
    BY <1>1, <2>2, Steps
<1> QED
  BY <1>1, <1>7, <1>8, <1>9

LEMMA FirstKeeps ==
    ASSUME Inv, Calm(zone), NEW c \in Caller, First(c)
    PROVE  Inv' /\ AllAdvance
<1> DEFINE l == call[c]
           days == actualDaysOfMonthList
           next == [l EXCEPT !.pc = "month", !.t = DateAt(l.year, l.month, 1)]
<1>1. PICK k :
         /\ l.pc = "first" /\ call' = [call EXCEPT ![c] = k]
         /\ UNCHANGED <<scene, actualDaysOfMonthList>>
         /\ \/ k = next
            \/ k = Goto(l, "wild")
            \/ days.array # {} /\ k = Return(l, DateAt(l.year, l.month, At(days.array, 0)))
  <2>1. days.len \in 0..31
    BY DEF Inv, List
  <2> QED
    BY <2>1 DEF First, Step
<1>2. /\ l \in Calls /\ Placed(zone, l) /\ zone \in Zone /\ scene \in Scene /\ days \in List
  BY SceneType DEF Inv
<1>3. /\ l.year \in Years /\ l.month \in Months
      /\ Sane(zone, l.from) /\ MonthAt(zone, l.from) < Wants(l)
  BY <1>1, <1>2 DEF Placed
<1>4. Wants(l) = 12 * l.year + l.month /\ Wants(l) \in Int
  BY <1>2 DEF Wants, Calls
<1>5. ASSUME NEW d \in 1..31
      PROVE  /\ Sane(zone, DateAt(l.year, l.month, d)) /\ DateAt(l.year, l.month, d) \in Int
             /\ Wants(l) <= MonthAt(zone, DateAt(l.year, l.month, d))
  BY <1>2, <1>3, <1>4, DayFits DEF Sane
<1>6. CASE k = next
  <2>1. PICK t \in Int :
           t = DateAt(l.year, l.month, 1) /\ Sane(zone, t) /\ Wants(l) <= MonthAt(zone, t)
    <3>1. 1 \in 1..31
      OBVIOUS
    <3>2. /\ Sane(zone, DateAt(l.year, l.month, 1)) /\ DateAt(l.year, l.month, 1) \in Int
          /\ Wants(l) <= MonthAt(zone, DateAt(l.year, l.month, 1))
      BY <1>5, <3>1
    <3> QED
      BY <3>2
  <2>2. "month" \in Places
    BY DEF Places
  <2>3. /\ k \in Calls /\ k.pc = "month" /\ k.from = l.from /\ k.t = t
        /\ k.year = l.year /\ k.month = l.month
    BY <1>2, <1>6, <2>1, <2>2 DEF Calls
  <2>4. Wants(k) = Wants(l)
    BY <2>3 DEF Wants
  <2>5. MonthAt(zone, l.from) <= MonthAt(zone, t)
    <3>1. MonthAt(zone, t) \in Int /\ MonthAt(zone, l.from) \in Int
      BY <1>3, <2>1, IndexInOrder, LastDayIs DEF Sane, MonthAt
    <3> QED
      BY <1>3, <1>4, <2>1, <3>1
  <2>6. Placed(zone, k)
    BY <1>3, <2>1, <2>3, <2>4, <2>5 DEF Placed
  <2>7. Advances(zone, l, k)
    BY <2>3 DEF Advances
  <2>8. Moves(zone, l, k)
    BY <2>3, <2>6, <2>7 DEF Moves
  <2> QED
    BY <1>1, <2>8, Steps
<1>7. CASE k = Goto(l, "wild")
  <2>1. "wild" \in Places
    BY DEF Places, Ended
  <2>2. k \in Calls /\ k.pc = "wild"
    BY <1>2, <1>7, <2>1, GotoIs
  <2>3. Placed(zone, k)
    BY <2>2 DEF Placed
  <2>4. Moves(zone, l, k)
    BY <2>2, <2>3 DEF Moves, Advances
  <2> QED
    BY <1>1, <2>4, Steps
<1>8. CASE days.array # {} /\ k = Return(l, DateAt(l.year, l.month, At(days.array, 0)))
  <2>1. At(days.array, 0) \in 1..31
    <3>1. /\ days.array \in SUBSET (1..31) /\ days.array \in SUBSET Int /\ IsFiniteSet(days.array)
          /\ Cardinality(days.array) \in 0..31
      BY <1>2, DayLists DEF List
    <3>2. 0 \in Nat /\ 0 < Cardinality(days.array)
      BY <1>8, <3>1, FS_EmptySet
    <3>3. At(days.array, 0) \in days.array
      BY <3>1, <3>2, Elements
    <3> QED
      BY <3>1, <3>3
  <2>2. PICK t \in Int :
           /\ t = DateAt(l.year, l.month, At(days.array, 0))
           /\ Sane(zone, t) /\ Wants(l) <= MonthAt(zone, t)
    BY <1>5, <2>1
  <2>3. Moves(zone, l, k)
    BY <1>2, <1>8, <2>2, ReturnMoves
  <2> QED
    BY <1>1, <2>3, Steps
<1> QED
  BY <1>1, <1>6, <1>7, <1>8

LEMMA nextMonthKeeps ==
    ASSUME Inv, NEW c \in Caller, nextMonth(c)
    PROVE  Inv' /\ AllAdvance
<1> DEFINE l == call[c]
           w == Wall(zone, l.t)
           later == After(expr.monthList, w.month)
<1>1. PICK k :
         /\ l.pc = "month" /\ call' = [call EXCEPT ![c] = k]
         /\ UNCHANGED <<scene, actualDaysOfMonthList>>
         /\ \/ k = Goto(l, "year")
            \/ later # {} /\ k = StoreDaysOf(l, w.year, Min(later), "first")
  BY DEF nextMonth, Step
<1>2. /\ l \in Calls /\ Placed(zone, l) /\ zone \in Zone /\ expr \in Expr
      /\ l.t \in Int /\ Sane(zone, l.t)
      /\ MonthAt(zone, l.from) \in Int /\ MonthAt(zone, l.t) \in Int
  BY <1>1, Searching
<1>3. CASE k = Goto(l, "year")
  <2>1. Moves(zone, l, k)
    BY <1>1, <1>2, <1>3, GotoMoves
  <2> QED
    BY <1>1, <2>1, Steps
<1>4. CASE later # {} /\ k = StoreDaysOf(l, w.year, Min(later), "first")
  <2>1. /\ w.year \in Years /\ w.month \in Months
        /\ MonthAt(zone, l.t) = 12 * w.year + w.month
    BY <1>2, WallShows
  <2>2. 1 \in Int /\ 12 \in Int /\ w.month \in Int /\ expr.monthList \in SUBSET (1..12)
    BY <1>2, <2>1 DEF Expr, NonEmpty, Months
  <2>3. Min(later) \in expr.monthList /\ Min(later) > w.month
    BY <1>4, <2>2, Afters
  <2>4. Min(later) \in Months
    BY <2>2, <2>3 DEF Months
  <2>5. MonthAt(zone, l.t) < 12 * w.year + Min(later)
    <3>1. PICK y \in Int, m \in Int : y = w.year /\ m = w.month
      BY <2>1, YearsAreNumbers DEF Months
    <3>2. PICK n \in Int : n = Min(later) /\ n > m
      BY <2>3, <2>4, <3>1 DEF Months
    <3>3. 12 * y + m < 12 * y + n
      BY <3>2
    <3> QED
      BY <2>1, <3>1, <3>2, <3>3
  <2>6. Moves(zone, l, k)
    BY <1>1, <1>2, <1>4, <2>1, <2>4, <2>5, LaterMoves
  <2> QED
    BY <1>1, <2>6, Steps
<1> QED
  BY <1>1, <1>3, <1>4

LEMMA nextYearKeeps ==
    ASSUME Inv, NEW c \in Caller, nextYear(c)
    PROVE  Inv' /\ AllAdvance
<1> DEFINE l == call[c]
           w == Wall(zone, l.t)
           later == After(expr.yearList, w.year)
           first == Min(expr.monthList)
<1>1. PICK k :
         /\ l.pc = "year" /\ call' = [call EXCEPT ![c] = k]
         /\ UNCHANGED <<scene, actualDaysOfMonthList>>
         /\ \/ k = Return(l, Zero)
            \/ later # {} /\ k = StoreDaysOf(l, Min(later), first, "first")
  BY DEF nextYear, Step
<1>2. /\ l \in Calls /\ Placed(zone, l) /\ zone \in Zone /\ expr \in Expr
      /\ l.t \in Int /\ Sane(zone, l.t)
      /\ MonthAt(zone, l.from) \in Int /\ MonthAt(zone, l.t) \in Int
  BY <1>1, Searching
<1>3. CASE k = Return(l, Zero)
  <2>1. Zero \in Int
    BY DEF Zero
  <2>2. Moves(zone, l, k)
    BY <1>2, <1>3, <2>1, ReturnMoves
  <2> QED
    BY <1>1, <2>2, Steps
<1>4. CASE later # {} /\ k = StoreDaysOf(l, Min(later), first, "first")
  <2>1. /\ w.year \in Years /\ w.month \in Months
        /\ MonthAt(zone, l.t) = 12 * w.year + w.month
    BY <1>2, WallShows
  <2>2. expr.yearList \in SUBSET Years /\ w.year \in Int
    BY <1>2, <2>1 DEF Expr, NonEmpty, Years, FirstYear, LastYear
  <2>3. Min(later) \in expr.yearList /\ Min(later) > w.year
    <3>1. FirstYear \in Int /\ LastYear \in Int
      BY DEF FirstYear, LastYear
    <3>2. expr.yearList \in SUBSET (FirstYear..LastYear)
      BY <2>2 DEF Years
    <3> QED
      BY <1>4, <2>2, <3>1, <3>2, Afters
  <2>4. Min(later) \in Years /\ first \in Months
    BY <1>2, <2>2, <2>3, Firsts
  <2>5. MonthAt(zone, l.t) < 12 * Min(later) + first
    <3>1. PICK y \in Int, m \in 1..12 : y = w.year /\ m = w.month
      BY <2>1, YearsAreNumbers DEF Months
    <3>2. PICK z \in Int, n \in 1..12 : z = Min(later) /\ n = first
      BY <2>4, YearsAreNumbers DEF Months
    <3>3. y < z
      BY <2>3, <3>1, <3>2
    <3>4. 12 * y + m < 12 * z + n
      BY <3>3
    <3> QED
      BY <2>1, <3>1, <3>2, <3>4
  <2>6. Moves(zone, l, k)
    BY <1>1, <1>2, <1>4, <2>4, <2>5, LaterMoves
  <2> QED
    BY <1>1, <2>6, Steps
<1> QED
  BY <1>1, <1>3, <1>4

LEMMA StoreKeeps ==
    ASSUME Inv, NEW c \in Caller, NEW word \in Words, StoreWord(c, word)
    PROVE  Inv' /\ AllAdvance
<1> DEFINE l == call[c]
           left == l.left \ {word}
           pc == IF left # {} THEN "store" ELSE IF l.mode = "first" THEN "first" ELSE "empty"
           k == [l EXCEPT !.left = left, !.pc = pc]
<1>1. /\ l.pc = "store"
      /\ actualDaysOfMonthList' = [actualDaysOfMonthList EXCEPT ![word] = ListOf(l)[word]]
      /\ call' = [d \in Caller |-> IF d = c THEN k
                                   ELSE [call[d] EXCEPT !.disturbed = @ \/ Disturbs(c, d)]]
      /\ UNCHANGED scene
  BY DEF StoreWord
<1>2. /\ scene \in Scene /\ actualDaysOfMonthList \in List /\ call \in [Caller -> Calls]
      /\ \A d \in Caller : Placed(zone, call[d])
      /\ expr \in Expr /\ zone \in Zone
  BY SceneType DEF Inv
<1>3. zone' = zone /\ scene' \in Scene
  BY <1>1, <1>2 DEF zone
<1>4. actualDaysOfMonthList' \in List
  <2>1. l.year \in Years /\ l.month \in Months
    BY <1>1, <1>2 DEF Placed
  <2>2. ListOf(l) \in List
    BY <1>2, <2>1, ListType DEF ListOf
  <2> QED
    BY <1>1, <1>2, <2>2 DEF List, Words
<1>5. Moves(zone, l, k)
  <2>1. l \in Calls /\ Placed(zone, l)
    BY <1>2
  <2>2. pc \in {"store", "first", "empty"} /\ pc \in Places
    BY DEF Places
  <2>3. pc = "first" => l.mode = "first"
    OBVIOUS
  <2>4. pc = "empty" => l.mode # "first"
    OBVIOUS
  <2>5. left \in SUBSET Words
    BY <2>1 DEF Calls
  <2> HIDE DEF left, pc
  <2>6. /\ k \in Calls /\ k.pc = pc /\ k.from = l.from /\ k.t = l.t /\ k.mode = l.mode
        /\ k.year = l.year /\ k.month = l.month
    BY <2>1, <2>2, <2>5 DEF Calls
  <2> HIDE DEF k
  <2>7. Wants(k) = Wants(l)
    BY <2>6 DEF Wants
  <2>8. Placed(zone, k)
    BY <1>1, <2>1, <2>2, <2>3, <2>4, <2>6, <2>7 DEF Placed
  <2>9. Advances(zone, l, k)
    BY <1>1 DEF Advances
  <2> QED
    BY <2>6, <2>8, <2>9 DEF Moves
<1>6. ASSUME NEW d \in Caller, d # c
      PROVE  Moves(zone, call[d], [call[d] EXCEPT !.disturbed = @ \/ Disturbs(c, d)])
  <2>1. call[d] \in Calls /\ Placed(zone, call[d])
    BY <1>2
  <2> DEFINE disturbed == call[d].disturbed \/ Disturbs(c, d)
             n == [call[d] EXCEPT !.disturbed = disturbed]
  <2>2. disturbed \in BOOLEAN
    OBVIOUS
  <2> HIDE DEF disturbed
  <2>3. /\ n \in Calls /\ n.pc = call[d].pc /\ n.from = call[d].from /\ n.t = call[d].t
        /\ n.mode = call[d].mode /\ n.year = call[d].year /\ n.month = call[d].month
    BY <2>1, <2>2 DEF Calls
  <2> HIDE DEF n
  <2>4. Wants(n) = Wants(call[d])
    BY <2>3 DEF Wants
  <2>5. Placed(zone, n)
    BY <2>1, <2>3, <2>4 DEF Placed
  <2>6. Moves(zone, call[d], n)
    BY <2>3, <2>5 DEF Moves, Advances
  <2> QED
    BY <2>6 DEF n, disturbed
<1> HIDE DEF k
<1>7. \A d \in Caller : Moves(zone, call[d], call'[d])
  BY <1>1, <1>5, <1>6
<1>8. call' \in [Caller -> Calls]
  BY <1>1, <1>5, <1>6 DEF Moves
<1> QED
  BY <1>3, <1>4, <1>7, <1>8 DEF Inv, AllAdvance, Moves

LEMMA CallKeeps ==
    ASSUME Inv, NEW c \in Caller, NEW from, Call(c, from),
           from = Zero \/ Sane(zone, from)
    PROVE  Inv' /\ AllAdvance
<1> DEFINE l == call[c]
           k == [l EXCEPT !.pc = "next", !.calls = l.calls + 1, !.from = from, !.t = from,
                          !.year = 0, !.month = 0, !.disturbed = FALSE]
<1>1. /\ l.calls < MaxCalls
      /\ call' = [call EXCEPT ![c] = k] /\ UNCHANGED <<scene, actualDaysOfMonthList>>
  BY DEF Call, Ready
<1>2. l \in Calls /\ from \in Int /\ "next" \in Places /\ l.calls + 1 \in 0..MaxCalls
  BY <1>1, BoundAssumption DEF Inv, Calls, Sane, Zero, Places
<1>3. /\ k \in Calls /\ k.pc = "next" /\ k.from = from /\ k.t = from
      /\ k.year = 0 /\ k.month = 0
  <2>1. 0 \in Nat /\ 0 \in 0..12
    OBVIOUS
  <2>2. k \in Calls
    BY <1>2, <2>1 DEF Calls
  <2> QED
    BY <1>2, <2>2 DEF Calls
<1> HIDE DEF k
<1>4. Placed(zone, k)
  BY <1>3 DEF Placed, Wants
<1>5. Moves(zone, l, k)
  BY <1>3, <1>4 DEF Moves, Advances
<1> QED
  BY <1>1, <1>5, Steps

LEMMA AnswerSane ==
    ASSUME Inv, NEW c \in Caller, call[c].pc = "done"
    PROVE  call[c].t = Zero \/ (Sane(zone, call[c].t) /\ Wants(call[c]) <= MonthAt(zone, call[c].t))
  BY DEF Inv, Placed

LEMMA StartSane ==
    ASSUME scene \in Scene, NEW u \in scene.starts
    PROVE  Sane(zone, u)
  BY SceneAssumption DEF Sane, zone

LEMMA NextNKeeps ==
    ASSUME Inv, Calm(zone), NextN
    PROVE  Inv' /\ AllAdvance
<1> DEFINE l == call["cli"]
<1>0. "cli" \in Caller /\ scene \in Scene
  BY DEF Caller, Inv
<1>1. CASE \E from \in scene.starts : Call("cli", from)
  BY <1>0, <1>1, StartSane, CallKeeps
<1>2. CASE ~(\E from \in scene.starts : Call("cli", from))
  <2> DEFINE m == [l EXCEPT !.calls = @ + 1, !.from = l.t]
             f == nextSecond(Wall(zone, l.t))
  <2>1. /\ l.pc = "done" /\ l.t # Zero /\ l.calls < MaxCalls
        /\ call' = [call EXCEPT !["cli"] = ReturnOrCarry(m, f)]
        /\ UNCHANGED <<scene, actualDaysOfMonthList>>
    BY <1>2 DEF NextN, Step, Ready
  <2>2. l \in Calls /\ l.t \in Int /\ l.calls + 1 \in 0..MaxCalls
    BY <1>0, <2>1, BoundAssumption DEF Inv, Calls
  <2>3. /\ m \in Calls /\ m.pc = l.pc /\ m.from = l.t /\ m.t = l.t
        /\ m.year = l.year /\ m.month = l.month
    BY <2>2 DEF Calls
  <2>4. Sane(zone, l.t) /\ Wants(l) <= MonthAt(zone, l.t)
    BY <1>0, <2>1, AnswerSane
  <2> HIDE DEF m, f
  <2>5. Wants(m) = Wants(l) /\ Wants(m) \in Int
    BY <2>3 DEF Wants, Calls
  <2>6. f = Carry \/ (Sane(zone, f) /\ MonthAt(zone, l.t) <= MonthAt(zone, f))
    <3>1. f \in {nextSecond(Wall(zone, l.t)), nextMinute(Wall(zone, l.t)), nextHour(Wall(zone, l.t))}
      BY DEF f
    <3> QED
      BY <1>0, <2>2, <2>4, <3>1, SecondFits
  <2>7. MonthAt(zone, l.t) \in Int
    BY <2>4, IndexInOrder, LastDayIs DEF Sane, MonthAt
  <2>8. CASE f = Carry
    <3>1. PICK k \in Calls :
             k = NextDay(m) /\ k.pc = "search" /\ k.from = l.t /\ k.t = l.t /\ Wants(k) = Wants(m)
      BY <2>3, NextDayIs
    <3>2. Placed(zone, k)
      BY <2>4, <2>5, <2>7, <3>1 DEF Placed
    <3>3. Moves(zone, l, k)
      BY <3>1, <3>2 DEF Moves, Advances
    <3>4. call' = [call EXCEPT !["cli"] = k]
      BY <2>1, <2>8, <3>1 DEF ReturnOrCarry
    <3> QED
      BY <1>0, <2>1, <3>3, <3>4, Steps
  <2>9. CASE f # Carry
    <3>1. f \in Int /\ Sane(zone, f) /\ MonthAt(zone, f) \in Int
      BY <2>6, <2>9, IndexInOrder, LastDayIs DEF Sane, MonthAt
    <3>2. Wants(m) <= MonthAt(zone, f)
      BY <2>4, <2>5, <2>6, <2>7, <2>9, <3>1
    <3>3. Moves(zone, m, Return(m, f))
      BY <2>3, <3>1, <3>2, ReturnMoves
    <3>4. Return(m, f).pc = "done"
      BY <2>3, <3>1, ReturnIs
    <3>5. Moves(zone, l, Return(m, f))
      BY <3>3, <3>4 DEF Moves, Advances
    <3>6. call' = [call EXCEPT !["cli"] = Return(m, f)]
      BY <2>1, <2>9 DEF ReturnOrCarry
    <3> QED
      BY <1>0, <2>1, <3>5, <3>6, Steps
  <2> QED
    BY <2>8, <2>9
<1> QED
  BY <1>1, <1>2

LEMMA NextKeeps ==
    ASSUME Inv, Calm(zone), [Next]_vars
    PROVE  Inv' /\ AllAdvance
<1>0. scene \in Scene /\ \A d \in Caller : Advances(zone, call[d], call[d])
  BY DEF Inv, Advances
<1>1. CASE LoopCalls
  <2>1. PICK from \in scene.starts \cup {call["loop"].t} :
           (call["loop"].pc = "idle" => from \in scene.starts) /\ Call("loop", from)
    BY <1>1 DEF LoopCalls
  <2>2. "loop" \in Caller
    BY DEF Caller
  <2>3. from \in scene.starts \/ (call["loop"].pc = "done" /\ from = call["loop"].t)
    BY <2>1 DEF Call, Ready
  <2>4. from = Zero \/ Sane(zone, from)
    BY <1>0, <2>2, <2>3, StartSane, AnswerSane
  <2> QED
    BY <2>1, <2>2, <2>4, CallKeeps
<1>2. CASE MonitorCalls
  <2>1. "loop" \in Caller /\ "monitor" \in Caller
    BY DEF Caller
  <2>2. PICK d \in {"loop", "monitor"} :
           call[d].pc = "done" /\ Call("monitor", call[d].t)
    BY <1>2 DEF MonitorCalls
  <2>3. call[d].t = Zero \/ Sane(zone, call[d].t)
    BY <2>1, <2>2, AnswerSane
  <2> QED
    BY <2>1, <2>2, <2>3, CallKeeps
<1>3. CASE NextN
  BY <1>3, NextNKeeps
<1>4. CASE \E c \in Caller : Go(c)
  <2>1. PICK c \in Caller : Go(c)
    BY <1>4
  <2> QED
    BY <2>1, EnterKeeps, TestEmptyKeeps, SearchKeeps, PickKeeps, FirstKeeps, nextMonthKeeps,
       nextYearKeeps, StoreKeeps DEF Go
<1>5. CASE UNCHANGED vars
  BY <1>0, <1>5 DEF vars, Inv, AllAdvance, zone
<1> QED
  BY <1>1, <1>2, <1>3, <1>4, <1>5 DEF Next

LEMMA Initially == Init => Inv
<1> SUFFICES ASSUME Init
             PROVE  Inv
  OBVIOUS
<1>1. actualDaysOfMonthList \in List
  BY DEF Init, List
<1>2. call \in [Caller -> Calls]
  BY BoundAssumption DEF Init, Calls, Places, Ended, Zero
<1>3. \A c \in Caller : call[c].pc = "idle"
  BY DEF Init
<1>4. \A c \in Caller : Placed(zone, call[c])
  BY <1>3 DEF Placed
<1> QED
  BY <1>1, <1>2, <1>4 DEF Init, Inv

-----------------------------------------------------------------------------
(* Theorems *)

\* The invariant that the theorems rest on: the instant asked for, the month
\* searched and the candidate follow each other.
THEOREM InvHolds == ASSUME CalmScenes PROVE Spec => []Inv
<1>1. Inv /\ [Next]_vars => Inv'
  <2> SUFFICES ASSUME Inv, [Next]_vars
               PROVE  Inv'
    OBVIOUS
  <2>1. Calm(zone)
    BY DEF CalmScenes, Inv, zone
  <2> QED
    BY <2>1, NextKeeps
<1> QED
  BY <1>1, Initially, PTL DEF Spec

\* A list of days never has one that no month has, and what a caller keeps of
\* its call has its type, for every expression and every caller.
THEOREM TypeCorrect == ASSUME CalmScenes PROVE Spec => []TypeOK
<1>1. Inv => TypeOK
  BY DEF Inv, TypeOK, List, Calls, Places
<1> QED
  BY <1>1, InvHolds, PTL

\* The search goes forward from month to month, whoever stores what in the list
\* of days meanwhile, as long as no clock changes where a month begins.
THEOREM SearchGoesForward == ASSUME CalmScenes PROVE Spec => SearchAdvances
<1>1. Inv /\ Inv' /\ [Next]_vars =>
         [\A c \in Caller :
             LET l == call'[c]
             IN l.pc = "store" /\ l.mode = "first" /\ call[c].pc # "store" =>
                   /\ 12 * l.year + l.month > 12 * call[c].year + call[c].month
                   /\ LET w == Wall(zone, l.from)
                      IN 12 * l.year + l.month > 12 * w.year + w.month]_vars
  <2> SUFFICES ASSUME Inv, Inv', [Next]_vars, NEW c \in Caller,
                      call'[c].pc = "store", call'[c].mode = "first", call[c].pc # "store"
               PROVE  /\ 12 * call'[c].year + call'[c].month > 12 * call[c].year + call[c].month
                      /\ 12 * call'[c].year + call'[c].month
                            > 12 * Wall(zone, call'[c].from).year + Wall(zone, call'[c].from).month
    OBVIOUS
  <2>1. Calm(zone)
    BY DEF CalmScenes, Inv, zone
  <2>2. Advances(zone, call[c], call'[c])
    BY <2>1, NextKeeps DEF AllAdvance
  <2>3. Wants(call'[c]) > Wants(call[c]) /\ Wants(call'[c]) > MonthAt(zone, call'[c].from)
    BY <2>2 DEF Advances
  <2>4. zone \in Zone /\ Sane(zone, call'[c].from)
    <3>1. zone \in Zone
      BY SceneType DEF Inv
    <3>2. zone' = zone /\ Placed(zone', call'[c])
      <4>1. scene' = scene
        BY DEF Next, vars, LoopCalls, MonitorCalls, NextN, Call, Step, Go, Enter, TestEmpty,
               Search, Pick, First, nextMonth, nextYear, StoreWord
      <4> QED
        BY <4>1 DEF zone, Inv
    <3> QED
      BY <3>1, <3>2 DEF Placed
  <2>5. MonthAt(zone, call'[c].from)
           = 12 * Wall(zone, call'[c].from).year + Wall(zone, call'[c].from).month
    BY <2>4, WallShows
  <2> QED
    BY <2>3, <2>5 DEF Wants
<1> QED
  BY <1>1, InvHolds, PTL DEF Spec, SearchAdvances

=============================================================================
