------------------------------ MODULE Cronexpr ------------------------------
(***************************************************************************)
(* What parse of cronexpr.go makes of a schedule: the field handlers of    *)
(* cronexpr_parse.go as operators.                                         *)
(*                                                                         *)
(* A schedule is a sequence of words.  A word is one of the aliases of     *)
(* cronNormalizer or a list of entries, and an entry is a record with a    *)
(* form, named by its layout:                                              *)
(*                                                                         *)
(*    "*"    "a"    "a-b"    "*/n"    "a/n"    "a-b/n"                     *)
(*    "l"    "lw"   "aw"     "al"     "a#n"    and "junk" for the rest     *)
(*                                                                         *)
(* where a and b are tokens, a number and how it is spelt, and n is a      *)
(* number.  The parsed lists are sets, since they are sorted and hold no   *)
(* value twice.                                                            *)
(***************************************************************************)
EXTENDS Integers, Sequences, SequencesExt

\* How a number is written: padded is with a leading zero.
Style == {"plain", "padded", "name"}

Token(n, style) == [n |-> n, style |-> style]

Entry ==
    [form : {"*", "a", "a-b", "*/n", "a/n", "a-b/n", "l", "lw", "aw", "al", "a#n", "junk"},
     a : [n : Int, style : Style],
     b : [n : Int, style : Style],
     n : Int]

Word ==
    [alias : {"none", "@yearly", "@annually", "@monthly", "@weekly", "@daily", "@hourly",
              "@reboot"},
     entries : Seq(Entry)]

Fields(entries) == [alias |-> "none", entries |-> entries]
Alias(name)     == [alias |-> name, entries |-> <<>>]

\* min and max of the field descriptors
Descriptor ==
    [second |-> [min |-> 0, max |-> 59],    minute |-> [min |-> 0, max |-> 59],
     hour   |-> [min |-> 0, max |-> 23],    dom    |-> [min |-> 1, max |-> 31],
     month  |-> [min |-> 1, max |-> 12],    dow    |-> [min |-> 0, max |-> 6],
     year   |-> [min |-> 1970, max |-> 2099]]

DefaultList(f) == Descriptor[f].min .. Descriptor[f].max

\* The valuePatterns: that of the day of the week has a 7 as well, a leading
\* zero is for numbers below ten, and only months and weekdays have names.
Matches(f, t) ==
    /\ t.n \in DefaultList(f) \/ (f = "dow" /\ t.n = 7 /\ t.style # "name")
    /\ t.style = "padded" => f # "year" /\ t.n < 10
    /\ t.style = "name" => f \in {"month", "dow"}

\* The token tables: dowTokens has a 7 but no number with a leading zero, and
\* what a table does not have reads as 0.
Atoi(f, t) ==
    IF f = "dow" /\ (t.n = 7 \/ t.style = "padded") THEN 0 ELSE t.n

\* An interval is looked up in numberTokens, too.
Step(n) == IF n \in 0..59 \cup 1970..2099 THEN n ELSE 0

-----------------------------------------------------------------------------
(* genericFieldParse *)

Span(first, last, step) ==
    [kind |-> "span", first |-> first, last |-> last, step |-> step]

One(n) == [Span(n, n, 1) EXCEPT !.kind = "one"]

All(f) == [Span(Descriptor[f].min, Descriptor[f].max, 1) EXCEPT !.kind = "all"]

None == [Span(0, 0, 1) EXCEPT !.kind = "none"]

Invalid == [Span(0, 0, 1) EXCEPT !.kind = "invalid"]

\* The check that a range without an interval gets: last is not below first.
Plain(first, last) ==
    IF last < first THEN Invalid ELSE Span(first, last, 1)

\* The check that a range with an interval gets.
Stepped(f, first, last, n) ==
    IF Step(n) \in 1..Descriptor[f].max THEN Span(first, last, Step(n)) ELSE Invalid

Directive(f, e) ==
    LET from == Atoi(f, e.a)
        to == Atoi(f, e.b)
    IN CASE e.form = "*" -> All(f)
         [] e.form = "a" /\ Matches(f, e.a) -> One(from)
         [] e.form = "a-b" /\ Matches(f, e.a) /\ Matches(f, e.b) -> Plain(from, to)
         [] e.form = "*/n" -> Stepped(f, Descriptor[f].min, Descriptor[f].max, e.n)
         [] e.form = "a/n" /\ Matches(f, e.a) -> Stepped(f, from, Descriptor[f].max, e.n)
         [] e.form = "a-b/n" /\ Matches(f, e.a) /\ Matches(f, e.b) -> Stepped(f, from, to, e.n)
         [] OTHER -> None

Directives(f, word) == [i \in DOMAIN word.entries |-> Directive(f, word.entries[i])]

\* A loop that leaves the last value out.
ValuesBelow(d) == {i \in d.first .. d.last - 1 : (i - d.first) % d.step = 0}

\* populateOne and populateMany; nothing when last is below first.
Values(d) == {i \in d.first .. d.last : (i - d.first) % d.step = 0}

AllValues(ds) == UNION {Values(ds[i]) : i \in {j \in DOMAIN ds : ds[j].kind # "none"}}

Has(ds, kind) == \E i \in DOMAIN ds : ds[i].kind = kind

\* No entry at all, or one that is refused at once
Malformed(ds) == ds = <<>> \/ Has(ds, "invalid")

-----------------------------------------------------------------------------
(* The field handlers *)

\* What a handler returns with an error; no field has this value.
SyntaxError == {-1}

\* At the first `*` the handler returns, whatever follows.
GenericList(f, ds) ==
    LET all == {i \in DOMAIN ds : ds[i].kind = "all"}
    IN IF \/ Malformed(ds)
          \/ \E i \in DOMAIN ds : ds[i].kind = "none" /\ \A j \in all : i < j
       THEN SyntaxError
       ELSE IF all # {} THEN DefaultList(f) ELSE AllValues(ds)

GenericField(f, word) == GenericList(f, Directives(f, word))

\* The entries of a form
With(word, form) == {e \in ToSet(word.entries) : e.form = form}

\* What genericFieldParse leaves to the handlers of the days
Left(word, ds) == {word.entries[i] : i \in {j \in DOMAIN ds : ds[j].kind = "none"}}

\* domFieldHandler
DomEntry(e) == e.form \in {"l", "lw"} \/ (e.form = "aw" /\ Matches("dom", e.a))

DomLists(word, ds) ==
    [bad |-> Malformed(ds) \/ \E e \in Left(word, ds) : ~DomEntry(e),
     daysOfMonth |-> AllValues(ds),
     workdaysOfMonth |-> {Atoi("dom", e.a) : e \in With(word, "aw")},
     lastDayOfMonth |-> With(word, "l") # {},
     lastWorkdayOfMonth |-> With(word, "lw") # {},
     daysOfMonthRestricted |-> ~Has(ds, "all")]

DomField(word) == DomLists(word, Directives("dom", word))

\* dowFieldHandler; the week is looked up in dowTokens.
DowEntry(e) ==
    \/ e.form = "al" /\ Matches("dow", e.a)
    \/ e.form = "a#n" /\ Matches("dow", e.a) /\ e.n \in 1..5

WeekDayFromOne(e) == 7 * e.n + Atoi("dow", e.a)

\* A weekday of one of the weeks, in one number
WeekDay(e) == 7 * (e.n - 1) + Atoi("dow", e.a)

DowLists(word, ds) ==
    [bad |-> Malformed(ds) \/ \E e \in Left(word, ds) : ~DowEntry(e),
     daysOfWeek |-> AllValues(ds),
     lastWeekDaysOfWeek |-> {Atoi("dow", e.a) : e \in With(word, "al")},
     specificWeekDaysOfWeek |-> {WeekDay(e) : e \in With(word, "a#n")},
     daysOfWeekRestricted |-> ~Has(ds, "all")]

DowField(word) == DowLists(word, Directives("dow", word))

-----------------------------------------------------------------------------
(* parse *)

Star == Fields(<<[form |-> "*", a |-> Token(0, "plain"), b |-> Token(0, "plain"), n |-> 0]>>)

Number(n) == Fields(<<[form |-> "a", a |-> Token(n, "plain"), b |-> Token(n, "plain"), n |-> 0]>>)

\* cronNormalizer
Normalize(word) ==
    LET zero == Number(0)
        one == Number(1)
    IN CASE word.alias \in {"@yearly", "@annually"} -> <<zero, zero, zero, one, one, Star, Star>>
         [] word.alias = "@monthly" -> <<zero, zero, zero, one, Star, Star, Star>>
         [] word.alias = "@weekly"  -> <<zero, zero, zero, Star, Star, zero, Star>>
         [] word.alias = "@daily"   -> <<zero, zero, zero, Star, Star, Star, Star>>
         [] word.alias = "@hourly"  -> <<zero, zero, Star, Star, Star, Star, Star>>
         [] OTHER -> <<word>>

\* The words of a schedule, without its aliases
NormalWords(words) == FlattenSeq([i \in DOMAIN words |-> Normalize(words[i])])

\* The Expression, with the fields of its two day handlers in records
Expression(words, count) ==
    LET field(i) == words[IF count = 7 THEN i + 1 ELSE i]
    IN [secondList |-> IF count = 7 THEN GenericField("second", words[1]) ELSE {0},
        minuteList |-> GenericField("minute", field(1)),
        hourList   |-> GenericField("hour", field(2)),
        dom        |-> DomField(field(3)),
        monthList  |-> GenericField("month", field(4)),
        dow        |-> DowField(field(5)),
        yearList   |-> IF count > 5 THEN GenericField("year", field(6))
                                    ELSE DefaultList("year")]

\* bad is the error.
Checked(expr) ==
    IF \/ SyntaxError \in {expr.secondList, expr.minuteList, expr.hourList,
                           expr.monthList, expr.yearList}
       \/ expr.dom.bad
       \/ expr.dow.bad
    THEN [bad |-> TRUE]
    ELSE [bad |-> FALSE, expr |-> expr]

\* Without strict the words after the seventh are ignored.
ParseWords(words, strict) ==
    IF Len(words) < 5 \/ (strict /\ Len(words) > 7)
    THEN [bad |-> TRUE]
    ELSE Checked(Expression(words, IF Len(words) > 7 THEN 7 ELSE Len(words)))

Parse(words, strict) == ParseWords(NormalWords(words), strict)

=============================================================================
