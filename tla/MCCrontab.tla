----------------------------- MODULE MCCrontab ------------------------------
(* Instances of Crontab for TLC. *)
EXTENDS Crontab

NewEntry(form, a, b, n) == [form |-> form, a |-> a, b |-> b, n |-> n]

Plain0 == Token(0, "plain")

Job(words) == [kind |-> "job", words |-> words]

Setting(key, text, quoted) ==
    [kind |-> "setting", key |-> key, text |-> text, quoted |-> quoted]

\* The bounds of the field, a value between them and one outside.
Tokens(f) ==
    LET min == Descriptor[f].min
        max == Descriptor[f].max
    IN {Token(n, "plain") : n \in {min, min + 2, max + 1}}
          \cup {Token(min + 5, "padded"), Token(2, "name")}

Intervals(f) == {0, 2, Descriptor[f].max + 1}

Entries(f) ==
    {NewEntry("*", Plain0, Plain0, 0), NewEntry("junk", Plain0, Plain0, 0),
     NewEntry("l", Plain0, Plain0, 0), NewEntry("lw", Plain0, Plain0, 0)}
    \cup {NewEntry(form, t, Plain0, 0) : form \in {"a", "aw", "al"}, t \in Tokens(f)}
    \cup {NewEntry("a-b", t, u, 0) : t, u \in Tokens(f)}
    \cup {NewEntry("*/n", Plain0, Plain0, n) : n \in Intervals(f)}
    \cup {NewEntry(form, t, Plain0, n) : form \in {"a/n", "a#n"}, t \in Tokens(f), n \in Intervals(f)}
    \cup {NewEntry("a-b/n", t, u, n) : t, u \in Tokens(f), n \in {2, 7}}

\* Lists of two entries
Few(f) ==
    LET low == Token(Descriptor[f].min, "plain")
        high == Token(Descriptor[f].max, "plain")
    IN {NewEntry("*", Plain0, Plain0, 0), NewEntry("junk", Plain0, Plain0, 0),
        NewEntry("l", Plain0, Plain0, 0), NewEntry("a", low, Plain0, 0),
        NewEntry("a", Token(Descriptor[f].max + 1, "plain"), Plain0, 0),
        NewEntry("a-b", low, high, 0), NewEntry("a-b/n", high, low, 2),
        NewEntry("*/n", Plain0, Plain0, 0), NewEntry("al", low, Plain0, 0),
        NewEntry("aw", low, Plain0, 0), NewEntry("a#n", high, Plain0, 5)}

WordsOf(f) == {Fields(<<e>>) : e \in Entries(f)}
                 \cup {Fields(<<e1, e2>>) : e1, e2 \in Few(f)} \cup {Fields(<<>>)}

Command == Fields(<<NewEntry("junk", Plain0, Plain0, 0)>>)

Names == <<"second", "minute", "hour", "dom", "month", "dow", "year">>

\* Schedules with stars in all fields but one: those of seconds and years have
\* seven fields, the other ones five.
OneField(f, word) ==
    LET seven == [i \in 1..7 |-> IF Names[i] = f THEN word ELSE Star]
    IN IF f \in {"second", "year"} THEN seven ELSE SubSeq(seven, 2, 6)

FieldLines ==
    UNION {{Job(Append(OneField(f, word), Command)) : word \in WordsOf(f)} : f \in DOMAIN Descriptor}

\* Words that a schedule and a command may share
Shared == {Star, Number(5), Number(2020), Command, Alias("@daily")}

MixedLines ==
    {Job(<<Star, Number(1), Star, Star>> \o tail) : tail \in UNION {[1..n -> Shared] : n \in 1..4}}

Aliases == {"@yearly", "@annually", "@monthly", "@weekly", "@daily", "@hourly", "@reboot"}

Settings ==
    {[kind |-> "blank"], Setting("A", "1", FALSE), Setting("A", "2", TRUE),
     Setting("A", "", TRUE), Setting("A", "", FALSE), Setting("SHELL", "bash", FALSE),
     Setting("SHELL", "zsh", TRUE), Setting("CRON_TZ", "UTC", FALSE),
     Setting("CRON_TZ", "Berlin", TRUE), Setting("CRON_TZ", "Nowhere", FALSE),
     Setting("CRON_TZ", "", FALSE),
     Job(<<Alias("@daily"), Command>>)}

Shortcuts == {Job(<<Alias(a), Command>>) : a \in Aliases}

TwoLines == <<FieldLines \cup MixedLines \cup Shortcuts \cup Settings, Settings>>
Zones == {"UTC", "Berlin"}
=============================================================================
