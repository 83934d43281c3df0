---------------------------- MODULE CrontabProofs -----------------------------
(***************************************************************************)
(* What ParseCrontab returns, for every crontab.                           *)
(***************************************************************************)
EXTENDS Crontab, SequenceTheorems, WellFoundedInduction, TLAPS

-----------------------------------------------------------------------------
(* The lists of one entry *)

\* The loop of populateMany reaches the values that are whole steps away.
LEMMA Strides ==
    ASSUME NEW first \in Nat, NEW last \in Int, NEW step \in Nat \ {0}
    PROVE  {i \in first..last : (i - first) % step = 0} = Walk(first, last, step)
<1>1. ASSUME NEW i \in first..last, (i - first) % step = 0
      PROVE  \E k \in 0..last : i = first + k * step
  <2> DEFINE k == (i - first) \div step
  <2>1. k \in Int /\ i - first = (step * k) + ((i - first) % step)
    BY SMT
  <2>2. i - first = step * k /\ i - first >= 0
    BY <1>1, <2>1
  <2>3. k >= 0
    BY <2>1, <2>2
  <2>4. k <= step * k
    BY <2>1, <2>3
  <2> QED
    BY <2>1, <2>2, <2>3, <2>4
<1>2. ASSUME NEW i \in first..last, NEW k \in 0..last, i = first + k * step
      PROVE  (i - first) % step = 0
  <2>1. i - first = k * step
    BY <1>2
  <2>2. (k * step) % step = 0
    BY SMT
  <2> QED
    BY <2>1, <2>2
<1> QED
  BY <1>1, <1>2 DEF Walk

LEMMA SpanValues ==
    ASSUME NEW first \in Nat, NEW last \in Int, NEW step \in Nat \ {0}
    PROVE  Values(Span(first, last, step)) = Walk(first, last, step)
<1>1. /\ Span(first, last, step).first = first
      /\ Span(first, last, step).last = last
      /\ Span(first, last, step).step = step
  BY DEF Span
<1>2. Values(Span(first, last, step)) = {i \in first..last : (i - first) % step = 0}
  BY <1>1, Zenon DEF Values
<1> QED
  BY <1>2, Strides

LEMMA Bounds ==
    ASSUME NEW f \in DOMAIN Descriptor
    PROVE  /\ f \in {"second", "minute", "hour", "dom", "month", "dow", "year"}
           /\ Descriptor[f].min \in Nat
           /\ Descriptor[f].max \in Nat
           /\ Descriptor[f].min <= Descriptor[f].max
           /\ f = "dow" => Descriptor[f].min = 0 /\ Descriptor[f].max = 6
  BY DEF Descriptor

\* A token that a field's pattern has is a number of it, or the weekday 7.
LEMMA Numbers ==
    ASSUME NEW f \in DOMAIN Descriptor, NEW t, Matches(f, t), f # "dow" \/ t.style # "padded"
    PROVE  /\ t.n \in Nat
           /\ t.n \in DefaultList(f) \/ (f = "dow" /\ t.n = 7)
           /\ Atoi(f, t) = Meant(f, t.n)
           /\ Atoi(f, t) \in DefaultList(f)
           /\ f # "dow" \/ t.n # 7 => Atoi(f, t) = t.n /\ t.n \in DefaultList(f)
  BY Bounds DEF Matches, Atoi, Meant, DefaultList

\* A directive stands for what the documentation says of its entry.
LEMMA EntryListed ==
    ASSUME NEW f \in DOMAIN Descriptor, NEW e,
           Directive(f, e).kind \notin {"none", "invalid"},
           ~(f = "dow" /\ Odd(e))
    PROVE  Values(Directive(f, e)) = Listed(f, e)
<1> DEFINE min == Descriptor[f].min
           max == Descriptor[f].max
<1>0. min \in Nat /\ max \in Nat /\ min <= max
  BY Bounds
<1>1. \A n : Step(n) \in 1..max => Step(n) \in Nat \ {0} /\ Step(n) = n
  BY <1>0 DEF Step
<1>2. CASE e.form = "*"
  <2>1. \A i \in min..max : (i - min) % 1 = 0
    BY <1>0
  <2>2. Directive(f, e) = All(f)
    BY <1>2 DEF Directive
  <2>3. Listed(f, e) = min..max
    BY <1>2 DEF Listed, DefaultList
  <2> QED
    BY <2>1, <2>2, <2>3 DEF All, Span, Values
<1>3. CASE e.form = "a"
  <2>1. Matches(f, e.a) /\ Directive(f, e) = One(Atoi(f, e.a))
    BY <1>3 DEF Directive, None
  <2>2. Atoi(f, e.a) = Meant(f, e.a.n) /\ Atoi(f, e.a) \in Int
    BY <2>1, <1>0, Numbers DEF Odd, DefaultList
  <2>3. Listed(f, e) = {Meant(f, e.a.n)}
    BY <1>3 DEF Listed
  <2> QED
    BY <2>1, <2>2, <2>3 DEF One, Span, Values
<1>4. CASE e.form = "a-b"
  <2>1. Matches(f, e.a) /\ Matches(f, e.b) /\ Directive(f, e) = Plain(Atoi(f, e.a), Atoi(f, e.b))
    BY <1>4 DEF Directive, None
  <2>2. /\ Atoi(f, e.a) = e.a.n /\ e.a.n \in DefaultList(f)
        /\ Atoi(f, e.b) = e.b.n /\ e.b.n \in DefaultList(f)
    BY <1>4, <2>1, Numbers DEF Odd
  <2>3. Directive(f, e) = Span(e.a.n, e.b.n, 1)
    BY <2>1, <2>2 DEF Plain, Invalid
  <2>4. Listed(f, e) = {Meant(f, x) : x \in Walk(e.a.n, e.b.n, 1)}
    BY <1>4 DEF Listed
  <2>5. \A x \in Walk(e.a.n, e.b.n, 1) : Meant(f, x) = x
    BY <2>2, Bounds DEF Walk, DefaultList, Meant
  <2>6. Listed(f, e) = Walk(e.a.n, e.b.n, 1)
    BY <2>4, <2>5
  <2>7. e.a.n \in Nat /\ e.b.n \in Nat
    BY <2>2, <1>0 DEF DefaultList
  <2>8. Values(Span(e.a.n, e.b.n, 1)) = Walk(e.a.n, e.b.n, 1)
    BY <2>7, SpanValues
  <2> QED
    BY <2>3, <2>6, <2>8
<1>5. CASE e.form = "*/n"
  <2>1. Directive(f, e) = Span(min, max, e.n) /\ e.n \in Nat \ {0}
    BY <1>5, <1>1 DEF Directive, Stepped, Invalid
  <2>2. Listed(f, e) = Walk(min, max, e.n)
    BY <1>5 DEF Listed
  <2> QED
    BY <2>1, <2>2, <1>0, SpanValues
<1>6. CASE e.form = "a/n"
  <2>1. /\ Matches(f, e.a)
        /\ Directive(f, e) = Span(Atoi(f, e.a), max, e.n) /\ e.n \in Nat \ {0}
    BY <1>6, <1>1 DEF Directive, Stepped, Invalid, None
  <2>2. Atoi(f, e.a) = Meant(f, e.a.n) /\ Atoi(f, e.a) \in Nat
    BY <2>1, <1>0, Numbers DEF Odd, DefaultList
  <2>3. Listed(f, e) = Walk(Meant(f, e.a.n), max, e.n)
    BY <1>6 DEF Listed
  <2> QED
    BY <2>1, <2>2, <2>3, <1>0, SpanValues
<1>7. CASE e.form = "a-b/n"
  <2>1. /\ Matches(f, e.a) /\ Matches(f, e.b)
        /\ Directive(f, e) = Span(Atoi(f, e.a), Atoi(f, e.b), e.n) /\ e.n \in Nat \ {0}
    BY <1>7, <1>1 DEF Directive, Stepped, Invalid, None
  <2>2. /\ Atoi(f, e.a) = e.a.n /\ e.a.n \in DefaultList(f)
        /\ Atoi(f, e.b) = e.b.n /\ e.b.n \in DefaultList(f)
    BY <1>7, <2>1, Numbers DEF Odd
  <2>4. Listed(f, e) = {Meant(f, x) : x \in Walk(e.a.n, e.b.n, e.n)}
    BY <1>7 DEF Listed
  <2>5. \A x \in Walk(e.a.n, e.b.n, e.n) : Meant(f, x) = x
    BY <2>2, Bounds DEF Walk, DefaultList, Meant
  <2>6. Listed(f, e) = Walk(e.a.n, e.b.n, e.n)
    BY <2>4, <2>5
  <2>7. e.a.n \in Nat /\ e.b.n \in Nat
    BY <2>2, <1>0 DEF DefaultList
  <2>3. e.n \in Nat \ {0} /\ e.b.n \in Int
    BY <2>1, <2>7
  <2>8. Values(Span(e.a.n, e.b.n, e.n)) = Walk(e.a.n, e.b.n, e.n)
    BY <2>3, <2>7, SpanValues, Zenon
  <2>9. Directive(f, e) = Span(e.a.n, e.b.n, e.n)
    BY <2>1, <2>2
  <2> QED
    BY <2>6, <2>8, <2>9
<1> QED
  BY <1>2, <1>3, <1>4, <1>5, <1>6, <1>7 DEF Directive, None, Span

\* The entries by the kind of their directive
LEMMA Kinds ==
    ASSUME NEW f \in DOMAIN Descriptor, NEW e
    PROVE  /\ Directive(f, e).kind = "all" <=> e.form = "*"
           /\ e.form \in {"l", "lw", "aw", "al", "a#n"} =>
                 Directive(f, e).kind = "none" /\ Listed(f, e) = {}
           /\ Directive(f, e).kind = "none" => e.form # "*/n"
  BY DEF Directive, Stepped, Plain, All, One, Span, Invalid, None, Listed

\* What an entry stands for, when genericFieldParse takes it
LEMMA TakenForm ==
    ASSUME NEW f \in DOMAIN Descriptor, NEW e,
           Directive(f, e).kind \notin {"none", "invalid"}
    PROVE  /\ e.form \in {"*", "a", "a-b", "*/n", "a/n", "a-b/n"}
           /\ e.form \in {"a", "a-b", "a/n", "a-b/n"} => Matches(f, e.a)
           /\ e.form \in {"a-b", "a-b/n"} => Matches(f, e.b)
  BY DEF Directive, None, Span

LEMMA TakenInside ==
    ASSUME NEW f \in DOMAIN Descriptor, NEW e,
           Directive(f, e).kind \notin {"none", "invalid"}
    PROVE  ~Outside(f, e)
<1>1. \A t : Matches(f, t) => t.n \in IF f = "dow" THEN 0..7 ELSE DefaultList(f)
  BY Bounds DEF Matches, DefaultList
<1> QED
  BY <1>1, TakenForm DEF Outside, FormsOf

\* The numbers of a token table are numbers of the field.
LEMMA AtoiInField ==
    ASSUME NEW f \in DOMAIN Descriptor, NEW t, Matches(f, t)
    PROVE  Atoi(f, t) \in DefaultList(f)
  BY Bounds DEF Matches, Atoi, DefaultList

\* A directive lists only numbers of its field.
LEMMA TakenInField ==
    ASSUME NEW f \in DOMAIN Descriptor, NEW e,
           Directive(f, e).kind \notin {"none", "invalid"}
    PROVE  Values(Directive(f, e)) \subseteq DefaultList(f)
<1> DEFINE d == Directive(f, e)
<1>1. d.first \in DefaultList(f) /\ d.last \in DefaultList(f)
  <2>1. Descriptor[f].min \in DefaultList(f) /\ Descriptor[f].max \in DefaultList(f)
    BY Bounds DEF DefaultList
  <2> QED
    BY <2>1, TakenForm, AtoiInField
    DEF Directive, All, One, Plain, Stepped, Span, Invalid, None
<1>2. \A a, b \in DefaultList(f) : a..b \subseteq DefaultList(f)
  BY Bounds DEF DefaultList
<1>3. Values(d) \subseteq d.first..d.last
  BY DEF Values
<1> QED
  BY <1>1, <1>2, <1>3

\* A directive lists its first number, unless it runs backwards.
LEMMA TakenHasValue ==
    ASSUME NEW f \in DOMAIN Descriptor \ {"dom", "dow"}, NEW e,
           Directive(f, e).kind \notin {"none", "invalid"},
           ~Backwards(e)
    PROVE  Values(Directive(f, e)) # {}
<1> DEFINE d == Directive(f, e)
<1>1. \A t : Matches(f, t) => Atoi(f, t) = t.n /\ t.n \in DefaultList(f)
  BY DEF Matches, Atoi
<1>2. /\ d.first \in DefaultList(f) /\ d.last \in DefaultList(f)
      /\ d.first <= d.last
      /\ d.step \in Nat \ {0}
  <2>1. /\ Descriptor[f].min \in DefaultList(f)
        /\ Descriptor[f].max \in DefaultList(f)
        /\ \A n \in DefaultList(f) : Descriptor[f].min <= n /\ n <= Descriptor[f].max
        /\ DefaultList(f) \subseteq Nat
    BY Bounds DEF DefaultList
  <2>2. \A n : Step(n) \in 1..Descriptor[f].max => Step(n) \in Nat \ {0}
    BY Bounds
  <2>3. CASE e.form \in {"*", "a", "*/n", "a/n"}
    BY <2>1, <2>2, <2>3, <1>1, TakenForm
    DEF Directive, All, One, Stepped, Span, Invalid, None
  <2>4. CASE e.form = "a-b"
    BY <2>1, <2>4, <1>1, TakenForm DEF Directive, Plain, Span, Invalid, None
  <2>5. CASE e.form = "a-b/n"
    BY <2>1, <2>2, <2>5, <1>1, TakenForm DEF Directive, Stepped, Span, Invalid, None, Backwards
  <2> QED
    BY <2>3, <2>4, <2>5, TakenForm
<1>3. d.first \in Nat /\ d.last \in Nat
  BY <1>2, Bounds DEF DefaultList
<1>4. \A n \in Nat \ {0} : 0 % n = 0
  OBVIOUS
<1>5. (d.first - d.first) % d.step = 0
  BY <1>2, <1>3, <1>4
<1> QED
  BY <1>2, <1>3, <1>5 DEF Values

-----------------------------------------------------------------------------
(* The lists of one field *)

\* The directives of a word, one for each entry
LEMMA WordDirectives ==
    ASSUME NEW f, NEW word
    PROVE  /\ DOMAIN Directives(f, word) = DOMAIN word.entries
           /\ \A i \in DOMAIN word.entries : Directives(f, word)[i] = Directive(f, word.entries[i])
  BY DEF Directives

\* A star in the word, and in its directives
LEMMA WordHasStar ==
    ASSUME NEW f \in DOMAIN Descriptor, NEW word
    PROVE  (With(word, "*") # {}) <=> Has(Directives(f, word), "all")
<1>1. \A i \in DOMAIN word.entries :
         Directives(f, word)[i].kind = "all" <=> word.entries[i].form = "*"
  BY WordDirectives, Kinds
<1>2. (With(word, "*") # {}) <=> \E i \in DOMAIN word.entries : word.entries[i].form = "*"
  BY DEF With, ToSet
<1> QED
  BY <1>1, <1>2, WordDirectives DEF Has

\* Where every entry is taken or adds nothing, the values are those listed.
LEMMA AllAsListed ==
    ASSUME NEW f \in DOMAIN Descriptor, NEW word,
           ~IsOdd(f, word),
           ~Has(Directives(f, word), "invalid"),
           \A i \in DOMAIN word.entries :
              Directives(f, word)[i].kind = "none" => Listed(f, word.entries[i]) = {}
    PROVE  AllValues(Directives(f, word)) = AllListed(f, word)
<1> DEFINE ds == Directives(f, word)
           entries == word.entries
           taken == {j \in DOMAIN ds : ds[j].kind # "none"}
<1>1. \A i \in taken : Values(ds[i]) = Listed(f, entries[i])
  <2> TAKE i \in taken
  <2>1. i \in DOMAIN entries /\ ds[i] = Directive(f, entries[i])
    BY WordDirectives
  <2>2. Directive(f, entries[i]).kind \notin {"none", "invalid"}
    BY <2>1 DEF Has
  <2>3. ~(f = "dow" /\ Odd(entries[i]))
    BY <2>1 DEF IsOdd, ToSet
  <2> QED
    BY <2>1, <2>2, <2>3, EntryListed
<1>2. AllValues(ds) = UNION {Listed(f, e) : e \in ToSet(entries)}
  <2>1. AllValues(ds) = UNION {Values(ds[i]) : i \in taken}
    BY DEF AllValues
  <2>2. \A i \in DOMAIN entries : i \notin taken => Listed(f, entries[i]) = {}
    BY WordDirectives
  <2>3. taken \subseteq DOMAIN entries
    BY WordDirectives
  <2>4. ASSUME NEW x \in AllValues(ds)
        PROVE  \E e \in ToSet(entries) : x \in Listed(f, e)
    <3>1. PICK i \in taken : x \in Values(ds[i])
      BY <2>1, <2>4
    <3> QED
      BY <3>1, <1>1, <2>3 DEF ToSet
  <2>5. ASSUME NEW e \in ToSet(entries), NEW x \in Listed(f, e)
        PROVE  x \in AllValues(ds)
    <3>1. PICK i \in DOMAIN entries : e = entries[i]
      BY DEF ToSet
    <3>2. i \in taken
      BY <2>2, <2>5, <3>1
    <3> QED
      BY <1>1, <2>1, <2>5, <3>1, <3>2
  <2> HIDE DEF ds, entries, taken
  <2> QED
    BY <2>4, <2>5
<1>3. CASE With(word, "*") # {}
  <2>1. PICK i \in DOMAIN ds : ds[i].kind = "all"
    BY <1>3, WordHasStar DEF Has
  <2>2. i \in taken
    BY <2>1
  <2>3. Listed(f, entries[i]) = DefaultList(f)
    BY <2>1, WordDirectives, Kinds DEF Listed
  <2>4. DefaultList(f) \subseteq AllValues(ds)
    BY <1>1, <2>2, <2>3 DEF AllValues
  <2>5. \A j \in taken : Values(ds[j]) \subseteq DefaultList(f)
    BY WordDirectives, TakenInField DEF Has
  <2>6. AllValues(ds) \subseteq DefaultList(f)
    BY <2>5 DEF AllValues
  <2> QED
    BY <1>3, <2>4, <2>6 DEF AllListed
<1>4. CASE With(word, "*") = {}
  BY <1>2, <1>4 DEF AllListed
<1> QED
  BY <1>3, <1>4

\* genericFieldHandler returns the list or refuses the field.
LEMMA GenericAsListed ==
    ASSUME NEW f \in DOMAIN Descriptor \ {"dom", "dow"},
           NEW word, word.entries \in Seq(Entry),
           GenericField(f, word) # SyntaxError
    PROVE  /\ GenericField(f, word) = AllListed(f, word)
           /\ \A k \in DOMAIN word.entries :
                 Outside(f, word.entries[k]) =>
                    \E j \in 1 .. k - 1 : word.entries[j].form = "*"
           /\ \/ GenericField(f, word) # {}
              \/ \A e \in ToSet(word.entries) : Backwards(e)
           /\ word.entries # <<>>
<1> DEFINE ds == Directives(f, word)
           entries == word.entries
           all == {i \in DOMAIN ds : ds[i].kind = "all"}
<1>1. /\ ~Malformed(ds)
      /\ \A i \in DOMAIN ds : ds[i].kind = "none" => \E j \in all : ~(i < j)
      /\ GenericField(f, word) = IF all # {} THEN DefaultList(f) ELSE AllValues(ds)
  BY DEF GenericField, GenericList
<1>2. DOMAIN ds = DOMAIN entries /\ \A i \in DOMAIN entries : ds[i] = Directive(f, entries[i])
  BY WordDirectives
<1>3. ~Has(ds, "invalid") /\ entries # <<>>
  <2>1. ASSUME entries = <<>>
        PROVE  ds = <<>>
    BY <2>1 DEF Directives
  <2> QED
    BY <1>1, <2>1 DEF Malformed
<1>4. GenericField(f, word) = AllListed(f, word)
  <2>1. CASE all # {}
    BY <1>1, <2>1, WordHasStar DEF AllListed, Has
  <2>2. CASE all = {}
    <3>1. \A i \in DOMAIN ds : ds[i].kind # "none"
      BY <1>1, <2>2
    <3>2. ~IsOdd(f, word)
      BY DEF IsOdd
    <3> QED
      BY <1>1, <1>2, <1>3, <2>2, <3>1, <3>2, AllAsListed
  <2> QED
    BY <2>1, <2>2
<1>5. ASSUME NEW k \in DOMAIN entries, Outside(f, entries[k])
      PROVE  \E j \in 1 .. k - 1 : entries[j].form = "*"
  <2>1. ds[k].kind = "none"
    BY <1>2, <1>3, <1>5, TakenInside DEF Has
  <2>2. PICK j \in all : ~(k < j)
    BY <1>1, <1>2, <2>1
  <2>3. k \in 1..Len(entries) /\ j \in 1..Len(entries) /\ Len(entries) \in Nat
    BY <1>2
  <2>4. j # k
    BY <2>1
  <2>5. entries[j].form = "*"
    BY <1>2, Kinds
  <2> QED
    BY <2>2, <2>3, <2>4, <2>5
<1>6. ASSUME NEW e \in ToSet(entries), ~Backwards(e)
      PROVE  GenericField(f, word) # {}
  <2>1. PICK i \in DOMAIN entries : e = entries[i]
    BY DEF ToSet
  <2>2. CASE all # {}
    BY <1>1, <2>2, Bounds DEF DefaultList
  <2>3. CASE all = {}
    <3>1. ds[i].kind \notin {"none", "invalid"}
      BY <1>1, <1>2, <1>3, <2>3 DEF Has
    <3>2. Values(ds[i]) # {}
      BY <1>2, <1>6, <2>1, <3>1, TakenHasValue
    <3>3. Values(ds[i]) \subseteq AllValues(ds)
      BY <1>2, <3>1 DEF AllValues
    <3> QED
      BY <1>1, <2>3, <3>2, <3>3
  <2> QED
    BY <2>2, <2>3
<1> QED
  BY <1>3, <1>4, <1>5, <1>6

\* The handlers of the days read all entries.
LEMMA DomAsListed ==
    ASSUME NEW word, ~DomField(word).bad
    PROVE  /\ DomField(word).daysOfMonth = AllListed("dom", word)
           /\ \A k \in DOMAIN word.entries : ~Outside("dom", word.entries[k])
           /\ DomField(word).daysOfMonthRestricted = (With(word, "*") = {})
<1> DEFINE ds == Directives("dom", word)
           entries == word.entries
<1>0. "dom" \in DOMAIN Descriptor
  BY DEF Descriptor
<1>1. /\ ~Malformed(ds)
      /\ \A e \in Left(word, ds) : DomEntry(e)
      /\ DomField(word).daysOfMonth = AllValues(ds)
      /\ DomField(word).daysOfMonthRestricted = ~Has(ds, "all")
  BY DEF DomField, DomLists
<1>2. DOMAIN ds = DOMAIN entries /\ \A i \in DOMAIN entries : ds[i] = Directive("dom", entries[i])
  BY WordDirectives
<1>3. \A i \in DOMAIN entries : ds[i].kind = "none" => DomEntry(entries[i])
  BY <1>1, <1>2 DEF Left
<1>4. \A i \in DOMAIN entries : ds[i].kind = "none" => Listed("dom", entries[i]) = {}
  BY <1>0, <1>3, Kinds DEF DomEntry
<1>5. DomField(word).daysOfMonth = AllListed("dom", word)
  <2>1. ~IsOdd("dom", word)
    BY DEF IsOdd
  <2> QED
    BY <1>0, <1>1, <1>4, <2>1, AllAsListed DEF Malformed
<1>6. ASSUME NEW k \in DOMAIN entries
      PROVE  ~Outside("dom", entries[k])
  <2>1. CASE ds[k].kind = "none"
    BY <1>3, <2>1 DEF DomEntry, Matches, Outside, FormsOf
  <2>2. CASE ds[k].kind # "none"
    BY <1>0, <1>1, <1>2, <2>2, TakenInside DEF Malformed, Has
  <2> QED
    BY <2>1, <2>2
<1> QED
  BY <1>0, <1>1, <1>5, <1>6, WordHasStar

LEMMA DowAsListed ==
    ASSUME NEW word, ~DowField(word).bad
    PROVE  /\ IsOdd("dow", word) \/ DowField(word).daysOfWeek = AllListed("dow", word)
           /\ \A k \in DOMAIN word.entries : ~Outside("dow", word.entries[k])
           /\ DowField(word).daysOfWeekRestricted = (With(word, "*") = {})
<1> DEFINE ds == Directives("dow", word)
           entries == word.entries
<1>0. "dow" \in DOMAIN Descriptor
  BY DEF Descriptor
<1>1. /\ ~Malformed(ds)
      /\ \A e \in Left(word, ds) : DowEntry(e)
      /\ DowField(word).daysOfWeek = AllValues(ds)
      /\ DowField(word).daysOfWeekRestricted = ~Has(ds, "all")
  BY DEF DowField, DowLists
<1>2. DOMAIN ds = DOMAIN entries /\ \A i \in DOMAIN entries : ds[i] = Directive("dow", entries[i])
  BY WordDirectives
<1>3. \A i \in DOMAIN entries : ds[i].kind = "none" => DowEntry(entries[i])
  BY <1>1, <1>2 DEF Left
<1>4. \A i \in DOMAIN entries : ds[i].kind = "none" => Listed("dow", entries[i]) = {}
  BY <1>0, <1>3, Kinds DEF DowEntry
<1>5. IsOdd("dow", word) \/ DowField(word).daysOfWeek = AllListed("dow", word)
  BY <1>0, <1>1, <1>4, AllAsListed DEF Malformed
<1>6. ASSUME NEW k \in DOMAIN entries
      PROVE  ~Outside("dow", entries[k])
  <2>1. CASE ds[k].kind = "none"
    <3>1. /\ Matches("dow", entries[k].a)
          /\ entries[k].form = "al" \/ (entries[k].form = "a#n" /\ entries[k].n \in 1..5)
      BY <1>3, <2>1 DEF DowEntry
    <3>2. entries[k].a.n \in 0..7
      BY <1>0, <3>1, Bounds DEF Matches, DefaultList
    <3> QED
      BY <3>1, <3>2 DEF Outside, FormsOf
  <2>2. CASE ds[k].kind # "none"
    BY <1>0, <1>1, <1>2, <2>2, TakenInside DEF Malformed, Has
  <2> QED
    BY <2>1, <2>2
<1> QED
  BY <1>0, <1>1, <1>5, <1>6, WordHasStar

\* A week and a day of it in one number can be told from it.
LEMMA WeekDayRead ==
    ASSUME NEW n \in 1..5, NEW d \in 0..6
    PROVE  WeekAndDay(7 * (n - 1) + d) = <<n, d>>
<1>1. (7 * (n - 1) + d) \div 7 = n - 1 /\ (7 * (n - 1) + d) % 7 = d
  OBVIOUS
<1> QED
  BY <1>1 DEF WeekAndDay

\* A weekday without a leading zero is read as meant, 7 as Sunday.
LEMMA WeekdayMeant ==
    ASSUME NEW t, Matches("dow", t), t.style # "padded"
    PROVE  Atoi("dow", t) = Meant("dow", t.n) /\ Meant("dow", t.n) \in 0..6
<1>1. "dow" \in DOMAIN Descriptor
  BY DEF Descriptor
<1>2. t.n \in 0..7
  BY <1>1, Bounds DEF Matches, DefaultList
<1>3. t.n % 7 = IF t.n = 7 THEN 0 ELSE t.n
  BY <1>2
<1> QED
  BY <1>2, <1>3 DEF Atoi, Meant

\* The marked entries of the days are read as the documentation has them.
LEMMA MarksRead ==
    ASSUME NEW domWord, ~DomField(domWord).bad, NEW dowWord, ~DowField(dowWord).bad
    PROVE  MarksAsDocumented(DomField(domWord), DowField(dowWord), domWord, dowWord)
<1>1. /\ DomField(domWord).workdaysOfMonth = {Atoi("dom", e.a) : e \in With(domWord, "aw")}
      /\ DomField(domWord).lastDayOfMonth = (With(domWord, "l") # {})
      /\ DomField(domWord).lastWorkdayOfMonth = (With(domWord, "lw") # {})
  BY DEF DomField, DomLists
<1>2. \A t : Atoi("dom", t) = Meant("dom", t.n)
  BY DEF Atoi, Meant
<1>3. DomField(domWord).workdaysOfMonth = Marked("dom", domWord, "aw")
  BY <1>1, <1>2 DEF Marked
<1>4. ASSUME ~IsOdd("dow", dowWord)
      PROVE  /\ DowField(dowWord).lastWeekDaysOfWeek = Marked("dow", dowWord, "al")
             /\ {WeekAndDay(x) : x \in DowField(dowWord).specificWeekDaysOfWeek} =
                   {<<e.n, Meant("dow", e.a.n)>> : e \in With(dowWord, "a#n")}
  <2> DEFINE ds == Directives("dow", dowWord)
             entries == dowWord.entries
             numbered == With(dowWord, "a#n")
  <2>1. ASSUME NEW e \in With(dowWord, "al") \cup numbered
        PROVE  DowEntry(e) /\ Matches("dow", e.a) /\ e.a.style # "padded"
    <3>1. PICK i \in DOMAIN entries : e = entries[i]
      BY DEF With, ToSet
    <3>2. e.form \in {"al", "a#n"} /\ e \in ToSet(entries)
      BY DEF With
    <3>3. i \in DOMAIN ds /\ ds[i].kind = "none"
      BY <3>1, <3>2, WordDirectives, Kinds DEF Descriptor
    <3>4. DowEntry(e)
      BY <3>1, <3>3 DEF DowField, DowLists, Left
    <3>5. ~Odd(e)
      BY <1>4, <3>2 DEF IsOdd
    <3> QED
      BY <3>4, <3>5 DEF DowEntry, Odd
  <2>2. \A e \in With(dowWord, "al") \cup numbered :
           Atoi("dow", e.a) = Meant("dow", e.a.n) /\ Meant("dow", e.a.n) \in 0..6
    BY <2>1, WeekdayMeant
  <2>3. /\ DowField(dowWord).lastWeekDaysOfWeek =
              {Atoi("dow", e.a) : e \in With(dowWord, "al")}
        /\ DowField(dowWord).specificWeekDaysOfWeek = {WeekDay(e) : e \in numbered}
    BY DEF DowField, DowLists
  <2>4. DowField(dowWord).lastWeekDaysOfWeek = Marked("dow", dowWord, "al")
    BY <2>2, <2>3 DEF Marked
  <2>5. \A e \in numbered : WeekAndDay(WeekDay(e)) = <<e.n, Meant("dow", e.a.n)>>
    <3> SUFFICES ASSUME NEW e \in numbered
                 PROVE  WeekAndDay(WeekDay(e)) = <<e.n, Meant("dow", e.a.n)>>
      OBVIOUS
    <3>1. e.form = "a#n"
      BY DEF With
    <3>2. e.n \in 1..5
      BY <2>1, <3>1 DEF DowEntry
    <3>3. WeekDay(e) = 7 * (e.n - 1) + Meant("dow", e.a.n)
      BY <2>2 DEF WeekDay
    <3> HIDE DEF numbered
    <3> QED
      BY <2>2, <3>2, <3>3, WeekDayRead
  <2>6. {WeekAndDay(x) : x \in DowField(dowWord).specificWeekDaysOfWeek} =
           {<<e.n, Meant("dow", e.a.n)>> : e \in numbered}
    <3>1. {WeekAndDay(x) : x \in {WeekDay(e) : e \in numbered}} =
             {WeekAndDay(WeekDay(e)) : e \in numbered}
      OBVIOUS
    <3>2. {WeekAndDay(WeekDay(e)) : e \in numbered} =
             {<<e.n, Meant("dow", e.a.n)>> : e \in numbered}
      BY <2>5
    <3> QED
      BY <2>3, <3>1, <3>2
  <2> QED
    BY <2>4, <2>6
<1> QED
  BY <1>1, <1>3, <1>4 DEF MarksAsDocumented

-----------------------------------------------------------------------------
(* The words of a schedule without its aliases *)

\* Induction in the form that needs no operator for a parameter
LEMMA LeastNumber ==
    ASSUME NEW T \in SUBSET Nat, T # {}
    PROVE  \E n \in T : \A m \in T : n <= m
<1>1. PICK n \in T : \A m \in T : <<m, n>> \notin OpToRel(<, Nat)
  BY WFMin, NatLessThanWellFounded
<1>2. \A m \in T : ~(m < n)
  BY <1>1 DEF OpToRel
<1> QED
  BY <1>2

\* flat[i] is the first i sequences, joined: the recursion of FlattenSeq
Joins(flat, seqs, n) ==
    \A i \in 1..n : flat[i] = IF i = 1 THEN seqs[i] ELSE flat[i-1] \o seqs[i]

LEMMA JoinsExists ==
    ASSUME NEW S, NEW seqs \in Seq(Seq(S))
    PROVE  \A n \in 1..Len(seqs) : \E flat \in [1..n -> Seq(S)] : Joins(flat, seqs, n)
<1> DEFINE Reached(n) == \E flat \in [1..n -> Seq(S)] : Joins(flat, seqs, n)
           stuck == {n \in 1..Len(seqs) : ~Reached(n)}
<1>0. Len(seqs) \in Nat /\ \A i \in 1..Len(seqs) : seqs[i] \in Seq(S)
  OBVIOUS
<1>1. Len(seqs) >= 1 => Reached(1)
  <2>1. SUFFICES ASSUME Len(seqs) >= 1 PROVE Reached(1)
    OBVIOUS
  <2>2. [i \in 1..1 |-> seqs[1]] \in [1..1 -> Seq(S)]
    BY <1>0, <2>1
  <2>3. Joins([i \in 1..1 |-> seqs[1]], seqs, 1)
    BY DEF Joins
  <2> QED
    BY <2>2, <2>3
<1>2. ASSUME NEW n \in 2..Len(seqs), Reached(n - 1)
      PROVE  Reached(n)
  <2>1. PICK flat \in [1 .. n-1 -> Seq(S)] : Joins(flat, seqs, n - 1)
    BY <1>2
  <2> DEFINE more == [i \in 1..n |-> IF i = n THEN flat[n-1] \o seqs[n] ELSE flat[i]]
  <2>2. flat[n-1] \in Seq(S) /\ seqs[n] \in Seq(S)
    BY <1>0
  <2>3. flat[n-1] \o seqs[n] \in Seq(S)
    BY <2>2, ConcatProperties
  <2>4. more \in [1..n -> Seq(S)]
    BY <2>3
  <2>5. ASSUME NEW i \in 1..n
        PROVE  more[i] = IF i = 1 THEN seqs[i] ELSE more[i-1] \o seqs[i]
    <3>1. CASE i = n
      <4>1. more[i] = flat[n-1] \o seqs[n]
        BY <3>1
      <4>2. n - 1 \in 1..n /\ n - 1 # n /\ n # 1
        OBVIOUS
      <4>3. more[i-1] = flat[n-1]
        BY <3>1, <4>2
      <4> QED
        BY <3>1, <4>1, <4>2, <4>3
    <3>2. CASE i # n
      <4>1. i \in 1 .. n-1 /\ more[i] = flat[i]
        BY <3>2
      <4>2. i = 1 \/ more[i-1] = flat[i-1]
        BY <3>2
      <4> QED
        BY <2>1, <4>1, <4>2 DEF Joins
    <3> QED
      BY <3>1, <3>2
  <2>6. Joins(more, seqs, n)
    BY <2>5 DEF Joins
  <2> QED
    BY <2>4, <2>6
<1>3. stuck \in SUBSET Nat
  BY <1>0
<1>4. \A n \in 1..Len(seqs) : n \in stuck <=> ~Reached(n)
  OBVIOUS
<1>5. stuck \subseteq 1..Len(seqs)
  OBVIOUS
<1> HIDE DEF Reached, stuck
<1>6. stuck = {}
  <2>1. SUFFICES ASSUME stuck # {} PROVE FALSE
    OBVIOUS
  <2>2. PICK n \in stuck : \A m \in stuck : n <= m
    BY <1>3, <2>1, LeastNumber
  <2>3. n # 1 /\ n \in 2..Len(seqs)
    BY <1>0, <1>1, <1>4, <1>5
  <2>4. n - 1 \in 1..Len(seqs) /\ n - 1 \notin stuck
    BY <1>0, <2>2, <2>3
  <2> QED
    BY <1>2, <1>4, <1>5, <2>3, <2>4
<1>7. \A n \in 1..Len(seqs) : Reached(n)
  BY <1>4, <1>6
<1> QED
  BY <1>7 DEF Reached

LEMMA JoinsUnique ==
    ASSUME NEW seqs, NEW n \in Nat, NEW f, NEW g, Joins(f, seqs, n), Joins(g, seqs, n)
    PROVE  \A i \in 1..n : f[i] = g[i]
<1> DEFINE differ == {i \in 1..n : f[i] # g[i]}
<1>1. differ \in SUBSET Nat /\ differ \subseteq 1..n
  OBVIOUS
<1>2. \A i \in 1..n : i \in differ <=> f[i] # g[i]
  OBVIOUS
<1> HIDE DEF differ
<1>3. differ = {}
  <2>1. SUFFICES ASSUME differ # {} PROVE FALSE
    OBVIOUS
  <2>2. PICK i \in differ : \A m \in differ : i <= m
    BY <1>1, <2>1, LeastNumber
  <2>3. i \in 1..n /\ f[i] # g[i]
    BY <1>1, <1>2
  <2>4. CASE i = 1
    BY <2>3, <2>4 DEF Joins
  <2>5. CASE i # 1
    <3>1. i - 1 \in 1..n /\ i - 1 \notin differ
      BY <2>2, <2>3, <2>5
    <3>2. f[i-1] = g[i-1]
      BY <1>2, <3>1
    <3> QED
      BY <2>3, <2>5, <3>2 DEF Joins
  <2> QED
    BY <2>4, <2>5
<1> QED
  BY <1>2, <1>3

LEMMA Flattening ==
    ASSUME NEW S, NEW seqs \in Seq(Seq(S)), seqs # <<>>
    PROVE  \E flat \in [1..Len(seqs) -> Seq(S)] :
              /\ Joins(flat, seqs, Len(seqs))
              /\ FlattenSeq(seqs) = flat[Len(seqs)]
<1> DEFINE count == Len(seqs)
           Rec(g) == [i \in 1..count |-> IF i = 1 THEN seqs[i] ELSE g[i-1] \o seqs[i]]
           chosen == CHOOSE g : g = Rec(g)
<1>0. count \in Nat \ {0}
  OBVIOUS
<1>1. PICK flat \in [1..count -> Seq(S)] : Joins(flat, seqs, count)
  BY <1>0, JoinsExists
<1>2. flat = Rec(flat)
  <2>1. \A i \in 1..count : flat[i] = Rec(flat)[i]
    BY <1>1 DEF Joins
  <2> QED
    BY <2>1, Zenon
<1>3. chosen = Rec(chosen)
  BY <1>2
<1>4. FlattenSeq(seqs) = chosen[count]
  BY <1>0 DEF FlattenSeq
<1>5. Joins(chosen, seqs, count)
  <2>1. \A i \in 1..count : chosen[i] = Rec(chosen)[i]
    BY <1>3
  <2> HIDE DEF chosen
  <2> QED
    BY <2>1 DEF Joins
<1> HIDE DEF chosen
<1>6. chosen[count] = flat[count]
  BY <1>0, <1>1, <1>5, JoinsUnique
<1> QED
  BY <1>1, <1>4, <1>6

LEMMA NormalizeWord ==
    ASSUME NEW word \in Word
    PROVE  /\ Normalize(word) \in Seq(Word)
           /\ Normalize(word) = <<word>> \/ Len(Normalize(word)) = 7
<1>1. Star \in Word /\ Number(0) \in Word /\ Number(1) \in Word
  <2> DEFINE entry(form, n) ==
                [form |-> form, a |-> Token(n, "plain"), b |-> Token(n, "plain"), n |-> 0]
  <2>1. \A form \in {"*", "a"}, n \in Int : entry(form, n) \in Entry
    BY DEF Token, Entry, Style
  <2>2. \A e \in Entry : Fields(<<e>>) \in Word
    <3> TAKE e \in Entry
    <3>1. <<e>> \in Seq(Entry)
      OBVIOUS
    <3> QED
      BY <3>1 DEF Fields, Word
  <2>3. /\ Star = Fields(<<entry("*", 0)>>)
        /\ Number(0) = Fields(<<entry("a", 0)>>)
        /\ Number(1) = Fields(<<entry("a", 1)>>)
    BY DEF Star, Number
  <2> HIDE DEF entry
  <2> QED
    BY <2>1, <2>2, <2>3
<1> HIDE DEF Star, Number, Word
<1> QED
  BY <1>1 DEF Normalize

\* Without an alias the words are unchanged; an alias brings six more.
LEMMA NormalWordsOf ==
    ASSUME NEW words \in Seq(Word), words # <<>>
    PROVE  /\ NormalWords(words) \in Seq(Word)
           /\ NormalWords(words) = words \/ Len(NormalWords(words)) >= Len(words) + 6
<1> DEFINE count == Len(words)
           seqs == [i \in 1..count |-> Normalize(words[i])]
<1>0. count \in Nat \ {0} /\ DOMAIN words = 1..count /\ \A i \in 1..count : words[i] \in Word
  OBVIOUS
<1>1. /\ seqs \in Seq(Seq(Word)) /\ Len(seqs) = count /\ seqs # <<>>
      /\ \A i \in 1..count : seqs[i] = Normalize(words[i])
      /\ NormalWords(words) = FlattenSeq(seqs)
  <2>1. \A i \in 1..count : seqs[i] = Normalize(words[i]) /\ seqs[i] \in Seq(Word)
    BY <1>0, NormalizeWord
  <2>2. seqs \in [1..count -> Seq(Word)]
    BY <2>1
  <2>3. seqs \in Seq(Seq(Word)) /\ Len(seqs) = count
    BY <1>0, <2>2
  <2>4. NormalWords(words) = FlattenSeq(seqs)
    BY <1>0 DEF NormalWords
  <2> QED
    BY <1>0, <2>1, <2>3, <2>4
<1> HIDE DEF seqs
<1>2. PICK flat \in [1..count -> Seq(Word)] :
         Joins(flat, seqs, count) /\ FlattenSeq(seqs) = flat[count]
  BY <1>1, Flattening
<1>a. flat[1] = seqs[1] /\ \A n \in 2..count : flat[n] = flat[n-1] \o seqs[n]
  <2>1. \A i \in 1..count : flat[i] = IF i = 1 THEN seqs[i] ELSE flat[i-1] \o seqs[i]
    BY <1>2 DEF Joins
  <2>2. 1 \in 1..count /\ \A n \in 2..count : n \in 1..count /\ n # 1
    BY <1>0
  <2> QED
    BY <2>1, <2>2
<1> DEFINE Same(n) == Len(flat[n]) = n /\ \A i \in 1..n : flat[n][i] = words[i]
           Good(n) == Same(n) \/ Len(flat[n]) >= n + 6
           worse == {n \in 1..count : ~Good(n)}
<1>3. Good(1)
  <2>1. flat[1] = Normalize(words[1])
    BY <1>0, <1>1, <1>a
  <2>2. CASE flat[1] = <<words[1]>>
    BY <2>2
  <2>3. CASE Len(flat[1]) = 7
    BY <2>3
  <2> QED
    BY <1>0, <2>1, <2>2, <2>3, NormalizeWord
<1>4. ASSUME NEW n \in 2..count, Good(n - 1)
      PROVE  Good(n)
  <2>1. n - 1 \in 1..count /\ n \in 1..count /\ n # 1
    BY <1>0
  <2>2. PICK last \in Seq(Word) : /\ flat[n] = flat[n-1] \o last
                                  /\ last = <<words[n]>> \/ Len(last) = 7
    <3>1. flat[n] = flat[n-1] \o Normalize(words[n])
      BY <1>1, <1>a, <2>1
    <3>2. words[n] \in Word
      BY <1>0, <2>1
    <3> QED
      BY <3>1, <3>2, NormalizeWord
  <2>3. flat[n-1] \in Seq(Word)
    BY <2>1
  <2>4. /\ Len(flat[n]) = Len(flat[n-1]) + Len(last)
        /\ \A i \in 1..Len(flat[n]) :
              flat[n][i] = IF i <= Len(flat[n-1]) THEN flat[n-1][i] ELSE last[i - Len(flat[n-1])]
    BY <2>2, <2>3, ConcatProperties
  <2>5. Len(last) = 1 \/ Len(last) = 7
    BY <2>2
  <2>6. CASE Len(flat[n-1]) >= (n - 1) + 6 \/ Len(last) = 7
    <3>1. Len(flat[n-1]) >= n - 1 /\ Len(flat[n-1]) \in Nat
      BY <1>4, <2>3
    <3>2. Len(flat[n]) >= n + 6
      <4>1. PICK before \in Nat, after \in Nat, added \in Nat :
               before = Len(flat[n-1]) /\ after = Len(flat[n]) /\ added = Len(last)
        BY <2>3, <2>4, <2>5, <3>1
      <4>2. after = before + added
        BY <2>4, <4>1
      <4>3. before >= n - 1 /\ (added = 1 \/ added = 7)
        BY <2>5, <3>1, <4>1
      <4>4. before >= (n - 1) + 6 \/ added = 7
        BY <2>6, <4>1
      <4>5. after >= n + 6
        BY <4>2, <4>3, <4>4
      <4> QED
        BY <4>1, <4>5
    <3> QED
      BY <3>2
  <2>7. CASE Same(n - 1) /\ last = <<words[n]>>
    <3>1. Len(flat[n]) = n
      BY <2>4, <2>7
    <3>2. ASSUME NEW i \in 1..n
          PROVE  flat[n][i] = words[i]
      <4>1. CASE i = n
        BY <2>4, <2>7, <3>1, <4>1
      <4>2. CASE i # n
        BY <2>4, <2>7, <3>1, <4>2
      <4> QED
        BY <4>1, <4>2
    <3> QED
      BY <3>1, <3>2
  <2> QED
    BY <1>4, <2>2, <2>6, <2>7
<1>5. worse \in SUBSET Nat /\ worse \subseteq 1..count
  OBVIOUS
<1>6. \A n \in 1..count : n \in worse <=> ~Good(n)
  OBVIOUS
<1> HIDE DEF Good, worse
<1>7. worse = {}
  <2>1. SUFFICES ASSUME worse # {} PROVE FALSE
    OBVIOUS
  <2>2. PICK n \in worse : \A m \in worse : n <= m
    BY <1>5, <2>1, LeastNumber
  <2>3. n \in 2..count
    BY <1>0, <1>3, <1>5, <1>6
  <2>4. n - 1 \in 1..count /\ n - 1 \notin worse
    BY <1>0, <2>2, <2>3
  <2> QED
    BY <1>4, <1>5, <1>6, <2>3, <2>4
<1>8. Good(count)
  BY <1>0, <1>6, <1>7
<1>9. CASE Same(count)
  <2>1. flat[count] \in Seq(Word) /\ Len(flat[count]) = Len(words)
    BY <1>0, <1>9
  <2>2. flat[count] = words
    BY <1>9, <2>1, SeqEqual
  <2> QED
    BY <1>1, <1>2, <2>1, <2>2
<1>10. CASE ~Same(count)
  BY <1>0, <1>1, <1>2, <1>8, <1>10 DEF Good
<1> QED
  BY <1>9, <1>10

LEMMA CheckedExpression ==
    ASSUME NEW expr, ~Checked(expr).bad
    PROVE  /\ Checked(expr).expr = expr
           /\ expr.secondList # SyntaxError
           /\ expr.minuteList # SyntaxError
           /\ expr.hourList # SyntaxError
           /\ expr.monthList # SyntaxError
           /\ expr.yearList # SyntaxError
           /\ ~expr.dom.bad
           /\ ~expr.dow.bad
<1> DEFINE refused == \/ SyntaxError \in {expr.secondList, expr.minuteList, expr.hourList,
                                          expr.monthList, expr.yearList}
                      \/ expr.dom.bad
                      \/ expr.dow.bad
<1>1. Checked(expr) = IF refused THEN [bad |-> TRUE] ELSE [bad |-> FALSE, expr |-> expr]
  BY Zenon DEF Checked
<1>2. ~refused
  <2>1. [bad |-> TRUE].bad = TRUE
    OBVIOUS
  <2> HIDE DEF refused
  <2> QED
    BY <1>1, <2>1
<1>3. Checked(expr) = [bad |-> FALSE, expr |-> expr]
  BY <1>1, <1>2
<1> QED
  BY <1>2, <1>3

\* A schedule that parses has five, six or seven words, or it is one alias.
LEMMA Parsed ==
    ASSUME NEW words \in Seq(Word), words # <<>>, ~Parse(words, TRUE).bad
    PROVE  LET w == NormalWords(words)
           IN /\ w \in Seq(Word)
              /\ Len(w) \in 5..7
              /\ Len(words) > 1 => w = words
              /\ Parse(words, TRUE).expr = Expression(w, Len(w))
              /\ ~Checked(Expression(w, Len(w))).bad
<1>1. PICK w \in Seq(Word) : w = NormalWords(words)
  BY NormalWordsOf
<1>2. w = words \/ Len(w) >= Len(words) + 6
  BY <1>1, NormalWordsOf, Zenon
<1>3. PICK count \in Nat : count = Len(w)
  OBVIOUS
<1>4. count \in 5..7 /\ Parse(words, TRUE) = Checked(Expression(w, count))
  <2>1. ~(count < 5 \/ count > 7)
    BY <1>1, <1>3 DEF Parse, ParseWords
  <2>2. count \in 5..7 /\ (IF count > 7 THEN 7 ELSE count) = count
    BY <2>1
  <2>3. Parse(words, TRUE) = Checked(Expression(w, IF count > 7 THEN 7 ELSE count))
    BY <1>1, <1>3, <2>1, Zenon DEF Parse, ParseWords
  <2> QED
    BY <2>2, <2>3, Zenon
<1>5. ~Checked(Expression(w, count)).bad
  BY <1>4, Zenon
<1>6. Parse(words, TRUE).expr = Expression(w, count)
  BY <1>4, <1>5, CheckedExpression, Zenon
<1>7. Len(words) > 1 => w = words
  <2>1. PICK n \in Nat : n = Len(words)
    OBVIOUS
  <2> QED
    BY <1>2, <1>3, <1>4, <2>1
<1> QED
  BY <1>1, <1>3, <1>4, <1>5, <1>6, <1>7, Zenon

-----------------------------------------------------------------------------
(* The fields of a schedule *)

\* The handlers get the words that have the names of their fields.
LEMMA FieldsByName ==
    ASSUME NEW schedule \in Seq(Word), schedule # <<>>, ~Parse(schedule, TRUE).bad
    PROVE  LET expr == Parse(schedule, TRUE).expr
               field == Named(schedule)
           IN /\ DOMAIN field \subseteq DOMAIN Descriptor
              /\ {"dom", "dow"} \subseteq DOMAIN field
              /\ \A f \in DOMAIN field : field[f] \in Word
              /\ \A f \in DOMAIN Descriptor \ DOMAIN field : Lists(expr)[f] = Default(f)
              /\ \A f \in DOMAIN field \ {"dom", "dow"} :
                    /\ Lists(expr)[f] = GenericField(f, field[f])
                    /\ Lists(expr)[f] # SyntaxError
              /\ expr.dom = DomField(field["dom"]) /\ ~expr.dom.bad
              /\ expr.dow = DowField(field["dow"]) /\ ~expr.dow.bad
<1>1. PICK w \in Seq(Word) : w = NormalWords(schedule)
  BY Parsed, Zenon
<1>2. PICK count \in 5..7 : count = Len(w)
  BY <1>1, Parsed, Zenon
<1> DEFINE place == [second |-> 1, minute |-> 2, hour |-> 3, dom |-> 4,
                     month |-> 5, dow |-> 6, year |-> 7]
           missing == IF count = 7 THEN 0 ELSE 1
           names == {f \in DOMAIN place : place[f] - missing \in 1..count}
           expr == Expression(w, count)
           field == [f \in names |-> w[place[f] - missing]]
<1>3. Parse(schedule, TRUE).expr = expr /\ ~Checked(expr).bad
  BY <1>1, <1>2, Parsed, Zenon
<1>4. Named(schedule) = field
  BY <1>1, <1>2 DEF Named
<1>5. /\ names = {"minute", "hour", "dom", "month", "dow"}
                    \cup (IF count = 7 THEN {"second"} ELSE {})
                    \cup (IF count > 5 THEN {"year"} ELSE {})
      /\ \A f \in names : place[f] - missing \in 1..count
  OBVIOUS
<1>6. /\ DOMAIN field = names
      /\ \A f \in names : field[f] \in Word
  BY <1>2, <1>5
<1>7. /\ count = 7 => field["second"] = w[1]
      /\ field["minute"] = w[IF count = 7 THEN 2 ELSE 1]
      /\ field["hour"] = w[IF count = 7 THEN 3 ELSE 2]
      /\ field["dom"] = w[IF count = 7 THEN 4 ELSE 3]
      /\ field["month"] = w[IF count = 7 THEN 5 ELSE 4]
      /\ field["dow"] = w[IF count = 7 THEN 6 ELSE 5]
      /\ count > 5 => field["year"] = w[IF count = 7 THEN 7 ELSE 6]
  <2>1. \A f \in names : field[f] = w[place[f] - missing]
    OBVIOUS
  <2>2. /\ place["second"] = 1 /\ place["minute"] = 2 /\ place["hour"] = 3 /\ place["dom"] = 4
        /\ place["month"] = 5 /\ place["dow"] = 6 /\ place["year"] = 7
    OBVIOUS
  <2> HIDE DEF names, field, place
  <2>3. /\ 2 - missing = (IF count = 7 THEN 2 ELSE 1)
        /\ 3 - missing = (IF count = 7 THEN 3 ELSE 2)
        /\ 4 - missing = (IF count = 7 THEN 4 ELSE 3)
        /\ 5 - missing = (IF count = 7 THEN 5 ELSE 4)
        /\ 6 - missing = (IF count = 7 THEN 6 ELSE 5)
        /\ 7 - missing = (IF count = 7 THEN 7 ELSE 6)
        /\ count = 7 => 1 - missing = 1
    OBVIOUS
  <2> HIDE DEF missing
  <2>4. /\ {"minute", "hour", "dom", "month", "dow"} \subseteq names
        /\ count = 7 => "second" \in names
        /\ count > 5 => "year" \in names
    BY <1>5
  <2> QED
    BY <2>1, <2>2, <2>3, <2>4
<1> HIDE DEF names, field
<1>8. /\ expr.secondList = IF count = 7 THEN GenericField("second", field["second"]) ELSE {0}
      /\ expr.minuteList = GenericField("minute", field["minute"])
      /\ expr.hourList = GenericField("hour", field["hour"])
      /\ expr.dom = DomField(field["dom"])
      /\ expr.monthList = GenericField("month", field["month"])
      /\ expr.dow = DowField(field["dow"])
      /\ expr.yearList = IF count > 5 THEN GenericField("year", field["year"])
                                      ELSE DefaultList("year")
  BY <1>7 DEF Expression
<1> HIDE DEF expr
<1>9. /\ SyntaxError \notin {expr.secondList, expr.minuteList, expr.hourList, expr.monthList,
                             expr.yearList}
      /\ ~expr.dom.bad /\ ~expr.dow.bad
  BY <1>3, CheckedExpression
<1>10. /\ Lists(expr)["second"] = expr.secondList
       /\ Lists(expr)["minute"] = expr.minuteList
       /\ Lists(expr)["hour"] = expr.hourList
       /\ Lists(expr)["month"] = expr.monthList
       /\ Lists(expr)["year"] = expr.yearList
  BY DEF Lists
<1>11. \A f \in DOMAIN Descriptor \ DOMAIN field : Lists(expr)[f] = Default(f)
  BY <1>5, <1>6, <1>8, <1>10, Bounds DEF Default
<1>12. \A f \in DOMAIN field \ {"dom", "dow"} :
          /\ Lists(expr)[f] = GenericField(f, field[f])
          /\ Lists(expr)[f] # SyntaxError
  BY <1>5, <1>6, <1>8, <1>9, <1>10
<1>13. DOMAIN field \subseteq DOMAIN Descriptor /\ {"dom", "dow"} \subseteq DOMAIN field
  BY <1>5, <1>6 DEF Descriptor
<1> QED
  BY <1>3, <1>4, <1>6, <1>8, <1>9, <1>11, <1>12, <1>13, Zenon

\* An expression that parse returns is the documented one.
LEMMA ScheduleAsDocumented ==
    ASSUME NEW schedule \in Seq(Word), schedule # <<>>, ~Parse(schedule, TRUE).bad
    PROVE  AsDocumented(Parse(schedule, TRUE).expr, Named(schedule))
<1>1. PICK expr, field : expr = Parse(schedule, TRUE).expr /\ field = Named(schedule)
  OBVIOUS
<1>2. /\ DOMAIN field \subseteq DOMAIN Descriptor
      /\ {"dom", "dow"} \subseteq DOMAIN field
      /\ \A f \in DOMAIN field : field[f] \in Word
      /\ \A f \in DOMAIN Descriptor \ DOMAIN field : Lists(expr)[f] = Default(f)
      /\ \A f \in DOMAIN field \ {"dom", "dow"} :
            /\ Lists(expr)[f] = GenericField(f, field[f])
            /\ Lists(expr)[f] # SyntaxError
      /\ expr.dom = DomField(field["dom"]) /\ ~expr.dom.bad
      /\ expr.dow = DowField(field["dow"]) /\ ~expr.dow.bad
  BY <1>1, FieldsByName, Zenon
<1>3. ASSUME NEW f \in DOMAIN field \ {"dom", "dow"}
      PROVE  /\ Lists(expr)[f] = AllListed(f, field[f])
             /\ \A k \in DOMAIN field[f].entries :
                   Outside(f, field[f].entries[k]) =>
                      \E j \in 1 .. k - 1 : field[f].entries[j].form = "*"
             /\ Lists(expr)[f] # {} \/ \A e \in ToSet(field[f].entries) : Backwards(e)
  <2>1. f \in DOMAIN Descriptor \ {"dom", "dow"} /\ field[f].entries \in Seq(Entry)
    BY <1>2 DEF Word
  <2>2. Lists(expr)[f] = GenericField(f, field[f]) /\ GenericField(f, field[f]) # SyntaxError
    BY <1>2
  <2> QED
    BY <2>1, <2>2, GenericAsListed
<1>4. /\ Lists(expr)["dom"] = AllListed("dom", field["dom"])
      /\ \A k \in DOMAIN field["dom"].entries : ~Outside("dom", field["dom"].entries[k])
      /\ expr.dom.daysOfMonthRestricted = (With(field["dom"], "*") = {})
  <2>1. Lists(expr)["dom"] = expr.dom.daysOfMonth
    BY DEF Lists
  <2> QED
    BY <1>2, <2>1, DomAsListed
<1>5. /\ IsOdd("dow", field["dow"]) \/ Lists(expr)["dow"] = AllListed("dow", field["dow"])
      /\ \A k \in DOMAIN field["dow"].entries : ~Outside("dow", field["dow"].entries[k])
      /\ expr.dow.daysOfWeekRestricted = (With(field["dow"], "*") = {})
  <2>1. Lists(expr)["dow"] = expr.dow.daysOfWeek
    BY DEF Lists
  <2> QED
    BY <1>2, <2>1, DowAsListed
<1>6. \A f \in DOMAIN Descriptor :
         IF f \in DOMAIN field
         THEN IsOdd(f, field[f]) \/ Lists(expr)[f] = AllListed(f, field[f])
         ELSE Lists(expr)[f] = Default(f)
  BY <1>2, <1>3, <1>4, <1>5
<1>7. \A f \in DOMAIN field :
         \A k \in DOMAIN field[f].entries :
            Outside(f, field[f].entries[k]) =>
               /\ f \notin {"dom", "dow"}
               /\ \E j \in 1 .. k - 1 : field[f].entries[j].form = "*"
  BY <1>3, <1>4, <1>5
<1>8. \A f \in DOMAIN field \ {"dom", "dow"} :
         Lists(expr)[f] # {} \/ \A e \in ToSet(field[f].entries) : Backwards(e)
  BY <1>3, Zenon
<1>9. MarksAsDocumented(expr.dom, expr.dow, field["dom"], field["dow"])
  <2>1. ~DomField(field["dom"]).bad /\ ~DowField(field["dow"]).bad
    BY <1>2
  <2>2. MarksAsDocumented(DomField(field["dom"]), DowField(field["dow"]),
                          field["dom"], field["dow"])
    BY <2>1, MarksRead
  <2> QED
    BY <1>2, <2>2
<1>10. AsDocumented(expr, field)
  BY <1>4, <1>5, <1>6, <1>7, <1>8, <1>9, Zenon DEF AsDocumented
<1> QED
  BY <1>1, <1>10, Zenon

\* The sixth or seventh word of a schedule can be read as a year.
LEMMA LastWordIsYear ==
    ASSUME NEW schedule \in Seq(Word), ~Parse(schedule, TRUE).bad, Len(schedule) > 5
    PROVE  LooksLikeYear(schedule[Len(schedule)])
<1>1. schedule # <<>> /\ Len(schedule) \in Nat
  OBVIOUS
<1>2. /\ NormalWords(schedule) = schedule
      /\ Len(schedule) \in 6..7
      /\ ~Checked(Expression(schedule, Len(schedule))).bad
  <2>1. PICK count \in Nat : count = Len(schedule)
    BY <1>1
  <2>2. NormalWords(schedule) = schedule
    <3>1. Len(schedule) > 1
      BY <2>1
    <3> QED
      BY <1>1, <3>1, Parsed, Zenon
  <2>3. count \in 5..7 /\ ~Checked(Expression(schedule, count)).bad
    BY <1>1, <2>1, <2>2, Parsed
  <2>4. count \in 6..7
    BY <2>1, <2>3
  <2> QED
    BY <2>1, <2>2, <2>3, <2>4
<1>3. PICK word \in Word : word = schedule[Len(schedule)]
  BY <1>1, <1>2
<1>4. GenericField("year", word) # SyntaxError
  <2>1. PICK count \in 6..7 : count = Len(schedule)
    BY <1>2
  <2>2. schedule[IF count = 7 THEN 6 + 1 ELSE 6] = word
    BY <1>3, <2>1
  <2>3. Expression(schedule, count).yearList = GenericField("year", word)
    BY <2>1, <2>2 DEF Expression
  <2> QED
    BY <1>2, <2>1, <2>3, CheckedExpression
<1> DEFINE ds == Directives("year", word)
           entries == word.entries
<1>5. "year" \in DOMAIN Descriptor /\ entries \in Seq(Entry)
  BY DEF Descriptor, Word
<1>6. /\ ~Has(ds, "invalid")
      /\ entries # <<>>
      /\ \A i \in DOMAIN ds : ds[i].kind = "none" => \E j \in DOMAIN ds : ds[j].kind = "all"
  <2>1. entries # <<>>
    BY <1>4, <1>5, GenericAsListed
  <2> QED
    BY <1>4, <2>1 DEF GenericField, GenericList, Malformed
<1>7. PICK i \in DOMAIN entries : ds[i].kind # "none"
  <2>1. 1 \in DOMAIN entries
    BY <1>5, <1>6
  <2> QED
    BY <1>6, <2>1, WordDirectives
<1>8. ds[i] = Directive("year", entries[i]) /\ ds[i].kind \notin {"none", "invalid"}
  BY <1>6, <1>7, WordDirectives DEF Has
<1>9. /\ entries[i].form \in {"*", "a", "a-b", "*/n", "a/n", "a-b/n"}
      /\ entries[i].form \in {"a", "a-b", "a/n", "a-b/n"} => Matches("year", entries[i].a)
  BY <1>5, <1>8, TakenForm
<1>10. \A t : Matches("year", t) => t.n \in DefaultList("year")
  BY DEF Matches
<1>11. entries[i] \in ToSet(entries)
  BY DEF ToSet
<1> QED
  BY <1>3, <1>9, <1>10, <1>11 DEF LooksLikeYear

-----------------------------------------------------------------------------
(* The parts of a job line *)

JobsRead == {JobLine(words, count) : words \in Seq(Word), count \in {1, 5, 6, 7}}

LEMMA JobLineParts ==
    ASSUME NEW words \in Seq(Word), NEW count \in {1, 5, 6, 7}, IsSchedule(words, count)
    PROVE  LET job == JobLine(words, count)
           IN /\ job \in JobsRead
              /\ job.schedule \in Seq(Word)
              /\ Len(job.schedule) = count
              /\ job.schedule # <<>>
              /\ ~Parse(job.schedule, TRUE).bad
              /\ job.expression = Parse(job.schedule, TRUE).expr
              /\ words = job.schedule \o job.command
              /\ job.command # <<>>
              /\ count > 5 => LooksLikeYear(words[count])
<1>1. PICK n \in Nat : n = Len(words)
  OBVIOUS
<1>2. n > count /\ count \in 1..n /\ \A i \in 1..n : words[i] \in Word
  BY <1>1 DEF IsSchedule
<1>3. PICK schedule : schedule = SubSeq(words, 1, count)
  OBVIOUS
<1>4. PICK command : command = SubSeq(words, count + 1, Len(words))
  OBVIOUS
<1>5. /\ schedule \in Seq(Word)
      /\ Len(schedule) = count
      /\ schedule # <<>>
      /\ \A i \in 1..count : schedule[i] = words[i]
  <2>1. \A i \in 1..count : words[i] \in Word
    BY <1>2
  <2>2. schedule \in Seq(Word) /\ Len(schedule) = count
    BY <1>2, <1>3, <2>1, SubSeqProperties
  <2>3. \A i \in 1..count : schedule[i] = words[i]
    BY <1>1, <1>2, <1>3
  <2>4. ASSUME schedule = <<>> PROVE FALSE
    BY <2>2, <2>4
  <2> QED
    BY <2>2, <2>3, <2>4
<1>6. command # <<>> /\ words = schedule \o command
  <2>1. count + 1 \in 1..n /\ \A i \in count + 1 .. n : words[i] \in Word
    BY <1>2
  <2>2. Len(command) = n - (count + 1) + 1 /\ command \in Seq(Word)
    BY <1>1, <1>2, <1>4, <2>1, SubSeqProperties
  <2>3. ASSUME command = <<>> PROVE FALSE
    BY <1>2, <2>2, <2>3
  <2>4. words = SubSeq(words, 1, count) \o SubSeq(words, count + 1, n)
    <3>1. SubSeq(words, 1, n) = words
      BY <1>1, SubSeqFull
    <3>2. SubSeq(words, 1, n) = SubSeq(words, 1, count) \o SubSeq(words, count + 1, n)
      BY <1>1, <1>2, ConcatAdjacentSubSeq
    <3> QED
      BY <3>1, <3>2
  <2> QED
    BY <1>1, <1>3, <1>4, <2>3, <2>4
<1>7. ~Parse(schedule, TRUE).bad
  BY <1>3 DEF IsSchedule
<1>8. count > 5 => LooksLikeYear(words[count])
  <2>1. SUFFICES ASSUME count > 5 PROVE LooksLikeYear(words[count])
    OBVIOUS
  <2>2. LooksLikeYear(schedule[Len(schedule)])
    BY <1>5, <1>7, <2>1, LastWordIsYear
  <2>3. schedule[Len(schedule)] = words[count]
    BY <1>2, <1>5
  <2> QED
    BY <2>2, <2>3, Zenon
<1>9. JobLine(words, count) \in JobsRead
  BY DEF JobsRead
<1>10. PICK job : job = JobLine(words, count)
  OBVIOUS
<1>11. /\ job.expression = Parse(schedule, TRUE).expr
       /\ job.schedule = schedule
       /\ job.command = command
  BY <1>3, <1>4, <1>10 DEF JobLine
<1> QED
  BY <1>5, <1>6, <1>7, <1>8, <1>9, <1>10, <1>11, Zenon

\* The first count that does is the longest.
LEMMA LongestFirst ==
    ASSUME NEW words, NEW i \in Candidates(words), \A j \in Candidates(words) : i <= j
    PROVE  /\ parameterCounts[i] \in {1, 5, 6, 7}
           /\ IsSchedule(words, parameterCounts[i])
           /\ \A n \in {5, 6, 7} : IsSchedule(words, n) => n <= parameterCounts[i]
<1>1. /\ DOMAIN parameterCounts = 1..4
      /\ parameterCounts[1] = 7 /\ parameterCounts[2] = 6
      /\ parameterCounts[3] = 5 /\ parameterCounts[4] = 1
  BY DEF parameterCounts
<1>2. i \in 1..4 /\ IsSchedule(words, parameterCounts[i])
  BY <1>1 DEF Candidates
<1>3. \A j \in 1..4 : IsSchedule(words, parameterCounts[j]) => i <= j
  BY <1>1 DEF Candidates
<1>4. parameterCounts[i] \in {1, 5, 6, 7}
  BY <1>1, <1>2
<1>5. /\ IsSchedule(words, 7) => i <= 1
      /\ IsSchedule(words, 6) => i <= 2
      /\ IsSchedule(words, 5) => i <= 3
  BY <1>1, <1>3
<1>6. \A n \in {5, 6, 7} : IsSchedule(words, n) => n <= parameterCounts[i]
  BY <1>1, <1>2, <1>5
<1> QED
  BY <1>2, <1>4, <1>6

-----------------------------------------------------------------------------
(* The lines that were read *)

LEMMA LineRead ==
    ASSUME read \in Seq(Line), Len(read) < Len(Lines), NEW line \in Lines[Len(read) + 1]
    PROVE  line \in Line
<1>1. PICK n \in Nat : n = Len(read)
  OBVIOUS
<1>2. Len(Lines) \in Nat /\ \A i \in 1..Len(Lines) : Lines[i] \in SUBSET Line
  BY LinesAssumption
<1>3. n + 1 \in 1..Len(Lines)
  BY <1>1, <1>2
<1> QED
  BY <1>1, <1>2, <1>3

LEMMA KindOfLine ==
    ASSUME NEW line \in Line
    PROVE  /\ line.kind \in {"blank", "setting", "job"}
           /\ line.kind = "job" => line.words \in Seq(Word)
  BY DEF Line

LEMMA ScanNext ==
    ASSUME read \in Seq(Line), NEW line \in Line, Scan(line)
    PROVE  /\ read' \in Seq(Line)
           /\ \A kind : Places(kind)' = Places(kind) \cup (IF line.kind = kind THEN {Len(read) + 1}
                                                                              ELSE {})
           /\ \A kind : Places(kind) \subseteq 1..Len(read)
           /\ \A p \in 1..Len(read) : read'[p] = read[p]
           /\ read'[Len(read) + 1] = line
           /\ Len(read) \in Nat
<1>1. PICK after : after = read'
  OBVIOUS
<1>2. after = Append(read, line)
  BY <1>1 DEF Scan
<1>3. /\ after \in Seq(Line) /\ Len(read) \in Nat
      /\ DOMAIN after = 1 .. Len(read) + 1 /\ DOMAIN read = 1..Len(read)
      /\ \A p \in 1..Len(read) : after[p] = read[p]
      /\ after[Len(read) + 1] = line
  BY <1>2, AppendProperties
<1>4. ASSUME NEW kind
      PROVE  {p \in DOMAIN after : after[p].kind = kind} =
                {p \in DOMAIN read : read[p].kind = kind}
                   \cup (IF line.kind = kind THEN {Len(read) + 1} ELSE {})
  BY <1>3
<1>5. \A kind : Places(kind) \subseteq 1..Len(read)
  BY <1>3 DEF Places
<1>6. \A kind : Places(kind)' = {p \in DOMAIN after : after[p].kind = kind}
  BY <1>1 DEF Places
<1>7. \A kind : Places(kind) = {p \in DOMAIN read : read[p].kind = kind}
  BY DEF Places
<1>8. \A kind : Places(kind)' = Places(kind) \cup (IF line.kind = kind THEN {Len(read) + 1} ELSE {})
  BY <1>4, <1>6, <1>7
<1> QED
  BY <1>1, <1>3, <1>5, <1>8

-----------------------------------------------------------------------------
(* The jobs *)

\* A job's expression is what parse makes of its schedule.
Typed ==
    /\ outcome \in {"reading", "crontab", "error", "panic"}
    /\ read \in Seq(Line)
    /\ jobs \in Seq(JobsRead)

Scheduled ==
    \A i \in DOMAIN jobs :
        /\ jobs[i].schedule \in Seq(Word)
        /\ jobs[i].schedule # <<>>
        /\ ~Parse(jobs[i].schedule, TRUE).bad
        /\ jobs[i].expression = Parse(jobs[i].schedule, TRUE).expr

\* What ReadJob appends
LEMMA ReadJobNext ==
    ASSUME Typed, NEW line \in Line, ReadJob(line)
    PROVE  \E count \in {1, 5, 6, 7} :
              /\ IsSchedule(line.words, count)
              /\ \A n \in {5, 6, 7} : IsSchedule(line.words, n) => n <= count
              /\ line.words \in Seq(Word)
              /\ jobs' \in Seq(JobsRead)
              /\ DOMAIN jobs' = DOMAIN jobs \cup {Len(jobs) + 1}
              /\ DOMAIN jobs = 1..Len(jobs) /\ Len(jobs) \in Nat
              /\ \A i \in DOMAIN jobs : jobs'[i] = jobs[i]
              /\ jobs'[Len(jobs) + 1] = JobLine(line.words, count)
<1>1. PICK i \in Candidates(line.words) :
         /\ \A j \in Candidates(line.words) : i <= j
         /\ jobs' = Append(jobs, JobLine(line.words, parameterCounts[i]))
  BY DEF ReadJob
<1>2. PICK count : count = parameterCounts[i]
  OBVIOUS
<1>3. /\ count \in {1, 5, 6, 7}
      /\ IsSchedule(line.words, count)
      /\ \A n \in {5, 6, 7} : IsSchedule(line.words, n) => n <= count
  BY <1>1, <1>2, LongestFirst
<1>4. line.words \in Seq(Word)
  BY KindOfLine DEF ReadJob
<1>5. PICK job \in JobsRead : job = JobLine(line.words, count)
  BY <1>3, <1>4 DEF JobsRead
<1>6. PICK after : after = jobs'
  OBVIOUS
<1>7. after = Append(jobs, job) /\ jobs \in Seq(JobsRead)
  BY <1>1, <1>2, <1>5, <1>6 DEF Typed
<1>8. /\ after \in Seq(JobsRead)
      /\ DOMAIN after = DOMAIN jobs \cup {Len(jobs) + 1}
      /\ DOMAIN jobs = 1..Len(jobs) /\ Len(jobs) \in Nat
      /\ \A k \in DOMAIN jobs : after[k] = jobs[k]
      /\ after[Len(jobs) + 1] = job
  BY <1>7, AppendProperties
<1> QED
  BY <1>3, <1>4, <1>5, <1>6, <1>8

\* The other steps that read a line
LEMMA OtherNext ==
    ASSUME Typed, NEW line \in Line,
           \/ ReadBlank(line) \/ BadJob(line)
           \/ ReadSetting(line) \/ BadZone(line) \/ SettingPanics(line)
    PROVE  UNCHANGED jobs /\ outcome' \in {"reading", "error", "panic"}
  BY DEF Typed, Scan, ReadBlank, BadJob, ReadSetting, BadZone, SettingPanics

\* A step of ParseCrontab by what it reads
LEMMA StepOf ==
    ASSUME Typed, [Next]_vars
    PROVE  \/ \E line \in Line :
                 /\ Scan(line)
                 /\ \/ ReadBlank(line) \/ ReadJob(line) \/ BadJob(line)
                    \/ ReadSetting(line) \/ BadZone(line) \/ SettingPanics(line)
           \/ /\ UNCHANGED <<jobs, environ, shell, tz, read>>
              /\ \/ outcome = "reading" /\ outcome' \in {"error", "crontab"}
                 \/ UNCHANGED outcome
<1>1. CASE \E line \in Lines[Len(read) + 1] :
              /\ Len(read) < Len(Lines)
              /\ \/ ReadBlank(line) \/ ReadJob(line) \/ BadJob(line)
                 \/ ReadSetting(line) \/ BadZone(line) \/ SettingPanics(line)
  <2>1. PICK line \in Lines[Len(read) + 1] :
           /\ Len(read) < Len(Lines)
           /\ \/ ReadBlank(line) \/ ReadJob(line) \/ BadJob(line)
              \/ ReadSetting(line) \/ BadZone(line) \/ SettingPanics(line)
    BY <1>1
  <2>2. line \in Line
    BY <2>1, LineRead DEF Typed
  <2>3. Scan(line)
    BY <2>1 DEF ReadBlank, ReadJob, BadJob, ReadSetting, BadZone, SettingPanics
  <2> QED
    BY <2>1, <2>2, <2>3
<1>2. CASE ScanFails \/ EndOfCrontab \/ UNCHANGED vars
  BY <1>2 DEF ScanFails, EndOfCrontab, vars
<1> QED
  BY <1>1, <1>2 DEF Next

LEMMA TypedNext ==
    ASSUME Typed, Scheduled, [Next]_vars
    PROVE  Typed' /\ Scheduled'
<1>1. ASSUME NEW line \in Line, Scan(line), ReadJob(line)
      PROVE  Typed' /\ Scheduled'
  <2>1. PICK count \in {1, 5, 6, 7} :
           /\ IsSchedule(line.words, count)
           /\ line.words \in Seq(Word)
           /\ jobs' \in Seq(JobsRead)
           /\ DOMAIN jobs' = DOMAIN jobs \cup {Len(jobs) + 1}
           /\ \A i \in DOMAIN jobs : jobs'[i] = jobs[i]
           /\ jobs'[Len(jobs) + 1] = JobLine(line.words, count)
    BY <1>1, ReadJobNext
  <2>2. Typed'
    BY <1>1, <2>1, ScanNext DEF Typed, ReadJob
  <2>3. PICK after, job : after = jobs' /\ job = JobLine(line.words, count)
    OBVIOUS
  <2>4. /\ job.schedule \in Seq(Word)
        /\ job.schedule # <<>>
        /\ ~Parse(job.schedule, TRUE).bad
        /\ job.expression = Parse(job.schedule, TRUE).expr
    BY <2>1, <2>3, JobLineParts
  <2>5. \A i \in DOMAIN after : (i \in DOMAIN jobs /\ after[i] = jobs[i]) \/ after[i] = job
    BY <2>1, <2>3
  <2>6. \A i \in DOMAIN after :
           /\ after[i].schedule \in Seq(Word)
           /\ after[i].schedule # <<>>
           /\ ~Parse(after[i].schedule, TRUE).bad
           /\ after[i].expression = Parse(after[i].schedule, TRUE).expr
    BY <2>4, <2>5, Zenon DEF Scheduled
  <2>7. Scheduled'
    BY <2>3, <2>6 DEF Scheduled
  <2> QED
    BY <2>2, <2>7
<1>2. ASSUME NEW line \in Line, Scan(line),
             \/ ReadBlank(line) \/ BadJob(line)
             \/ ReadSetting(line) \/ BadZone(line) \/ SettingPanics(line)
      PROVE  Typed' /\ Scheduled'
  BY <1>2, OtherNext, ScanNext DEF Typed, Scheduled
<1>3. CASE /\ UNCHANGED <<jobs, environ, shell, tz, read>>
           /\ \/ outcome = "reading" /\ outcome' \in {"error", "crontab"}
              \/ UNCHANGED outcome
  BY <1>3 DEF Typed, Scheduled
<1> QED
  BY <1>1, <1>2, <1>3, StepOf

\* What every job of a crontab is, for all crontabs: its schedule parses, and its
\* expression is the one that parse returned for it.
LEMMA TypedAlways == Spec => [](Typed /\ Scheduled)
<1>1. Init => Typed /\ Scheduled
  BY DEF Init, Typed, Scheduled
<1>2. Typed /\ Scheduled /\ [Next]_vars => (Typed /\ Scheduled)'
  BY TypedNext
<1> QED
  BY <1>1, <1>2, PTL DEF Spec

\* Every list of every job's expression, those of L, W and # included, is the one
\* that cronexpr/README.md gives for the words of its schedule, for every crontab
\* and but for the odd weekdays (genericFieldHandler and the handlers of the days
\* in cronexpr_parse.go).
THEOREM DocumentedLists == Spec => []ReadAsDocumented
<1>1. Typed /\ Scheduled => ReadAsDocumented
  BY ScheduleAsDocumented DEF Scheduled, ReadAsDocumented
<1> QED
  BY <1>1, TypedAlways, PTL

-----------------------------------------------------------------------------
(* The job lines *)

\* CommandKept of a witness, some jobs, the lines with the places of job lines
\* among them, and an outcome
Kept(place, list, lines, places, result) ==
    /\ place \in [DOMAIN list -> places]
    /\ \A i, j \in DOMAIN list : i < j => place[i] < place[j]
    /\ result # "error" => \A p \in places : \E i \in DOMAIN list : place[i] = p
    /\ \A i \in DOMAIN list :
          LET words == lines[place[i]].words
              count == Len(list[i].schedule)
          IN /\ words = list[i].schedule \o list[i].command
             /\ list[i].command # <<>>
             /\ count > 5 => LooksLikeYear(words[count])
             /\ \A n \in {5, 6, 7} : IsSchedule(words, n) => n <= count

LEMMA KeptIsCommandKept ==
    /\ CommandKept <=> \E place : Kept(place, jobs, read, Places("job"), outcome)
    /\ CommandKept' <=> \E place : Kept(place, jobs', read', Places("job")', outcome')
  BY DEF CommandKept, Kept

LEMMA CommandKeptNext ==
    ASSUME Typed, Scheduled, CommandKept, [Next]_vars
    PROVE  CommandKept'
<1>1. PICK place : Kept(place, jobs, read, Places("job"), outcome)
  BY KeptIsCommandKept
<1>2. DOMAIN jobs = 1..Len(jobs) /\ Len(jobs) \in Nat
  BY DEF Typed
<1>3. ASSUME NEW line \in Line, Scan(line), ReadJob(line)
      PROVE  CommandKept'
  <2>1. /\ Places("job")' = Places("job") \cup {Len(read) + 1}
        /\ Places("job") \subseteq 1..Len(read)
        /\ \A p \in 1..Len(read) : read'[p] = read[p]
        /\ read'[Len(read) + 1] = line
        /\ Len(read) \in Nat
    BY <1>3, ScanNext DEF Typed, ReadJob
  <2>2. PICK count \in {1, 5, 6, 7} :
           /\ IsSchedule(line.words, count)
           /\ \A n \in {5, 6, 7} : IsSchedule(line.words, n) => n <= count
           /\ line.words \in Seq(Word)
           /\ DOMAIN jobs' = DOMAIN jobs \cup {Len(jobs) + 1}
           /\ \A i \in DOMAIN jobs : jobs'[i] = jobs[i]
           /\ jobs'[Len(jobs) + 1] = JobLine(line.words, count)
    BY <1>3, ReadJobNext
  <2>3. PICK more, lines, job, last :
           /\ more = jobs' /\ lines = read'
           /\ job = JobLine(line.words, count)
           /\ last = Len(read) + 1
    OBVIOUS
  <2> DEFINE new == Len(jobs) + 1
             next == [i \in DOMAIN more |-> IF i = new THEN last ELSE place[i]]
  <2>4. /\ DOMAIN more = DOMAIN jobs \cup {new} /\ new \notin DOMAIN jobs
        /\ \A i \in DOMAIN jobs : more[i] = jobs[i] /\ i < new
        /\ more[new] = job
    BY <1>2, <2>2, <2>3
  <2>5. /\ next[new] = last
        /\ \A i \in DOMAIN jobs : next[i] = place[i] /\ place[i] \in Places("job")
        /\ DOMAIN next = DOMAIN more
    BY <1>1, <2>4 DEF Kept
  <2> HIDE DEF new, next
  <2>6. /\ last \in Int
        /\ \A p \in Places("job") : p \in Int /\ p < last /\ lines[p] = read[p]
        /\ lines[last] = line
    BY <2>1, <2>3
  <2>7. next \in [DOMAIN more -> Places("job") \cup {last}]
    <3>1. \A i \in DOMAIN more : next[i] \in Places("job") \cup {last}
      BY <2>4, <2>5
    <3>2. next = [i \in DOMAIN more |-> next[i]]
      BY <2>5 DEF next
    <3> QED
      BY <3>1, <3>2
  <2>8. ASSUME NEW i \in DOMAIN more, NEW j \in DOMAIN more, i < j
        PROVE  next[i] < next[j]
    <3>1. CASE j = new
      <4>1. i \in DOMAIN jobs
        BY <1>2, <2>4, <2>8, <3>1 DEF new
      <4> QED
        BY <2>5, <2>6, <3>1, <4>1
    <3>2. CASE j # new
      <4>1. i \in DOMAIN jobs /\ j \in DOMAIN jobs
        BY <1>2, <2>4, <2>8, <3>2 DEF new
      <4> QED
        BY <1>1, <2>5, <2>8, <4>1 DEF Kept
    <3> QED
      BY <3>1, <3>2
  <2>9. ASSUME NEW p \in Places("job") \cup {last}
        PROVE  \E i \in DOMAIN more : next[i] = p
    <3>1. CASE p = last
      BY <2>4, <2>5, <3>1
    <3>2. CASE p # last
      <4>1. outcome # "error"
        BY <1>3 DEF Scan
      <4>2. PICK i \in DOMAIN jobs : place[i] = p
        BY <1>1, <3>2, <4>1 DEF Kept
      <4> QED
        BY <2>4, <2>5, <4>2
    <3> QED
      BY <3>1, <3>2
  <2>10. ASSUME NEW i \in DOMAIN more
         PROVE  /\ lines[next[i]].words = more[i].schedule \o more[i].command
                /\ more[i].command # <<>>
                /\ Len(more[i].schedule) > 5 =>
                      LooksLikeYear(lines[next[i]].words[Len(more[i].schedule)])
                /\ \A n \in {5, 6, 7} :
                      IsSchedule(lines[next[i]].words, n) => n <= Len(more[i].schedule)
    <3>1. CASE i = new
      <4>1. more[i] = job /\ lines[next[i]] = line
        BY <2>4, <2>5, <2>6, <3>1
      <4>2. /\ line.words = job.schedule \o job.command
            /\ job.command # <<>>
            /\ Len(job.schedule) = count
            /\ count > 5 => LooksLikeYear(line.words[count])
        BY <2>2, <2>3, JobLineParts, Zenon
      <4> QED
        BY <2>2, <4>1, <4>2, Zenon
    <3>2. CASE i # new
      <4>1. i \in DOMAIN jobs
        BY <2>4, <3>2
      <4>2. more[i] = jobs[i] /\ lines[next[i]] = read[place[i]]
        BY <2>4, <2>5, <2>6, <4>1
      <4> QED
        BY <1>1, <4>1, <4>2, Zenon DEF Kept
    <3> QED
      BY <3>1, <3>2
  <2>11. Kept(next, more, lines, Places("job") \cup {last}, outcome')
    BY <2>7, <2>8, <2>9, <2>10, Zenon DEF Kept
  <2>12. Places("job")' = Places("job") \cup {last}
    BY <2>1, <2>3
  <2> QED
    BY <2>3, <2>11, <2>12, KeptIsCommandKept, Zenon
<1>4. ASSUME NEW line \in Line, Scan(line),
             \/ ReadBlank(line) \/ BadJob(line)
             \/ ReadSetting(line) \/ BadZone(line) \/ SettingPanics(line)
      PROVE  CommandKept'
  <2>1. UNCHANGED jobs
    BY <1>4, OtherNext
  <2>2. /\ Places("job") \subseteq Places("job")' /\ Places("job") \subseteq 1..Len(read)
        /\ \A p \in 1..Len(read) : read'[p] = read[p]
    BY <1>4, ScanNext DEF Typed
  <2>3. outcome' # "error" => Places("job")' = Places("job") /\ outcome # "error"
    <3>1. line.kind = "job" => outcome' = "error"
      BY <1>4 DEF ReadBlank, BadJob, ReadSetting, BadZone, SettingPanics
    <3>2. outcome # "error"
      BY <1>4 DEF Scan
    <3>3. line.kind # "job" => Places("job")' = Places("job")
      BY <1>4, ScanNext DEF Typed
    <3> QED
      BY <3>1, <3>2, <3>3
  <2>4. Kept(place, jobs, read', Places("job")', outcome')
    <3>1. \A i \in DOMAIN jobs : read'[place[i]] = read[place[i]]
      BY <1>1, <2>2 DEF Kept
    <3>2. place \in [DOMAIN jobs -> Places("job")']
      BY <1>1, <2>2 DEF Kept
    <3>3. outcome' # "error" => \A p \in Places("job")' : \E i \in DOMAIN jobs : place[i] = p
      BY <1>1, <2>3 DEF Kept
    <3> QED
      BY <1>1, <3>1, <3>2, <3>3 DEF Kept
  <2> QED
    BY <2>1, <2>4, KeptIsCommandKept
<1>5. CASE /\ UNCHANGED <<jobs, environ, shell, tz, read>>
           /\ \/ outcome = "reading" /\ outcome' \in {"error", "crontab"}
              \/ UNCHANGED outcome
  <2>1. Places("job")' = Places("job")
    BY <1>5 DEF Places
  <2>2. Kept(place, jobs, read, Places("job"), outcome')
    BY <1>1, <1>5 DEF Kept
  <2> QED
    BY <1>5, <2>1, <2>2, KeptIsCommandKept
<1> QED
  BY <1>3, <1>4, <1>5, StepOf

\* The job lines become jobs one by one and in their order, each divided without
\* a loss where its longest schedule ends, for every crontab (parseJobLine).
THEOREM CommandsKept == Spec => []CommandKept
<1>1. Init => CommandKept
  <2>1. SUFFICES ASSUME Init PROVE CommandKept
    OBVIOUS
  <2>2. DOMAIN jobs = {} /\ Places("job") = {}
    BY <2>1 DEF Init, Places
  <2>3. [i \in DOMAIN jobs |-> i] \in [DOMAIN jobs -> Places("job")]
    BY <2>2
  <2>4. Kept([i \in DOMAIN jobs |-> i], jobs, read, Places("job"), outcome)
    BY <2>2, <2>3 DEF Kept
  <2> QED
    BY <2>4, KeptIsCommandKept, Zenon
<1>2. CommandKept /\ Typed /\ Scheduled /\ [Next]_vars => CommandKept'
  BY CommandKeptNext
<1> QED
  BY <1>1, <1>2, TypedAlways, PTL DEF Spec

-----------------------------------------------------------------------------
(* The settings *)

LastOfKey(key, p, lines, places) ==
    /\ p \in places
    /\ lines[p].key = key
    /\ \A q \in places : lines[q].key = key => q <= p

LEMMA LastOfKeyIsLast ==
    /\ \A key, p : IsLast(key, p) <=> LastOfKey(key, p, read, Places("setting"))
    /\ \A key, p : IsLast(key, p)' <=> LastOfKey(key, p, read', Places("setting")')
  BY DEF IsLast, LastOfKey

\* Where no setting is read, the last ones stay.
LEMMA NoSetting ==
    ASSUME Typed, NEW line \in Line, Scan(line), line.kind # "setting"
    PROVE  /\ Places("setting")' = Places("setting")
           /\ \A p \in Places("setting") : read'[p] = read[p]
           /\ \A key, p : IsLast(key, p) => IsLast(key, p)'
<1>1. Places("setting")' = Places("setting") /\ \A p \in Places("setting") : read'[p] = read[p]
  BY ScanNext DEF Typed
<1>2. \A key, p : LastOfKey(key, p, read, Places("setting")) =>
                     LastOfKey(key, p, read', Places("setting")')
  BY <1>1 DEF LastOfKey
<1> QED
  BY <1>1, <1>2, LastOfKeyIsLast

\* A setting that is read is the last of its key, and of no other one.
LEMMA SettingIsLast ==
    ASSUME Typed, NEW line \in Line, Scan(line), line.kind = "setting"
    PROVE  \E new :
              /\ Places("setting")' = Places("setting") \cup {new}
              /\ new \notin Places("setting")
              /\ read'[new] = line
              /\ \A p \in Places("setting") : read'[p] = read[p]
              /\ IsLast(line.key, new)'
              /\ \A key, p : key # line.key /\ IsLast(key, p) => IsLast(key, p)'
<1>1. PICK new, after, places, more :
         /\ new = Len(read) + 1 /\ after = read'
         /\ places = Places("setting") /\ more = Places("setting")'
  OBVIOUS
<1>2. /\ more = places \cup {new}
      /\ places \subseteq 1..Len(read)
      /\ \A p \in 1..Len(read) : after[p] = read[p]
      /\ after[new] = line
      /\ Len(read) \in Nat
  BY <1>1, ScanNext DEF Typed
<1>3. /\ new \in Int /\ \A p \in places : p \in Int /\ p < new /\ after[p] = read[p]
  BY <1>1, <1>2
<1>4. LastOfKey(line.key, new, after, more)
  BY <1>2, <1>3 DEF LastOfKey
<1>5. ASSUME NEW key, NEW p, key # line.key, LastOfKey(key, p, read, places)
      PROVE  LastOfKey(key, p, after, more)
  BY <1>2, <1>3, <1>5 DEF LastOfKey
<1>6. \A key, p : key # line.key /\ IsLast(key, p) => IsLast(key, p)'
  BY <1>1, <1>5, LastOfKeyIsLast, Zenon
<1>7. IsLast(line.key, new)'
  BY <1>1, <1>4, LastOfKeyIsLast
<1>8. new \notin places
  BY <1>3
<1> QED
  BY <1>1, <1>2, <1>3, <1>6, <1>7, <1>8, Zenon

\* The value of a key that ParseCrontab looks for
LEMMA LastCountsNext ==
    ASSUME Typed, NEW line \in Line, Scan(line), line.kind = "setting",
           NEW key, NEW value, NEW default, LastCounts(key, value, default),
           NEW next, next = IF line.key = key THEN line.text ELSE value
    PROVE  LastCounts(key, next, default)'
<1>1. PICK new :
         /\ Places("setting")' = Places("setting") \cup {new}
         /\ read'[new] = line
         /\ \A p \in Places("setting") : read'[p] = read[p]
         /\ IsLast(line.key, new)'
         /\ \A other, p : other # line.key /\ IsLast(other, p) => IsLast(other, p)'
  BY SettingIsLast
<1>2. PICK after, places, more :
         /\ after = read' /\ places = Places("setting") /\ more = Places("setting")'
  OBVIOUS
<1>3. CASE line.key = key
  BY <1>1, <1>3 DEF LastCounts
<1>4. CASE line.key # key
  <2>1. CASE value = default /\ \A p \in Places("setting") : read[p].key # key
    BY <1>1, <1>4, <2>1 DEF LastCounts
  <2>2. CASE \E p \in Places("setting") : IsLast(key, p) /\ value = read[p].text
    BY <1>1, <1>4, <2>2 DEF LastCounts
  <2> QED
    BY <2>1, <2>2 DEF LastCounts
<1> QED
  BY <1>3, <1>4

\* While the crontab is read, no setting has ended the program.
LEMMA Settings ==
    ASSUME Typed, NEW line \in Line, Scan(line), ContextOfTheFile
    PROVE  /\ outcome = "reading"
           /\ \A p \in Places("setting") : ~EmptyValue(read[p])
           /\ (line.kind = "setting" /\ EmptyValue(line))
                 <=> \E p \in Places("setting")' : EmptyValue(read'[p])
<1>1. /\ outcome = "reading"
      /\ \A p \in Places("setting") : ~EmptyValue(read[p])
  BY DEF Scan, ContextOfTheFile
<1>2. CASE line.kind = "setting"
  BY <1>1, <1>2, SettingIsLast
<1>3. CASE line.kind # "setting"
  BY <1>1, <1>3, NoSetting
<1> QED
  BY <1>1, <1>2, <1>3

LEMMA ContextNext ==
    ASSUME Typed, ContextOfTheFile, [Next]_vars
    PROVE  ContextOfTheFile'
<1>1. ASSUME NEW line \in Line, Scan(line), ReadSetting(line)
      PROVE  ContextOfTheFile'
  <2>1. line.kind = "setting" /\ ~EmptyValue(line)
    BY <1>1 DEF ReadSetting
  <2>2. /\ outcome = "reading" /\ outcome' = "reading"
        /\ ~ \E p \in Places("setting")' : EmptyValue(read'[p])
    BY <1>1, <2>1, Settings DEF ReadSetting
  <2>3. PICK new :
           /\ Places("setting")' = Places("setting") \cup {new}
           /\ read'[new] = line
           /\ \A p \in Places("setting") : read'[p] = read[p]
           /\ IsLast(line.key, new)'
           /\ \A key, p : key # line.key /\ IsLast(key, p) => IsLast(key, p)'
    BY <1>1, <2>1, SettingIsLast
  <2>4. /\ DOMAIN environ = {read[p].key : p \in Places("setting")}
        /\ \A key \in DOMAIN environ :
              \E p \in Places("setting") : IsLast(key, p) /\ environ[key] = read[p].text
        /\ LastCounts("SHELL", shell, "/bin/sh")
        /\ LastCounts("CRON_TZ", tz, "Local")
    BY <2>2 DEF ContextOfTheFile
  <2>5. PICK more : more = environ'
    OBVIOUS
  <2>6. /\ DOMAIN more = DOMAIN environ \cup {line.key}
        /\ more[line.key] = line.text
        /\ \A key \in DOMAIN environ \ {line.key} : more[key] = environ[key]
    BY <1>1, <2>5 DEF ReadSetting, Put
  <2>7. DOMAIN more = {read'[p].key : p \in Places("setting")'}
    BY <2>3, <2>4, <2>6
  <2>8. ASSUME NEW key \in DOMAIN more
        PROVE  \E p \in Places("setting")' : IsLast(key, p)' /\ more[key] = read'[p].text
    <3>1. CASE key = line.key
      BY <2>3, <2>6, <3>1
    <3>2. CASE key # line.key
      BY <2>3, <2>4, <2>6, <3>2
    <3> QED
      BY <3>1, <3>2
  <2>9. LastCounts("SHELL", shell, "/bin/sh")'
    <3>1. PICK value, next : value = shell /\ next = shell'
      OBVIOUS
    <3>2. next = IF line.key = "SHELL" THEN line.text ELSE value
      BY <1>1, <3>1 DEF ReadSetting
    <3>3. LastCounts("SHELL", value, "/bin/sh")
      BY <2>4, <3>1
    <3>4. LastCounts("SHELL", next, "/bin/sh")'
      BY <1>1, <2>1, <3>2, <3>3, LastCountsNext
    <3> QED
      BY <3>1, <3>4 DEF LastCounts
  <2>10. LastCounts("CRON_TZ", tz, "Local")'
    <3>1. PICK value, next : value = tz /\ next = tz'
      OBVIOUS
    <3>2. next = IF line.key = "CRON_TZ" THEN line.text ELSE value
      BY <1>1, <3>1 DEF ReadSetting
    <3>3. LastCounts("CRON_TZ", value, "Local")
      BY <2>4, <3>1
    <3>4. LastCounts("CRON_TZ", next, "Local")'
      BY <1>1, <2>1, <3>2, <3>3, LastCountsNext
    <3> QED
      BY <3>1, <3>4 DEF LastCounts
  <2> QED
    BY <2>2, <2>5, <2>7, <2>8, <2>9, <2>10 DEF ContextOfTheFile
<1>2. ASSUME NEW line \in Line, Scan(line), ReadBlank(line) \/ ReadJob(line)
      PROVE  ContextOfTheFile'
  <2>1. line.kind # "setting" /\ UNCHANGED <<outcome, environ, shell, tz>>
    BY <1>2 DEF ReadBlank, ReadJob
  <2>2. /\ outcome = "reading"
        /\ ~ \E p \in Places("setting")' : EmptyValue(read'[p])
    BY <1>2, <2>1, Settings
  <2>3. /\ Places("setting")' = Places("setting")
        /\ \A p \in Places("setting") : read'[p] = read[p]
        /\ \A key, p : IsLast(key, p) => IsLast(key, p)'
    BY <1>2, <2>1, NoSetting
  <2>4. /\ DOMAIN environ = {read[p].key : p \in Places("setting")}
        /\ \A key \in DOMAIN environ :
              \E p \in Places("setting") : IsLast(key, p) /\ environ[key] = read[p].text
        /\ LastCounts("SHELL", shell, "/bin/sh")
        /\ LastCounts("CRON_TZ", tz, "Local")
    BY <2>2 DEF ContextOfTheFile
  <2>5. DOMAIN environ' = {read'[p].key : p \in Places("setting")'}
    BY <2>1, <2>3, <2>4
  <2>6. \A key \in DOMAIN environ' :
           \E p \in Places("setting")' : IsLast(key, p)' /\ environ'[key] = read'[p].text
    BY <2>1, <2>3, <2>4
  <2>7. LastCounts("SHELL", shell, "/bin/sh")' /\ LastCounts("CRON_TZ", tz, "Local")'
    BY <2>1, <2>3, <2>4 DEF LastCounts
  <2> QED
    BY <2>1, <2>2, <2>5, <2>6, <2>7 DEF ContextOfTheFile
<1>3. ASSUME NEW line \in Line, Scan(line), BadJob(line) \/ BadZone(line)
      PROVE  ContextOfTheFile'
  <2>1. outcome' = "error" /\ ~(line.kind = "setting" /\ EmptyValue(line))
    BY <1>3 DEF BadJob, BadZone
  <2>2. ~ \E p \in Places("setting")' : EmptyValue(read'[p])
    BY <1>3, <2>1, Settings
  <2> QED
    BY <2>1, <2>2 DEF ContextOfTheFile
<1>4. ASSUME NEW line \in Line, Scan(line), SettingPanics(line)
      PROVE  ContextOfTheFile'
  <2>1. outcome' = "panic" /\ line.kind = "setting" /\ EmptyValue(line)
    BY <1>4 DEF SettingPanics
  <2>2. \E p \in Places("setting")' : EmptyValue(read'[p])
    BY <1>4, <2>1, Settings
  <2> QED
    BY <2>1, <2>2 DEF ContextOfTheFile
<1>5. CASE /\ UNCHANGED <<jobs, environ, shell, tz, read>>
           /\ \/ outcome = "reading" /\ outcome' \in {"error", "crontab"}
              \/ UNCHANGED outcome
  <2>1. /\ outcome' \in {"reading", "crontab"} => outcome \in {"reading", "crontab"}
        /\ (outcome' = "panic") = (outcome = "panic")
    BY <1>5
  <2>2. /\ Places("setting")' = Places("setting")
        /\ \A key, p : IsLast(key, p)' <=> IsLast(key, p)
    BY <1>5 DEF IsLast, Places
  <2>3. (\E p \in Places("setting")' : EmptyValue(read'[p]))
           <=> \E p \in Places("setting") : EmptyValue(read[p])
    BY <1>5, <2>2
  <2>4. (outcome' = "panic") <=> \E p \in Places("setting")' : EmptyValue(read'[p])
    BY <2>1, <2>3 DEF ContextOfTheFile
  <2>5. ASSUME outcome' \in {"reading", "crontab"}
        PROVE  /\ DOMAIN environ' = {read'[p].key : p \in Places("setting")'}
               /\ \A key \in DOMAIN environ' :
                     \E p \in Places("setting")' : IsLast(key, p)' /\ environ'[key] = read'[p].text
               /\ LastCounts("SHELL", shell, "/bin/sh")'
               /\ LastCounts("CRON_TZ", tz, "Local")'
    BY <1>5, <2>1, <2>2, <2>5 DEF ContextOfTheFile, LastCounts
  <2> QED
    BY <2>4, <2>5 DEF ContextOfTheFile
<1> QED
  BY <1>1, <1>2, <1>3, <1>4, <1>5, StepOf

\* The context that the jobs share is that of the whole file, and only a setting
\* without a value ends the program, for every crontab (ParseCrontab).
THEOREM LastSettingsCount == Spec => []ContextOfTheFile
<1>1. Init => ContextOfTheFile
  <2>1. SUFFICES ASSUME Init PROVE ContextOfTheFile
    OBVIOUS
  <2>2. /\ outcome = "reading" /\ shell = "/bin/sh" /\ tz = "Local"
        /\ DOMAIN environ = {} /\ Places("setting") = {}
    BY <2>1 DEF Init, Places
  <2>3. LastCounts("SHELL", shell, "/bin/sh") /\ LastCounts("CRON_TZ", tz, "Local")
    BY <2>2 DEF LastCounts
  <2>4. DOMAIN environ = {read[p].key : p \in Places("setting")}
    BY <2>2
  <2> QED
    BY <2>2, <2>3, <2>4 DEF ContextOfTheFile
<1>2. ContextOfTheFile /\ Typed /\ [Next]_vars => ContextOfTheFile'
  BY ContextNext
<1> QED
  BY <1>1, <1>2, TypedAlways, PTL DEF Spec

=============================================================================
