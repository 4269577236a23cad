------------------------------ MODULE Metadata ------------------------------
(***************************************************************************)
(* What ingestion reads out of a document's text: the dates of             *)
(* documents/metadata.py, the filter that searches by them, and the        *)
(* entities of documents/ner.py.                                           *)
(*                                                                         *)
(* A text is a sequence of dated phrases that do not overlap one another;  *)
(* what an expression matches is the whole of a phrase, or for a month and *)
(* a year the tail of one.  Amounts are a list of matches and left out.    *)
(***************************************************************************)
EXTENDS Integers, Sequences, SequencesExt

\* How a date is written: 2024-03-15, 15/3 2024, 15 mars 2024, mars 2024.
Forms == {"iso", "slash", "text", "month"}

\* A day and a month have two digits; a month in words is one of _SWEDISH_MONTHS.
Phrases ==
    {phrase \in [form : Forms, year : Nat, month : 0 .. 99, day : 0 .. 99] :
        phrase.form \in {"text", "month"} => phrase.month \in 1 .. 12}

\* The expressions, in the order extract_dates runs them, each with the forms
\* it matches in: "mars 2024" is also the tail of "15 mars 2024".
Expressions == <<{"iso"}, {"slash"}, {"text"}, {"text", "month"}>>
MonthExpression == 4

ValidMonthDay(phrase) == phrase.month \in 1 .. 12 /\ phrase.day \in 1 .. 31

\* The normalised form a match gets: with its day, or day 0 without one.
Iso(expression, phrase) ==
    [year |-> phrase.year, month |-> phrase.month,
     day |-> IF expression = MonthExpression THEN 0 ELSE phrase.day]

\* A match of the expression is the date of the phrase.  The month of a month and
\* a year is one of the names, so it always is one.
Matches(e, phrase) ==
    /\ phrase.form \in Expressions[e]
    /\ e = MonthExpression \/ ValidMonthDay(phrase)

AppendNew(list, x) == IF Contains(list, x) THEN list ELSE Append(list, x)

\* Mutant: a span is claimed only when its date is new.
AddNewOnly(text, acc, m) ==
    LET iso == Iso(m.expression, text[m.at]) IN
    IF m.at \in acc.claimed \/ Contains(acc.found, iso) THEN acc
    ELSE [claimed |-> acc.claimed \cup {m.at}, found |-> Append(acc.found, iso)]

\* _add: a match inside a claimed span is dropped, any other one claims its
\* span, and its date is found unless it was found before.
Add(text, acc, m) ==
    IF m.at \in acc.claimed THEN acc
    ELSE [claimed |-> acc.claimed \cup {m.at},
          found |-> AppendNew(acc.found, Iso(m.expression, text[m.at]))]

\* One expression, left to right.
Scan(text, acc, e) ==
    LET after[i \in 0 .. Len(text)] ==
            IF i = 0 THEN acc
            ELSE IF Matches(e, text[i]) THEN Add(text, after[i - 1], [expression |-> e, at |-> i])
            ELSE after[i - 1]
    IN after[Len(text)]

NothingFound == [claimed |-> {}, found |-> <<>>]

ExtractDates(text) ==
    Scan(text, Scan(text, Scan(text, Scan(text, NothingFound, 1), 2), 3), 4).found

-----------------------------------------------------------------------------
(* The date filter of a search (search/service.py), over the dates a document *)
(* was given above.  A calendar date is a normalised form with its day.     *)

DaysInMonth(year, month) ==
    IF month = 2 THEN (IF year % 4 = 0 /\ (year % 100 # 0 \/ year % 400 = 0) THEN 29 ELSE 28)
    ELSE IF month \in {4, 6, 9, 11} THEN 30 ELSE 31

\* A month without a day is compared as the first of the month.
AsDate(iso) == IF iso.day = 0 THEN [iso EXCEPT !.day = 1] ELSE iso

\* PostgreSQL's cast to date raises for a day the calendar does not have.
CastsToDate(iso) == iso.year > 0 /\ AsDate(iso).day <= DaysInMonth(iso.year, iso.month)

NotAfter(date, other) ==
    LET number(d) == 10000 * d.year + 100 * d.month + d.day IN number(date) <= number(other)

\* The days a range may begin or end with.
Days == [year : Nat, month : 1 .. 12, day : 1 .. 31]

\* Mutant: the end of the range is left out.
BeforeEnd(date, range) ==
    NotAfter(range.from, date) /\ NotAfter(date, range.to) /\ date # range.to

\* BETWEEN: both bounds are included.
Within(date, range) == NotAfter(range.from, date) /\ NotAfter(date, range.to)

\* What _DATE_FILTER may come to, for the dates of one document: EXISTS looks
\* at them in an order of the planner's choice, until one is in the range or
\* one raises.
DateFilter(dates, range) ==
    {answer \in {"found", "not found", "raises"} :
        LET read == {dates[i] : i \in DOMAIN dates}
            cast == {iso \in read : CastsToDate(iso)}
            match == {iso \in cast : Within(AsDate(iso), range)}
        IN CASE answer = "found" -> match # {}
             [] answer = "raises" -> cast # read
             [] OTHER -> cast = read /\ match = {}}

-----------------------------------------------------------------------------
\* _map_label: the categories that are indexed, by the tag of the model.
PrimaryLabel == [PER |-> "person", PRS |-> "person", ORG |-> "organisation",
                 LOC |-> "location", TME |-> "time", EVN |-> "event"]

\* A span of the model's answer, its word stripped and casefolded.
Spans == [group : STRING, word : STRING, confident : BOOLEAN]

Indexable(span) == span.group \in DOMAIN PrimaryLabel /\ span.confident /\ span.word # ""

\* entities_from_tagged: one entity per word, whatever its case, and label.
EntitiesFromTagged(spans) ==
    LET Entity(span) == [word |-> span.word, label |-> PrimaryLabel[span.group]]
        after[i \in 0 .. Len(spans)] ==
            IF i = 0 THEN <<>>
            ELSE IF Indexable(spans[i]) THEN AppendNew(after[i - 1], Entity(spans[i]))
            ELSE after[i - 1]
    IN after[Len(spans)]

=============================================================================
