----------------------------- MODULE MCPipeline -----------------------------
(***************************************************************************)
(* Pipeline for TLC: up to three chunks in batches of two, and a few texts *)
(* and answers of a tagger in which dates and names repeat.                *)
(***************************************************************************)
EXTENDS Pipeline

Phrase(form, day, month) == [form |-> form, day |-> day, month |-> month, year |-> 2024]

MCTexts ==
    LET day == Phrase("text", 15, 3)
        noDay == Phrase("text", 45, 3)
        month == Phrase("month", 0, 3)
        iso == Phrase("iso", 15, 3)
        noMonth == Phrase("iso", 15, 13)
        slash == Phrase("slash", 15, 4)
        noSuchDay == Phrase("slash", 31, 2)
    IN {<<day, day>>, <<day, iso>>, <<month, slash>>, <<noDay, noMonth>>, <<noSuchDay, day>>}

\* A range that ends on a date of the texts, one between their dates, and the
\* first day of a month.
MCRanges ==
    LET Day(day, month) == [year |-> 2024, month |-> month, day |-> day]
        Between(from, to) == [from |-> from, to |-> to]
    IN {Between(Day(2, 3), Day(15, 3)), Between(Day(16, 3), Day(14, 4)), Between(Day(1, 3), Day(1, 3))}

MCTaggings ==
    LET anna == [group |-> "PER", word |-> "anna", confident |-> TRUE]
        Anna == [group |-> "PRS", word |-> "anna", confident |-> TRUE]
        unsure == [group |-> "LOC", word |-> "lund", confident |-> FALSE]
        thing == [group |-> "OBJ", word |-> "saab", confident |-> TRUE]
    IN {<<>>, <<anna, Anna, unsure>>, <<thing, unsure>>}

=============================================================================
