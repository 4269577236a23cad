---------------------------- MODULE MCIngestion ----------------------------
(***************************************************************************)
(* Small instances of Ingestion for TLC.                                   *)
(***************************************************************************)
EXTENDS Ingestion, TLC

CONSTANTS
    u1, u2, u3, u4, \* uploads
    s1, s2,         \* worker slots
    acme,           \* the organisation
    report,         \* a PDF of three chunks
    photo,          \* an image: metadata only, no chunks
    broken,         \* a text whose one chunk holds a NUL character
    program,        \* an executable: skipped
    video           \* a file above the size limit

AllToAcme == [u \in Uploads |-> acme]

\* The first two uploads carry the same file.
ReportsBrokenVideo  == [u \in Uploads |-> IF u = u3 THEN broken
                                           ELSE IF u = u4 THEN video ELSE report]
TwoReportsAndPhoto  == [u \in Uploads |-> IF u = u3 THEN photo ELSE report]
OnlyReports == [u \in Uploads |-> report]
OnlyBroken  == [u \in Uploads |-> broken]

StrategyOf == [c \in Contents |-> IF c = photo THEN "metadata_only"
                                  ELSE IF c = program THEN "skip"
                                  ELSE "extract"]
ChunksOf == [c \in Contents |-> IF c = report THEN 3 ELSE 1]

Unlimited == [o \in Orgs |-> NoLimit]
OneADay   == [o \in Orgs |-> 1]
TwoADay   == [o \in Orgs |-> 2]

SlotSymmetry == Permutations(Slots)
=============================================================================
