------------------------------ MODULE MCSearch -----------------------------
(***************************************************************************)
(* Small instances of Search for TLC.                                      *)
(***************************************************************************)
EXTENDS Search, TLC

CONSTANTS
    memo, note, plan, menu, \* documents
    m1, m2, n1, p1, u1,     \* chunks: the memo has two
    k1, k2                  \* clicks

DocumentOfChunk ==
    [c \in Chunks |-> IF c \in {m1, m2} THEN memo ELSE IF c = n1 THEN note
                       ELSE IF c = p1 THEN plan ELSE menu]

ClickSymmetry == Permutations(Clicks)
=============================================================================
