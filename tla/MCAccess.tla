------------------------------ MODULE MCAccess ------------------------------
(***************************************************************************)
(* Instances of Access: a user in two organisations and one yet to be      *)
(* created, a token for the first organisation, and as many connections    *)
(* as requests, each of which may want two.                                *)
(***************************************************************************)
EXTENDS Access, TLC

CONSTANTS ann, bob, acme, bolt, t1, r1, r2, c1, c2

MCScope == [t \in Tokens |-> acme]
MCEnrolled == {<<ann, acme>>, <<ann, bolt>>}

\* The requests are alike, and so are the connections.
Symmetry == Permutations({r1, r2}) \cup Permutations({c1, c2})
=============================================================================
