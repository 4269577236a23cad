--------------------------- MODULE MCDeployment ---------------------------
(***************************************************************************)
(* Deployment for TLC: two workflow runs that may overlap, an operator, and *)
(* code before and after the scripts that change tables an older version   *)
(* already uses (0015, 0016, 0017).  The operator's goals lie before the   *)
(* first table and before the nullable embedding.                          *)
(***************************************************************************)
EXTENDS Deployment, TLC

Symmetry == Permutations(Deploys)

MCCodes == {14, 18}

MCGoals == {0, 10}

=============================================================================
