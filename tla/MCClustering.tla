---------------------------- MODULE MCClustering ---------------------------
(***************************************************************************)
(* Small instances of Clustering for TLC.                                  *)
(***************************************************************************)
EXTENDS Clustering

CONSTANTS d1, d2, w1, w2
=============================================================================
