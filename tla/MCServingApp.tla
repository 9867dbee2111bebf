---------------------------- MODULE MCServingApp ----------------------------
(***************************************************************************)
(* Model checking of ServingApp.                                           *)
(***************************************************************************)
EXTENDS ServingApp, TLC

Alike == Permutations(Requests \ (Corrupt \cup BadDims))
=============================================================================
