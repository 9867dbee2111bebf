------------------------- MODULE MCInferenceEngine -------------------------
(***************************************************************************)
(* Model checking of InferenceEngine, with the service it implements:      *)
(* sound and unsound requests as model values; the requests of one kind    *)
(* are interchangeable.                                                    *)
(***************************************************************************)
EXTENDS EngineRefinement, TLC

Alike ==
    Permutations(Requests \ (Corrupt \cup BadDims)) \cup Permutations(Corrupt)
=============================================================================
