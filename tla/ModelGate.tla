------------------------------ MODULE ModelGate ------------------------------
(***************************************************************************)
(* What InferenceEngine takes the model manager for: a gate that lets the  *)
(* worker's calls through or makes them fail, in three phases.             *)
(* ModelManager implements it field by field (ImplementsGate), and         *)
(* InferenceEngine keeps to it for each request (KeepsToGate of            *)
(* EngineRefinement).                                                      *)
(***************************************************************************)
VARIABLES
    phase,  \* of the model: loaded, unloading or unloaded
    stage   \* of the worker's batch

vars == <<phase, stage>>

Init == phase = "unloaded" /\ stage = "idle"

Load == phase = "unloaded" /\ stage = "idle" /\ phase' = "loaded" /\ UNCHANGED stage

Unload == phase = "loaded" /\ phase' = "unloading" /\ UNCHANGED stage

Unloaded == phase = "unloading" /\ phase' = "unloaded" /\ UNCHANGED stage

Preprocess ==
    /\ phase = "loaded"
    /\ stage = "idle"
    /\ stage' = "prepared"
    /\ UNCHANGED phase

\* An image that can be processed only fails without its model.
PreprocessFails ==
    /\ phase # "loaded"
    /\ stage = "idle"
    /\ stage' = "failed"
    /\ UNCHANGED phase

\* predict and top_k_from_logits together.
Predict ==
    /\ phase # "unloaded"
    /\ stage = "prepared"
    /\ stage' = "answered"
    /\ UNCHANGED phase

PredictFails == stage = "prepared" /\ stage' = "failed" /\ UNCHANGED phase

NextBatch == stage \in {"answered", "failed"} /\ stage' = "idle" /\ UNCHANGED phase

\* The process ends, at any point.
Exit == phase' = "unloaded" /\ stage' = "idle"

Next ==
    \/ Load
    \/ Unload
    \/ Unloaded
    \/ Preprocess
    \/ PreprocessFails
    \/ Predict
    \/ PredictFails
    \/ NextBatch
    \/ Exit

Spec == Init /\ [][Next]_vars
=============================================================================
