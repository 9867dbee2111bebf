--------------------------- MODULE MCModelManager ---------------------------
(***************************************************************************)
(* Model checking of ModelManager: each backend, with and without a        *)
(* MODEL_PATH, defaults, values at and beyond the bounds of validate and a *)
(* text that is no number.                                                 *)
(***************************************************************************)
EXTENDS ModelManager, TLC

CONSTANT Garbled

Plain == [f \in {} |-> None]
Local == [MODEL_PATH |-> "models"]
Onnx == [MODEL_PATH |-> "onnx_models", INFERENCE_BACKEND |-> "onnx"]

MCEnvironments ==
    {Plain, Local, Onnx,
     Onnx @@ [INFERENCE_DEVICE |-> "cpu", TOP_K_PREDICTIONS |-> 100,
              MAX_TOP_K_PREDICTIONS |-> 100],
     [MODEL_PATH |-> "onnx_models", INFERENCE_BACKEND |-> "tensorrt"],
     [INFERENCE_BACKEND |-> "onnx"],
     [TOP_K_PREDICTIONS |-> 0],
     [TOP_K_PREDICTIONS |-> 2000, MAX_TOP_K_PREDICTIONS |-> 2000],
     [MAX_CONCURRENT_REQUESTS |-> 0],
     [MAX_BATCH_SIZE |-> Garbled]}
=============================================================================
