-------------------------- MODULE EngineRefinement --------------------------
(***************************************************************************)
(* InferenceEngine implements InferenceService, and takes no more from the *)
(* model manager than ModelGate grants.                                    *)
(***************************************************************************)
EXTENDS InferenceEngine, FiniteSets

Service == INSTANCE InferenceService WITH
    status    <- future,
    held      <- {queue[i] : i \in 1..Len(queue)} \ {None},
    working   <- {batch[i] : i \in Undelivered},
    decided   <- {callbacks[i].req : i \in 1..Len(callbacks)},
    closing   <- shutdownEvent,
    abandoned <- ~loopOpen

\* Whatever the engine's threads do, its callers see a bounded service that
\* turns a request away only when it is full and gives each accepted one a
\* single verdict that is its own (EnqueueRequest, perform_inference,
\* batch_processing_loop and shutdown together).
ImplementsService == Service!Spec

-----------------------------------------------------------------------------
(* The other side of the engine: what the worker's calls of the manager may *)
(* return, seen by one request.                                            *)

GatePhase ==
    IF ~modelLoaded THEN "unloaded"
    ELSE IF shut = "unloading" THEN "unloading"
    ELSE "loaded"

\* preprocess_inputs has been called for r, and returned a tensor.
Attempted(r) ==
    /\ worker \notin {"collecting", "requeuing"}
    /\ \E i \in 1..Len(batch) :
          batch[i] = r /\ (worker = "preprocessing" => i < cursor)

Preprocessed(r) == \E k \in 1..Len(tensors) : tensors[k] = r

GateStage(r) ==
    IF ~Attempted(r) THEN "idle"
    ELSE IF ~Preprocessed(r) \/ worker = "failing" THEN "failed"
    ELSE IF worker = "delivering" THEN "answered"
    ELSE "prepared"

Gate(r) == INSTANCE ModelGate WITH phase <- GatePhase, stage <- GateStage(r)

GateOpen == \A r \in Requests : GatePhase = "loaded" /\ GateStage(r) = "idle"

Granted ==
    \A r \in Requests \ Corrupt :
        Gate(r)!Next \/ UNCHANGED <<GatePhase, GateStage(r)>>

\* Through batching, partial failures and a teardown under a live worker, the
\* manager's calls for a request come in the order, and with the outcomes, that
\* ModelGate has in its phase: no answer without a tensor and a model, no tensor
\* from a model that is going, and no failure of an image that can be processed
\* while the model is there (perform_inference and cleanup_model).  This is what
\* ImplementsGate of ModelManager shows of the manager.
KeepsToGate == GateOpen /\ [][Granted]_vars
=============================================================================
