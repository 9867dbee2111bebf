---------------------------- MODULE ModelManager ----------------------------
(***************************************************************************)
(* src/model_manager.py in a container that is restarted whenever it ends: *)
(* the process reads its Config, InferenceEngine.__init__ constructs the   *)
(* manager of the configured backend and loads the model, then the worker  *)
(* makes its calls while, at any point of them, cleanup_model may take the *)
(* manager apart field by field (a join that timed out).  The onnx and     *)
(* tensorrt backends load what OnnxArtifact wrote, or is writing.          *)
(***************************************************************************)
EXTENDS OnnxArtifact

CONSTANTS
    Environments,  \* environments the container may be given
    HubClasses,    \* number of classes of the models on the hub
    LocalModels    \* class counts of the models found in local directories

ASSUME ManagerAssumption ==
    /\ HubClasses \in Nat
    /\ HubClasses >= 100
    /\ LocalModels \subseteq Nat \ {0}
    /\ None \notin Graph \cup {"cpu", "cuda", "hub", "local"}

VARIABLES
    env,          \* the environment of the container
    cuda,         \* torch.cuda.is_available()
    proc,         \* where the process is
    device,       \* manager.device
    processor,    \* image_processor, as where it was loaded from
    model,        \* the torch model, as its number of classes
    session,      \* the ONNX session
    id2label,     \* the revision whose labels it holds, 0 for a local model's
    modelLoaded,  \* model_loaded
    call,         \* where the worker is in the calls for a batch
    tensor,       \* the device of the preprocessed images
    logits,       \* the number of classes of the prediction
    quiet         \* history: no export has run since before the load

fields == <<processor, model, session, id2label, modelLoaded>>
batchVars == <<call, tensor, logits>>
managerVars == <<env, cuda, proc, device, fields, batchVars, quiet>>
vars == <<artifactVars, managerVars>>

config == FromEnv(env)
Torch == config.INFERENCE_BACKEND = "torch"

\* The thread of the engine exists: load_model has returned.
Serving == {"serving", "dropProcessor", "dropFlag", "dropBackend", "stopped"}

MTypeOK ==
    /\ ArtifactTypeOK
    /\ env \in Environments
    /\ cuda \in BOOLEAN
    /\ proc \in {"down", "loading", "labels"} \cup Serving
    /\ device \in {"cpu", "cuda", None}
    /\ processor \in {"local", "hub", None}
    /\ model \in Nat \cup {None}
    /\ session \in Graph \cup {None}
    /\ id2label \in Nat \cup {None}
    /\ modelLoaded \in BOOLEAN
    /\ call \in {"idle", "preprocess", "prepared", "predict", "forward", "scored",
                 "answered", "failed"}
    /\ tensor \in {"cpu", "cuda", None}
    /\ logits \in Nat \cup {None}
    /\ quiet \in BOOLEAN

MInit ==
    /\ ArtifactInit
    /\ env \in Environments
    /\ cuda \in BOOLEAN
    /\ proc = "down"
    /\ device = None
    /\ processor = None
    /\ model = None
    /\ session = None
    /\ id2label = None
    /\ modelLoaded = FALSE
    /\ call = "idle"
    /\ tensor = None
    /\ logits = None
    /\ quiet = FALSE

-----------------------------------------------------------------------------
(* From the start of the process to the end of load_model.                 *)

\* ModelManager.__init__: cuda where there is one, the CPU otherwise.
ChosenDevice == IF cuda /\ config.INFERENCE_DEVICE = "cuda" THEN "cuda" ELSE "cpu"

\* ONNXModelManager.__init__ raises unless the graph file exists, whatever is in
\* it, and TensorRT has its device.
Constructible ==
    \/ Torch
    \/ /\ config.MODEL_PATH # None
       /\ graph # None
       /\ config.INFERENCE_BACKEND = "tensorrt" => ChosenDevice = "cuda"

\* Config.from_env and init_model_manager up to the constructor; whatever raises
\* there ends the process before it has begun.
Boot ==
    /\ proc = "down"
    /\ Loads(env)
    /\ Constructible
    /\ proc' = "loading"
    /\ device' = ChosenDevice
    /\ quiet' = (exporter \in {"verified", "unverified"})
    /\ UNCHANGED <<artifactVars, env, cuda, fields, batchVars>>

\* The end of TorchModelManager.load_model: id2label from the config of the model,
\* None where it has none, and model_loaded.
LoadTorch(from, classes, ids) ==
    /\ proc = "loading"
    /\ Torch
    /\ processor' = from
    /\ model' = classes
    /\ id2label' = ids
    /\ modelLoaded' = TRUE
    /\ proc' = "serving"
    /\ UNCHANGED <<artifactVars, env, cuda, device, session, batchVars, quiet>>

\* A model and its processor from MODEL_PATH, with labels or without.
LoadLocal ==
    /\ config.MODEL_PATH # None
    /\ \E classes \in LocalModels, ids \in {0, None} :
          LoadTorch("local", classes, ids)

\* No directory, or one that lacks either of the two, of which nothing is kept:
\* both come from the hub or its cache.
LoadHub ==
    LoadTorch("hub", HubClasses, IF upstream \in Unlabelled THEN None ELSE upstream)

\* Mutant: a graph that is torn makes a session all the same.
LoadSession_Torn ==
    /\ proc = "loading"
    /\ ~Torch
    /\ graph # None
    /\ processor' = "hub"
    /\ session' = graph
    /\ proc' = "labels"
    /\ UNCHANGED <<artifactVars, env, cuda, device, model, id2label, modelLoaded,
                   batchVars, quiet>>

\* ONNXModelManager.load_model: the processor of the hub and a session on the
\* graph.  A graph that is torn raises.
LoadSession ==
    /\ proc = "loading"
    /\ ~Torch
    /\ graph \in Graph
    /\ processor' = "hub"
    /\ session' = graph
    /\ proc' = "labels"
    /\ UNCHANGED <<artifactVars, env, cuda, device, model, id2label, modelLoaded,
                   batchVars, quiet>>

\* json.load of the label file and its id2label, after the session.
LoadLabels ==
    /\ proc = "labels"
    /\ labels \in Revisions \ Unlabelled
    /\ id2label' = labels
    /\ modelLoaded' = TRUE
    /\ proc' = "serving"
    /\ UNCHANGED <<artifactVars, env, cuda, device, processor, model, session,
                   batchVars, quiet>>

\* The process is gone, and the manager with it.
Reset ==
    /\ proc' = "down"
    /\ device' = None
    /\ processor' = None
    /\ model' = None
    /\ session' = None
    /\ id2label' = None
    /\ modelLoaded' = FALSE
    /\ call' = "idle"
    /\ tensor' = None
    /\ logits' = None
    /\ quiet' = FALSE
    /\ UNCHANGED <<artifactVars, env, cuda>>

\* load_model raises: a hub that does not answer, or a file that is torn or
\* missing.  Nothing that was loaded halfway outlives the constructor.
LoadFails ==
    /\ \/ proc = "loading"
       \/ proc = "labels" /\ labels \notin Revisions \ Unlabelled
    /\ Reset

\* The process ends, by itself after the shutdown or at any other point.
Exit == proc \in Serving /\ Reset

-----------------------------------------------------------------------------
(* The worker's calls for one batch.                                       *)

\* One read of the manager by the call the worker is in: it goes on to the next
\* place, or the call raises.
Read(from, goesOn, next) ==
    /\ proc \in Serving
    /\ call = from
    /\ call' = IF goesOn THEN next ELSE "failed"
    /\ UNCHANGED <<artifactVars, env, cuda, proc, device, fields, quiet>>

\* preprocess_inputs checks model_loaded ...
PreprocessCheck ==
    /\ Read("idle", modelLoaded, "preprocess")
    /\ UNCHANGED <<tensor, logits>>

\* Mutant: the tensors are moved to the device for every backend.
PreprocessRun_Moves ==
    /\ Read("preprocess", processor # None, "prepared")
    /\ tensor' = IF processor # None THEN device ELSE None
    /\ UNCHANGED logits

\* ... and calls image_processor, whose tensors only torch wants on the device.
PreprocessRun ==
    /\ Read("preprocess", processor # None, "prepared")
    /\ tensor' = IF processor = None THEN None
                 ELSE IF Torch THEN device ELSE "cpu"
    /\ UNCHANGED logits

\* What predict of the backend calls.
Backend == IF Torch THEN model ELSE session

\* predict checks model_loaded ...
PredictCheck ==
    /\ Read("prepared", modelLoaded, "predict")
    /\ UNCHANGED <<tensor, logits>>

\* ... reads the model (model.eval) or the session (if not self.session) ...
PredictTouch ==
    /\ Read("predict", Backend # None, "forward")
    /\ UNCHANGED <<tensor, logits>>

\* ... and reads it again to run it, on the device of the model or, through
\* inputs.numpy(), on the CPU.  That the backend itself raises (no memory left, an
\* error of session.run) is left out here, where the question is whether what was
\* loaded fits together; the engine lets every prediction fail (WPredictFails).
PredictRun ==
    LET runs == Backend # None /\ tensor = (IF Torch THEN device ELSE "cpu")
    IN  /\ Read("forward", runs, "scored")
        /\ logits' = IF ~runs THEN None
                     ELSE IF Torch THEN model ELSE HubClasses
        /\ UNCHANGED tensor

\* Mutant: top_k_from_logits does without the check of model_loaded.
TopK_Unchecked ==
    /\ Read("scored", config.TOP_K_PREDICTIONS \in 1..logits /\ id2label # None,
            "answered")
    /\ UNCHANGED <<tensor, logits>>

\* top_k_from_logits
TopK ==
    /\ Read("scored", /\ config.TOP_K_PREDICTIONS \in 1..logits
                      /\ modelLoaded
                      /\ id2label # None,
            "answered")
    /\ UNCHANGED <<tensor, logits>>

\* The worker turns to its next batch.
NextBatch ==
    /\ call \in {"answered", "failed"}
    /\ call' = "idle"
    /\ tensor' = None
    /\ logits' = None
    /\ UNCHANGED <<artifactVars, env, cuda, proc, device, fields, quiet>>

WorkerCalls ==
    \/ PreprocessCheck
    \/ PreprocessRun
    \/ PredictCheck
    \/ PredictTouch
    \/ PredictRun
    \/ TopK
    \/ NextBatch

-----------------------------------------------------------------------------
(* cleanup_model, on the thread of the event loop.                         *)

\* One assignment of cleanup_model.
Drop(from, next) ==
    /\ proc = from
    /\ proc' = next
    /\ UNCHANGED <<artifactVars, env, cuda, device, id2label, batchVars, quiet>>

DropModel ==
    /\ Drop("serving", "dropProcessor")
    /\ model' = None
    /\ UNCHANGED <<processor, session, modelLoaded>>

DropProcessor ==
    /\ Drop("dropProcessor", "dropFlag")
    /\ processor' = None
    /\ UNCHANGED <<model, session, modelLoaded>>

DropFlag ==
    /\ Drop("dropFlag", "dropBackend")
    /\ modelLoaded' = FALSE
    /\ UNCHANGED <<processor, model, session>>

\* _cleanup_backend, of which torch's has no state of the program: it may raise, as
\* the engine's ShutdownRaises has it, and changes no field then either.
DropBackend ==
    /\ Drop("dropBackend", "stopped")
    /\ session' = IF Torch THEN session ELSE None
    /\ UNCHANGED <<processor, model, modelLoaded>>

Cleanup == DropModel \/ DropProcessor \/ DropFlag \/ DropBackend

-----------------------------------------------------------------------------

\* The script and the hub run beside the container.
Outside ==
    /\ ArtifactNext
    /\ quiet' = (quiet /\ exporter' \notin Running)
    /\ UNCHANGED <<env, cuda, proc, device, fields, batchVars>>

MNext ==
    \/ Boot
    \/ LoadLocal
    \/ LoadHub
    \/ LoadSession
    \/ LoadLabels
    \/ LoadFails
    \/ Exit
    \/ WorkerCalls
    \/ Cleanup
    \/ Outside

MSpec == MInit /\ [][MNext]_vars

(* Fairness: the container is restarted unless it is stopped, and the hub   *)
(* does not refuse every attempt to load.                                   *)
MFairSpec ==
    /\ MSpec
    /\ WF_vars(Boot)
    /\ SF_vars(LoadLocal \/ LoadHub)
    /\ SF_vars(LoadSession)
    /\ SF_vars(LoadLabels)

-----------------------------------------------------------------------------
(* Properties.                                                             *)

\* With every accepted configuration, backend and device, a model that load_model
\* has reported as loaded answers every call until it is torn down: processor,
\* model or session, labels and devices fit each other.  What Config cannot know
\* is the local model of torch, with fewer classes than TOP_K_PREDICTIONS or
\* without labels; torch also takes a model without labels from the hub.
HealthyCalls ==
    call = "failed" /\ proc = "serving" =>
        /\ Torch
        /\ logits # None
        /\ \/ id2label = None
           \/ processor = "local" /\ config.TOP_K_PREDICTIONS > logits

\* The manager as the worker tells its states apart.
Phase ==
    IF ~modelLoaded THEN "unloaded"
    ELSE IF processor = None THEN "unloading" ELSE "loaded"

Stage ==
    CASE call \in {"idle", "preprocess"} -> "idle"
      [] call \in {"prepared", "predict", "forward", "scored"} -> "prepared"
      [] OTHER -> call

Gate == INSTANCE ModelGate WITH phase <- Phase, stage <- Stage

\* As the worker sees it, through all interleavings of its calls with the four
\* assignments of cleanup_model, the manager is the gate the engine is modelled
\* with: no call that begins after the model is gone succeeds, and no image is
\* refused before.
ImplementsGate == Gate!Spec

\* A graph and labels of different revisions only come together in a manager that
\* loaded around a running export or after one that died, and a graph that computes
\* something else than its model is only served after an export whose check was
\* skipped, has failed or was overtaken: after an export that went through, what is
\* served belongs together and is right.
QuietLoadCoherent ==
    proc = "serving" /\ ~Torch /\ quiet =>
        /\ session.rev = id2label
        /\ exporter = "verified" /\ upstream = session.rev => session.sound

Startable ==
    /\ Loads(env)
    /\ Constructible
    /\ Torch \/ exporter \in {"verified", "unverified"}

\* The next stage of coming up can be passed.
StartEnabled ==
    /\ proc = "down" => ENABLED <<Boot>>_vars
    /\ proc = "loading" =>
          IF Torch THEN ENABLED <<LoadLocal \/ LoadHub>>_vars
                   ELSE ENABLED <<LoadSession>>_vars
    /\ proc = "labels" => ENABLED <<LoadLabels>>_vars

\* Whenever the container could come up, in whatever stage of an earlier start an
\* export overtook it, there is no stage that only another restart gets it out of.
StartNeverStuck == Startable => StartEnabled

\* What is served belongs together.
ServesWhole == proc = "serving" /\ (~Torch => session.rev = id2label)

\* Dead exports and torn files keep a service that is down from coming up only until
\* an export goes through: then restarts alone bring it up.  And they cure a manager
\* that loaded around a running export and serves a graph with the labels of another
\* revision: what comes up belongs together.
ComesUp == proc = "down" /\ Startable ~> ServesWhole \/ ~Startable
=============================================================================
