------------------------- MODULE ModelManagerProofs -------------------------
(***************************************************************************)
(* Proofs about Config, OnnxArtifact and ModelManager, for any set of      *)
(* environments, any models and any number of revisions on the hub.        *)
(***************************************************************************)
EXTENDS ModelManager, TLAPS

-----------------------------------------------------------------------------
(* Configuration.                                                          *)

\* What an environment that loads promises to the other modules: the assumptions
\* of InferenceEngine and UploadReader on their constants, and a number of
\* predictions that every model of the hub can make (Config.validate).
THEOREM LoadedConfig ==
    ASSUME NEW e, Loads(e)
    PROVE  /\ FromEnv(e).MAX_CONCURRENT_REQUESTS \in 1..256
           /\ FromEnv(e).MAX_BATCH_SIZE \in 1..64
           /\ FromEnv(e).MAX_CHUNK_SIZE_MB \in 1..FromEnv(e).MAX_FILE_SIZE_MB
           /\ FromEnv(e).TOP_K_PREDICTIONS \in 1..100
           /\ FromEnv(e).INFERENCE_TIMEOUT \in 1..600
    <1> DEFINE c == FromEnv(e)
    <1>1. /\ \A f \in Numbers : c[f] \in Int
          /\ \A f \in DOMAIN Ceiling(c) : 0 < c[f] /\ c[f] <= Ceiling(c)[f]
          BY DEF Loads, Parses, Valid
    <1>2. \A f \in {"MAX_FILE_SIZE_MB", "MAX_CONCURRENT_REQUESTS", "MAX_BATCH_SIZE",
                    "MAX_CHUNK_SIZE_MB", "TOP_K_PREDICTIONS",
                    "MAX_TOP_K_PREDICTIONS", "INFERENCE_TIMEOUT"} : c[f] \in Int
          BY <1>1 DEF Numbers, Ceiling
    <1>3. /\ 0 < c.MAX_CONCURRENT_REQUESTS /\ c.MAX_CONCURRENT_REQUESTS <= 256
          /\ 0 < c.MAX_BATCH_SIZE /\ c.MAX_BATCH_SIZE <= 64
          /\ 0 < c.MAX_CHUNK_SIZE_MB /\ c.MAX_CHUNK_SIZE_MB <= c.MAX_FILE_SIZE_MB
          /\ 0 < c.TOP_K_PREDICTIONS /\ c.TOP_K_PREDICTIONS <= c.MAX_TOP_K_PREDICTIONS
          /\ 0 < c.MAX_TOP_K_PREDICTIONS /\ c.MAX_TOP_K_PREDICTIONS <= 100
          /\ 0 < c.INFERENCE_TIMEOUT /\ c.INFERENCE_TIMEOUT <= 600
          BY <1>1 DEF Ceiling
    <1> HIDE DEF c
    <1>4. /\ c.MAX_CONCURRENT_REQUESTS \in 1..256
          /\ c.MAX_BATCH_SIZE \in 1..64
          /\ c.MAX_CHUNK_SIZE_MB \in 1..c.MAX_FILE_SIZE_MB
          /\ c.TOP_K_PREDICTIONS \in 1..100
          /\ c.INFERENCE_TIMEOUT \in 1..600
          BY <1>2, <1>3
    <1>5. QED
          BY <1>4 DEF c

-----------------------------------------------------------------------------
(* The artifact.                                                           *)

\* What a run of the script holds and has written so far.
Underway ==
    /\ exporter \in Running =>
          exported \in Revisions \ Unlabelled /\ exported <= upstream
    /\ exporter \in {"labels", "dumping", "written"} =>
          graph \in Graph /\ graph.rev = exported
    /\ exporter = "written" => labels = exported

\* The revision of a finished graph has been published: no later publication is
\* mistaken for it.
Behind == exporter = "verified" => graph.rev <= upstream

AInv ==
    /\ ArtifactTypeOK
    /\ Underway
    /\ Behind
    /\ CleanExport

LEMMA InitAInv == ArtifactInit => AInv
    BY ArtifactAssumption
    DEF ArtifactInit, AInv, ArtifactTypeOK, Underway, Behind, CleanExport, Whole,
        Revisions, Ended, Running

\* A step of the script or of the hub.
LEMMA NextAInv == AInv /\ [ArtifactNext]_artifactVars => AInv'
    <1> SUFFICES ASSUME AInv, [ArtifactNext]_artifactVars
                 PROVE  AInv'
        OBVIOUS
    <1> USE DEF AInv, ArtifactTypeOK, Underway, Behind, CleanExport, Whole, Ended,
                Running
    <1>1. CASE Publish
          <2>1. upstream' \in Revisions /\ upstream' = upstream + 1 /\ upstream \in Int
                BY <1>1, ArtifactAssumption DEF Publish, Revisions
          <2>2. graph' = graph /\ labels' = labels /\ exporter' = exporter
                    /\ exported' = exported
                BY <1>1 DEF Publish
          <2>3. exporter = "verified" => graph.rev \in Int
                BY DEF Graph, Revisions
          <2>4. exporter \in Running => exported <= upstream'
                BY <2>1 DEF Revisions
          <2>5. exporter = "verified" =>
                    graph.rev <= upstream' /\ upstream' # graph.rev
                BY <2>1, <2>3
          <2>6. QED
                BY <2>1, <2>2, <2>4, <2>5
    <1>2. CASE Fetch
          BY <1>2 DEF Fetch, Revisions
    <1>3. CASE Refuse
          BY <1>3 DEF Refuse
    <1>4. CASE BeginGraph
          BY <1>4 DEF BeginGraph
    <1>5. CASE EndGraph
          <2>1. PICK sound \in BOOLEAN : graph' = [rev |-> exported, sound |-> sound]
                BY <1>5 DEF EndGraph
          <2>2. graph' \in Graph /\ graph'.rev = exported
                BY <1>5, <2>1 DEF Graph, EndGraph
          <2>3. QED
                BY <1>5, <2>2 DEF EndGraph
    <1>6. CASE BeginLabels
          BY <1>6 DEF BeginLabels
    <1>7. CASE EndLabels
          BY <1>7 DEF EndLabels
    <1>8. CASE SkipParity
          BY <1>8 DEF SkipParity, End
    <1>9. CASE Parity
          BY <1>9 DEF Parity, End
    <1>10. CASE ExportFails
           BY <1>10 DEF ExportFails, End
    <1>11. CASE UNCHANGED artifactVars
           BY <1>11 DEF artifactVars
    <1>12. QED
           BY <1>1, <1>2, <1>3, <1>4, <1>5, <1>6, <1>7, <1>8, <1>9, <1>10, <1>11
           DEF ArtifactNext, Export

-----------------------------------------------------------------------------
(* The manager.                                                            *)

\* Before load_model has returned nothing can be called; what runs was configured.
Beginning ==
    /\ proc # "down" =>
          Loads(env) /\ device = ChosenDevice /\ device \in {"cpu", "cuda"}
    /\ proc \in {"down", "loading", "labels"} =>
          /\ ~modelLoaded
          /\ call = "idle"
          /\ tensor = None
          /\ logits = None
    /\ proc = "labels" =>
          ~Torch /\ processor \in {"local", "hub"} /\ session \in Graph

\* What load_model leaves is complete, and the models of the hub are large enough.
Complete ==
    proc = "serving" =>
        /\ modelLoaded
        /\ processor \in {"local", "hub"}
        /\ Torch => model \in Nat /\ (processor = "hub" => model = HubClasses)
        /\ ~Torch => session \in Graph /\ id2label \in Nat

\* cleanup_model has come as far as proc says: the flag outlives the processor.
TearingDown ==
    /\ proc = "dropProcessor" => modelLoaded /\ processor \in {"local", "hub"}
    /\ proc = "dropFlag" => modelLoaded /\ processor = None
    /\ proc \in {"dropBackend", "stopped"} => ~modelLoaded /\ processor = None

\* What the worker carries from call to call.
Carried ==
    /\ call \in {"prepared", "predict", "forward", "scored"} =>
          tensor = IF Torch THEN device ELSE "cpu"
    /\ call = "scored" =>
          /\ logits \in Nat
          /\ proc = "serving" => logits = IF Torch THEN model ELSE HubClasses

\* While no export runs, the files and what was loaded from them do not move.
Undisturbed ==
    quiet =>
        /\ exporter \in Ended
        /\ Whole
        /\ graph.rev = labels
        /\ proc \in {"labels", "serving"} /\ ~Torch => session = graph
        /\ proc = "serving" /\ ~Torch => id2label = labels

ManagerInv ==
    /\ AInv
    /\ MTypeOK
    /\ Beginning
    /\ Complete
    /\ TearingDown
    /\ Carried
    /\ Undisturbed
    /\ HealthyCalls

LEMMA InitManagerInv == MInit => ManagerInv
    <1> SUFFICES ASSUME MInit
                 PROVE  ManagerInv
        OBVIOUS
    <1>1. AInv
          BY InitAInv DEF MInit
    <1>2. MTypeOK
          BY <1>1 DEF MInit, MTypeOK, AInv
    <1>3. QED
          BY <1>1, <1>2
          DEF MInit, ManagerInv, Beginning, Complete, TearingDown, Carried,
              Undisturbed, HealthyCalls

\* What the environment decides stays as it is.
LEMMA Fixed ==
    ASSUME UNCHANGED <<env, cuda>>
    PROVE  /\ Torch' <=> Torch
           /\ ChosenDevice' = ChosenDevice
           /\ config' = config
           /\ Loads(env)' <=> Loads(env)
    BY DEF Torch, ChosenDevice, config

LEMMA SameArtifact ==
    ASSUME AInv, UNCHANGED artifactVars
    PROVE  AInv'
    BY NextAInv

\* The process starts and loads its model.
LEMMA StartStep ==
    ASSUME ManagerInv, Boot \/ LoadLocal \/ LoadHub \/ LoadSession \/ LoadLabels
    PROVE  ManagerInv'
    <1> USE DEF fields, batchVars, artifactVars
    <1>1. UNCHANGED <<env, cuda>> /\ UNCHANGED artifactVars
          BY DEF Boot, LoadLocal, LoadHub, LoadTorch, LoadSession, LoadLabels
    <1>2. AInv'
          BY <1>1, SameArtifact DEF ManagerInv
    <1>3. CASE Boot
          <2>1. ChosenDevice \in {"cpu", "cuda"}
                BY DEF ChosenDevice
          <2>2. quiet' => exporter \in {"verified", "unverified"}
                BY <1>3 DEF Boot
          <2>3. quiet' => exporter' \in Ended /\ Whole' /\ graph'.rev = labels'
                BY <1>1, <2>2 DEF ManagerInv, AInv, CleanExport, Ended, Whole, Revisions,
                                  Graph
          <2>4. MTypeOK'
                BY <1>1, <1>2, <1>3, <2>1 DEF Boot, ManagerInv, MTypeOK, AInv
          <2>5. QED
                BY <1>1, <1>2, <1>3, <2>1, <2>3, <2>4, Fixed
                DEF Boot, ManagerInv, Beginning, Complete, TearingDown, Carried,
                    Undisturbed, HealthyCalls
    <1>4. CASE LoadLocal \/ LoadHub
          <2>1. PICK from \in {"local", "hub"}, classes \in Nat, ids \in Nat \cup {None} :
                    /\ LoadTorch(from, classes, ids)
                    /\ from = "hub" => classes = HubClasses
                <3>1. CASE LoadLocal
                      BY <3>1, ManagerAssumption DEF LoadLocal
                <3>2. CASE LoadHub
                      <4>1. upstream \in Nat
                            BY ArtifactAssumption
                            DEF ManagerInv, AInv, ArtifactTypeOK, Revisions
                      <4>2. QED
                            BY <3>2, <4>1, ManagerAssumption DEF LoadHub
                <3>3. QED
                      BY <1>4, <3>1, <3>2
          <2>2. MTypeOK'
                BY <1>1, <1>2, <2>1 DEF LoadTorch, ManagerInv, MTypeOK, AInv, Serving
          <2>3. Undisturbed'
                BY <1>1, <2>1, Fixed DEF LoadTorch, ManagerInv, Undisturbed, Whole, Ended,
                                  Revisions, Graph
          <2>4. Beginning' /\ Complete' /\ TearingDown' /\ Carried' /\ HealthyCalls'
                BY <1>1, <2>1, Fixed
                DEF LoadTorch, ManagerInv, Beginning, Complete, TearingDown, Carried,
                    HealthyCalls
          <2>5. QED
                BY <1>2, <2>2, <2>3, <2>4 DEF ManagerInv
    <1>5. CASE LoadSession
          <2>1. MTypeOK'
                BY <1>1, <1>2, <1>5 DEF LoadSession, ManagerInv, MTypeOK, AInv
          <2>2. Undisturbed'
                BY <1>1, <1>5, Fixed DEF LoadSession, ManagerInv, Undisturbed, Whole,
                                         Ended, Revisions, Graph
          <2>3. Beginning' /\ Complete' /\ TearingDown' /\ Carried' /\ HealthyCalls'
                BY <1>1, <1>5, Fixed
                DEF LoadSession, ManagerInv, Beginning, Complete, TearingDown, Carried,
                    HealthyCalls
          <2>4. QED
                BY <1>2, <2>1, <2>2, <2>3 DEF ManagerInv
    <1>6. CASE LoadLabels
          <2>1. labels \in Nat /\ id2label' = labels
                BY <1>6, ArtifactAssumption DEF LoadLabels, Revisions
          <2>2. MTypeOK'
                BY <1>1, <1>2, <1>6, <2>1
                DEF LoadLabels, ManagerInv, MTypeOK, AInv, Serving
          <2>3. Undisturbed'
                BY <1>1, <1>6, Fixed DEF LoadLabels, ManagerInv, Undisturbed, Whole,
                                         Ended, Revisions, Graph, Beginning
          <2>4. Beginning' /\ Complete' /\ TearingDown' /\ Carried' /\ HealthyCalls'
                BY <1>1, <1>6, <2>1, Fixed
                DEF LoadLabels, ManagerInv, Beginning, Complete, TearingDown, Carried,
                    HealthyCalls
          <2>5. QED
                BY <1>2, <2>2, <2>3, <2>4 DEF ManagerInv
    <1>7. QED
          BY <1>3, <1>4, <1>5, <1>6

\* The process ends.
LEMMA EndStep ==
    ASSUME ManagerInv, Reset
    PROVE  ManagerInv'
    <1>1. AInv'
          BY SameArtifact DEF Reset, ManagerInv
    <1>2. MTypeOK'
          BY <1>1 DEF Reset, ManagerInv, MTypeOK, AInv
    <1>3. QED
          BY <1>1, <1>2
          DEF Reset, ManagerInv, Beginning, Complete, TearingDown, Carried,
              Undisturbed, HealthyCalls

\* A call of the worker moves nothing but what the worker carries.
LEMMA CallFrame ==
    ASSUME ManagerInv, proc \in Serving,
           UNCHANGED <<artifactVars, env, cuda, proc, device, fields, quiet>>
    PROVE  /\ AInv' /\ Beginning' /\ Complete' /\ TearingDown'
           /\ Undisturbed'
    <1>1. AInv'
          BY SameArtifact DEF ManagerInv
    <1>2. QED
          BY <1>1, Fixed
          DEF ManagerInv, Beginning, Complete, TearingDown, Undisturbed, Serving, Whole,
              Revisions, Graph, fields, artifactVars

\* A call that raises under a loaded model is one of top_k_from_logits, for a model
\* of torch that has too few classes or no labels.
LEMMA TopKFails ==
    ASSUME ManagerInv, TopK, call' = "failed", proc = "serving"
    PROVE  HealthyCalls'
    <1>1. config.TOP_K_PREDICTIONS \in 1..100
          BY LoadedConfig DEF ManagerInv, Beginning, config
    <1>2. /\ ~(config.TOP_K_PREDICTIONS \in 1..logits) \/ id2label = None
          /\ logits \in Nat
          /\ logits = IF Torch THEN model ELSE HubClasses
          BY DEF TopK, Read, ManagerInv, Carried, Complete
    <1>3. HubClasses \in Nat /\ HubClasses >= 100 /\ None \notin Int
          BY ManagerAssumption, ArtifactAssumption
    <1>4. Torch
          <2>1. SUFFICES ASSUME ~Torch PROVE FALSE
                OBVIOUS
          <2>2. id2label # None
                BY <2>1, <1>3 DEF ManagerInv, Complete
          <2>3. QED
                BY <2>1, <2>2, <1>1, <1>2, <1>3
    <1>5. id2label = None \/ (processor = "local" /\ config.TOP_K_PREDICTIONS > logits)
          <2>1. CASE processor = "hub"
                BY <2>1, <1>1, <1>2, <1>3, <1>4 DEF ManagerInv, Complete
          <2>2. CASE processor = "local"
                BY <2>2, <1>1, <1>2
          <2>3. QED
                BY <2>1, <2>2 DEF ManagerInv, Complete
    <1>6. UNCHANGED <<env, cuda, proc, logits, id2label, processor>>
          BY DEF TopK, Read, fields
    <1>7. QED
          BY <1>2, <1>3, <1>4, <1>5, <1>6, Fixed DEF HealthyCalls

\* The worker's calls.
LEMMA CallStep ==
    ASSUME ManagerInv, WorkerCalls
    PROVE  ManagerInv'
    <1>1. /\ proc \in Serving \/ NextBatch
          /\ UNCHANGED <<artifactVars, env, cuda, proc, device, fields, quiet>>
          BY DEF WorkerCalls, PreprocessCheck, PreprocessRun, PredictCheck,
                 PredictTouch, PredictRun, TopK, NextBatch, Read
    <1>2. proc \in Serving
          BY <1>1 DEF NextBatch, ManagerInv, Beginning, MTypeOK
    <1>3. /\ AInv' /\ Beginning' /\ Complete' /\ TearingDown'
          /\ Undisturbed'
          BY <1>1, <1>2, CallFrame
    <1>4. /\ Torch' <=> Torch
          /\ UNCHANGED <<env, cuda, proc, device, processor, model, session, id2label,
                         modelLoaded>>
          BY <1>1, Fixed DEF fields
    <1>5. device \in {"cpu", "cuda"} /\ HubClasses \in Nat
          BY <1>2, ManagerAssumption DEF ManagerInv, Beginning, Serving
    <1>6. MTypeOK' /\ Carried' /\ HealthyCalls'
          <2> SUFFICES ASSUME TRUE
                       PROVE  /\ call' \in {"idle", "preprocess", "prepared", "predict",
                                            "forward", "scored", "answered", "failed"}
                              /\ tensor' \in {"cpu", "cuda", None}
                              /\ logits' \in Nat \cup {None}
                              /\ Carried' /\ HealthyCalls'
              BY <1>1, <1>3, <1>4 DEF MTypeOK, ManagerInv, AInv, fields
          <2>1. CASE PreprocessCheck
                BY <2>1, <1>4 DEF PreprocessCheck, Read, ManagerInv, MTypeOK, Complete,
                                  Carried, HealthyCalls
          <2>2. CASE PreprocessRun
                <3>1. proc = "serving" => call' # "failed"
                      BY <2>2, ManagerAssumption
                      DEF PreprocessRun, Read, ManagerInv, Complete
                <3>2. QED
                      BY <2>2, <3>1, <1>4, <1>5
                      DEF PreprocessRun, Read, ManagerInv, MTypeOK, Carried, HealthyCalls
          <2>3. CASE PredictCheck
                BY <2>3, <1>4 DEF PredictCheck, Read, ManagerInv, MTypeOK, Complete,
                                  Carried, HealthyCalls
          <2>4. CASE PredictTouch
                <3>1. proc = "serving" => Backend # None
                      BY ManagerAssumption, ArtifactAssumption
                      DEF ManagerInv, Complete, Backend
                <3>2. QED
                      BY <2>4, <3>1, <1>4
                      DEF PredictTouch, Read, ManagerInv, MTypeOK, Carried, HealthyCalls
          <2>5. CASE PredictRun
                <3>1. proc = "serving" => Backend # None
                      BY ManagerAssumption, ArtifactAssumption
                      DEF ManagerInv, Complete, Backend
                <3>2. tensor = IF Torch THEN device ELSE "cpu"
                      BY <2>5 DEF PredictRun, Read, ManagerInv, Carried
                <3>3. Torch /\ Backend # None => model \in Nat
                      BY DEF Backend, ManagerInv, MTypeOK
                <3>4. QED
                      BY <2>5, <3>1, <3>2, <3>3, <1>4, <1>5
                      DEF PredictRun, Read, ManagerInv, MTypeOK, Carried, HealthyCalls
          <2>6. CASE TopK
                <3>1. HealthyCalls'
                      BY <2>6, <1>4, TopKFails DEF HealthyCalls
                <3>2. QED
                      BY <2>6, <3>1, <1>4 DEF TopK, Read, ManagerInv, MTypeOK, Carried
          <2>7. CASE NextBatch
                BY <2>7 DEF NextBatch, Carried, HealthyCalls
          <2>8. QED
                BY <2>1, <2>2, <2>3, <2>4, <2>5, <2>6, <2>7 DEF WorkerCalls
    <1>7. QED
          BY <1>3, <1>6 DEF ManagerInv

\* cleanup_model.
LEMMA CleanupStep ==
    ASSUME ManagerInv, Cleanup
    PROVE  ManagerInv'
    <1>1. /\ UNCHANGED <<artifactVars, env, cuda, device, id2label, batchVars, quiet>>
          /\ proc \in {"serving", "dropProcessor", "dropFlag", "dropBackend"}
          /\ proc' \in {"dropProcessor", "dropFlag", "dropBackend", "stopped"}
          BY DEF Cleanup, DropModel, DropProcessor, DropFlag, DropBackend, Drop
    <1>2. AInv'
          BY <1>1, SameArtifact DEF ManagerInv
    <1>3. Torch' <=> Torch
          BY <1>1, Fixed
    <1>4. /\ model' \in {model, None}
          /\ processor' \in {processor, None}
          /\ session' \in {session, None}
          /\ modelLoaded' \in BOOLEAN
          BY DEF Cleanup, DropModel, DropProcessor, DropFlag, DropBackend, Drop,
                 ManagerInv, MTypeOK
    <1>5. MTypeOK'
          BY <1>1, <1>2, <1>4 DEF ManagerInv, MTypeOK, AInv, Serving, batchVars
    <1>6. TearingDown'
          BY DEF Cleanup, DropModel, DropProcessor, DropFlag, DropBackend, Drop,
                 ManagerInv, Complete, TearingDown
    <1>7. Beginning' /\ Complete' /\ Carried' /\ HealthyCalls'
          BY <1>1, <1>3, Fixed
          DEF ManagerInv, Beginning, Complete, Carried, HealthyCalls, batchVars
    <1>8. Undisturbed'
          BY <1>1 DEF ManagerInv, Undisturbed, artifactVars, Whole, Graph, Revisions,
                      Ended
    <1>9. QED
          BY <1>2, <1>5, <1>6, <1>7, <1>8 DEF ManagerInv

\* The script and the hub.
LEMMA OutsideStep ==
    ASSUME ManagerInv, Outside
    PROVE  ManagerInv'
    <1>1. /\ UNCHANGED <<env, cuda, proc, device, fields, batchVars>>
          /\ ArtifactNext
          /\ quiet' = (quiet /\ exporter' \notin Running)
          BY DEF Outside
    <1>2. AInv'
          BY <1>1, NextAInv DEF ManagerInv
    <1>3. MTypeOK'
          BY <1>1, <1>2 DEF ManagerInv, MTypeOK, AInv, fields, batchVars
    <1>4. Beginning' /\ Complete' /\ TearingDown' /\ Carried' /\ HealthyCalls'
          BY <1>1, Fixed
          DEF ManagerInv, Beginning, Complete, TearingDown, Carried, HealthyCalls,
              fields, batchVars
    <1>5. Undisturbed'
          <2>1. SUFFICES ASSUME quiet' PROVE Undisturbed'
                BY DEF Undisturbed
          <2>2. quiet /\ exporter \notin Running /\ exporter' \notin Running
                BY <2>1, <1>1 DEF ManagerInv, Undisturbed, Ended, Running
          <2>3. UNCHANGED <<graph, labels>>
                BY <2>2, <1>1
                DEF ArtifactNext, Export, Publish, Fetch, Refuse, BeginGraph, EndGraph,
                    BeginLabels, EndLabels, SkipParity, Parity, ExportFails, Running
          <2>4. exporter' \in Ended
                BY <2>2, <1>2 DEF AInv, ArtifactTypeOK
          <2>5. QED
                BY <2>2, <2>3, <2>4, <1>1, Fixed
                DEF ManagerInv, Undisturbed, Whole, Graph, Revisions, fields
    <1>6. QED
          BY <1>2, <1>3, <1>4, <1>5 DEF ManagerInv

LEMMA NextManagerInv == ManagerInv /\ [MNext]_vars => ManagerInv'
    <1> SUFFICES ASSUME ManagerInv, [MNext]_vars
                 PROVE  ManagerInv'
        OBVIOUS
    <1>1. CASE Boot \/ LoadLocal \/ LoadHub \/ LoadSession \/ LoadLabels
          BY <1>1, StartStep
    <1>2. CASE LoadFails \/ Exit
          BY <1>2, EndStep DEF LoadFails, Exit
    <1>3. CASE WorkerCalls
          BY <1>3, CallStep
    <1>4. CASE Cleanup
          BY <1>4, CleanupStep
    <1>5. CASE Outside
          BY <1>5, OutsideStep
    <1>6. CASE UNCHANGED vars
          <2>1. AInv'
                BY <1>6, SameArtifact DEF vars, ManagerInv
          <2>2. MTypeOK'
                BY <1>6, <2>1 DEF vars, managerVars, fields, batchVars, ManagerInv,
                                  MTypeOK, AInv
          <2>3. QED
                BY <1>6, <2>1, <2>2, Fixed
                DEF vars, managerVars, artifactVars, fields, batchVars, ManagerInv,
                    Beginning, Complete, TearingDown, Carried, Undisturbed, Whole,
                    Graph, Revisions, Ended, HealthyCalls
    <1>7. QED
          BY <1>1, <1>2, <1>3, <1>4, <1>5, <1>6 DEF MNext

-----------------------------------------------------------------------------
(* Theorems.                                                               *)

\* The invariant of manager, artifact and script together.
THEOREM ManagerInductive == MSpec => []ManagerInv
    <1>1. MInit => ManagerInv
          BY InitManagerInv
    <1>2. ManagerInv /\ [MNext]_vars => ManagerInv'
          BY NextManagerInv
    <1>3. QED
          BY <1>1, <1>2, PTL DEF MSpec

\* Type correctness: what load_model keeps is never torn and the fields never mix
\* backends' values.
THEOREM ManagerTypeCorrect == MSpec => []MTypeOK
    <1>1. ManagerInv => MTypeOK
          BY DEF ManagerInv
    <1>2. QED
          BY <1>1, ManagerInductive, PTL

\* A loaded model answers every call, whatever the configuration that was accepted
\* (preprocess_inputs, predict and top_k_from_logits of both managers).
THEOREM LoadedModelServes == MSpec => []HealthyCalls
    <1>1. ManagerInv => HealthyCalls
          BY DEF ManagerInv
    <1>2. QED
          BY <1>1, ManagerInductive, PTL

\* An export that went through leaves a whole artifact of one revision, whatever
\* dead runs left before it (main of scripts/export_onnx.py).
THEOREM ExportIsClean == MSpec => []CleanExport
    <1>1. ManagerInv => CleanExport
          BY DEF ManagerInv, AInv
    <1>2. QED
          BY <1>1, ManagerInductive, PTL

\* Session and labels are of one revision, and the session is right if the export was
\* verified, unless an export ran around the load (ONNXModelManager.load_model).
THEOREM QuietLoadIsCoherent == MSpec => []QuietLoadCoherent
    <1>1. ManagerInv => QuietLoadCoherent
          BY DEF ManagerInv, AInv, CleanExport, Whole, Undisturbed, QuietLoadCoherent
    <1>2. QED
          BY <1>1, ManagerInductive, PTL

-----------------------------------------------------------------------------
(* The gate.                                                               *)

\* Where the phase stands.
LEMMA PhaseOf ==
    ASSUME ManagerInv
    PROVE  /\ proc \in {"down", "loading", "labels"} => Phase = "unloaded"
           /\ proc \in {"serving", "dropProcessor"} => Phase = "loaded"
           /\ proc = "dropFlag" => Phase = "unloading"
           /\ proc \in {"dropBackend", "stopped"} => Phase = "unloaded"
    BY ManagerAssumption
    DEF ManagerInv, Beginning, Complete, TearingDown, Phase

\* The worker's calls are those of the gate, or reads the gate does not show.
LEMMA GateCalls ==
    ASSUME ManagerInv, WorkerCalls
    PROVE  [Gate!Next]_<<Phase, Stage>>
    <1> USE DEF Read, Stage, Gate!Next
    <1>1. UNCHANGED <<modelLoaded, processor>> /\ Phase' = Phase
          BY DEF WorkerCalls, PreprocessCheck, PreprocessRun, PredictCheck,
                 PredictTouch, PredictRun, TopK, NextBatch, fields, Phase
    <1>2. modelLoaded <=> Phase # "unloaded"
          BY DEF Phase
    <1>3. proc \in Serving => (processor # None <=> Phase = "loaded")
          BY PhaseOf, ManagerAssumption
          DEF ManagerInv, Complete, TearingDown, Serving
    <1>4. CASE PreprocessCheck
          BY <1>4, <1>1, <1>2 DEF PreprocessCheck, Gate!PreprocessFails
    <1>5. CASE PreprocessRun
          BY <1>5, <1>1, <1>3
          DEF PreprocessRun, Gate!Preprocess, Gate!PreprocessFails
    <1>6. CASE PredictCheck \/ PredictTouch \/ PredictRun
          BY <1>6, <1>1 DEF PredictCheck, PredictTouch, PredictRun, Gate!PredictFails
    <1>7. CASE TopK
          BY <1>7, <1>1, <1>2 DEF TopK, Gate!Predict, Gate!PredictFails
    <1>8. CASE NextBatch
          BY <1>8, <1>1 DEF NextBatch, Gate!NextBatch
    <1>9. QED
          BY <1>4, <1>5, <1>6, <1>7, <1>8 DEF WorkerCalls

\* A step of the manager is a step of the gate or does not move it.
LEMMA GateStep ==
    ManagerInv /\ ManagerInv' /\ [MNext]_vars => [Gate!Next]_<<Phase, Stage>>
    <1> SUFFICES ASSUME ManagerInv, ManagerInv', [MNext]_vars
                 PROVE  [Gate!Next]_<<Phase, Stage>>
        OBVIOUS
    <1>1. CASE Boot \/ LoadSession
          <2>1. UNCHANGED <<call, modelLoaded>> /\ ~modelLoaded
                BY <1>1 DEF Boot, LoadSession, fields, batchVars, ManagerInv, Beginning
          <2>2. QED
                BY <2>1 DEF Phase, Stage
    <1>2. CASE LoadLocal \/ LoadHub \/ LoadLabels
          <2>1. /\ proc \in {"loading", "labels"} /\ proc' = "serving"
                /\ call' = call
                BY <1>2 DEF LoadLocal, LoadHub, LoadTorch, LoadLabels, batchVars
          <2>2. Phase = "unloaded" /\ call = "idle"
                BY <2>1, PhaseOf DEF ManagerInv, Beginning
          <2>3. Phase' = "loaded"
                BY <2>1, ManagerAssumption DEF ManagerInv, Complete, Phase
          <2>4. QED
                BY <2>1, <2>2, <2>3 DEF Stage, Gate!Next, Gate!Load
    <1>3. CASE LoadFails \/ Exit
          BY <1>3 DEF LoadFails, Exit, Reset, Phase, Stage, Gate!Next, Gate!Exit
    <1>4. CASE WorkerCalls
          BY <1>4, GateCalls
    <1>5. CASE Cleanup
          <2>1. Stage' = Stage
                BY <1>5 DEF Cleanup, DropModel, DropProcessor, DropFlag, DropBackend,
                            Drop, batchVars, Stage
          <2>2. CASE DropModel
                BY <2>1, <2>2 DEF DropModel, Phase
          <2>3. CASE DropProcessor
                <3>1. Phase = "loaded" /\ Phase' = "unloading"
                      BY <2>3, PhaseOf DEF DropProcessor, Drop, ManagerInv, TearingDown,
                                           Phase
                <3>2. QED
                      BY <2>1, <3>1 DEF Gate!Next, Gate!Unload
          <2>4. CASE DropFlag
                <3>1. Phase = "unloading" /\ Phase' = "unloaded"
                      BY <2>4, PhaseOf DEF DropFlag, Drop, Phase
                <3>2. QED
                      BY <2>1, <3>1 DEF Gate!Next, Gate!Unloaded
          <2>5. CASE DropBackend
                BY <2>1, <2>5 DEF DropBackend, Phase
          <2>6. QED
                BY <1>5, <2>2, <2>3, <2>4, <2>5 DEF Cleanup
    <1>6. CASE Outside \/ UNCHANGED vars
          <2>1. UNCHANGED <<call, modelLoaded, processor>>
                BY <1>6 DEF Outside, vars, managerVars, fields, batchVars
          <2>2. QED
                BY <2>1 DEF Phase, Stage
    <1>7. QED
          BY <1>1, <1>2, <1>3, <1>4, <1>5, <1>6 DEF MNext

\* Through every interleaving of the worker's reads with cleanup_model the manager
\* is the gate that InferenceEngine is modelled with.
THEOREM ManagerImplementsGate == MSpec => ImplementsGate
    <1>1. MInit => Gate!Init
          BY DEF MInit, Gate!Init, Phase, Stage
    <1>2. ManagerInv /\ ManagerInv' /\ [MNext]_vars => [Gate!Next]_<<Phase, Stage>>
          BY GateStep
    <1>3. QED
          BY <1>1, <1>2, ManagerInductive, PTL
          DEF MSpec, ImplementsGate, Gate!Spec, Gate!vars

-----------------------------------------------------------------------------
(* Coming up.                                                              *)

\* What the stages of a start wait for: an accepted configuration, the files it
\* names and, for the backends that read them, files that can be read.
Loadable ==
    /\ Loads(env)
    /\ Constructible
    /\ Torch \/ (Whole /\ labels \notin Unlabelled)

Down == proc = "down"
Loading == proc = "loading"
LoadingLabels == proc = "labels"
Up == proc = "serving"

\* An export that went through has left what the start waits for.
LEMMA StartableLoadable == ManagerInv /\ Startable => Loadable
    BY DEF ManagerInv, AInv, CleanExport, Startable, Loadable

\* Where a start can go from each of its stages.
LEMMA Stages ==
    ASSUME ManagerInv, [MNext]_vars
    PROVE  /\ Down => Down' \/ Loading'
           /\ Loading => Loading' \/ LoadingLabels' \/ Down' \/ Up'
           /\ LoadingLabels => LoadingLabels' \/ Down' \/ Up'
           /\ LoadingLabels => ~Torch
           /\ Torch <=> Torch'
    <1> USE DEF Down, Loading, LoadingLabels, Up
    <1>1. Torch <=> Torch'
          <2>1. UNCHANGED <<env, cuda>>
                BY DEF MNext, Boot, LoadLocal, LoadHub, LoadTorch, LoadSession,
                   LoadLabels, LoadFails, Exit, Reset, WorkerCalls, PreprocessCheck,
                   PreprocessRun, PredictCheck, PredictTouch, PredictRun, TopK,
                   NextBatch, Read, Cleanup, DropModel, DropProcessor, DropFlag,
                   DropBackend, Drop, Outside, vars, managerVars
          <2>2. QED
                BY <2>1, Fixed
    <1>2. LoadingLabels => ~Torch
          BY DEF ManagerInv, Beginning
    <1>3. CASE Boot \/ LoadLocal \/ LoadHub \/ LoadSession \/ LoadLabels
          BY <1>1, <1>2, <1>3 DEF Boot, LoadLocal, LoadHub, LoadTorch, LoadSession,
             LoadLabels
    <1>4. CASE LoadFails \/ Exit
          BY <1>1, <1>2, <1>4 DEF LoadFails, Exit, Reset, Serving
    <1>5. CASE WorkerCalls \/ Outside \/ UNCHANGED vars
          <2>1. proc' = proc
                BY <1>5 DEF WorkerCalls, PreprocessCheck, PreprocessRun, PredictCheck,
                       PredictTouch, PredictRun, TopK, NextBatch, Read, Outside, vars,
                       managerVars
          <2>2. QED
                BY <1>1, <1>2, <2>1
    <1>6. CASE Cleanup
          BY <1>1, <1>2, <1>6 DEF Cleanup, DropModel, DropProcessor, DropFlag,
             DropBackend, Drop
    <1>7. QED
          BY <1>3, <1>4, <1>5, <1>6 DEF MNext

\* Guards, read off Boot, LoadLocal, LoadHub, LoadSession and LoadLabels.
BootGuard    == proc = "down" /\ Loads(env) /\ Constructible
TorchGuard   == proc = "loading" /\ Torch
SessionGuard == proc = "loading" /\ ~Torch /\ graph \in Graph
LabelsGuard  == proc = "labels" /\ labels \in Revisions \ Unlabelled

\* An action whose guard holds can be taken: every guard is the whole of its action
\* but for the assignments, and each of them changes proc.
StartGuardsSuffice ==
    /\ BootGuard => ENABLED <<Boot>>_vars
    /\ TorchGuard => ENABLED <<LoadLocal \/ LoadHub>>_vars
    /\ SessionGuard => ENABLED <<LoadSession>>_vars
    /\ LabelsGuard => ENABLED <<LoadLabels>>_vars

\* Whatever stage an export overtook the start in, the guard of the next one holds.
LEMMA SomeStage ==
    ASSUME ManagerInv, Startable
    PROVE  /\ Down => BootGuard
           /\ Loading => TorchGuard \/ SessionGuard
           /\ LoadingLabels => LabelsGuard
    <1>1. Loadable
          BY StartableLoadable
    <1>2. ~Torch => graph \in Graph /\ labels \in Revisions \ Unlabelled
          BY <1>1 DEF Loadable, Whole, Graph
    <1>3. LoadingLabels => ~Torch
          BY DEF ManagerInv, Beginning, LoadingLabels
    <1>4. QED
          BY <1>1, <1>2, <1>3 DEF Loadable, Down, Loading, LoadingLabels, BootGuard,
             TorchGuard, SessionGuard, LabelsGuard

\* No start is stuck in a stage that only another restart gets it out of, for any
\* environments, models and revisions (Boot and the two load_model).
THEOREM StartsNeverStuck == MSpec /\ []StartGuardsSuffice => []StartNeverStuck
    <1>1. ManagerInv /\ StartGuardsSuffice => StartNeverStuck
          BY SomeStage DEF StartGuardsSuffice, StartNeverStuck, StartEnabled, Down,
             Loading, LoadingLabels, TorchGuard, SessionGuard
    <1>2. QED
          BY <1>1, ManagerInductive, PTL

\* A start that an export went before stays undisturbed as long as the service could
\* come up: the next export would have to begin.
Calm == quiet \/ Torch

LEMMA CalmStart ==
    ASSUME ManagerInv, [MNext]_vars, Startable'
    PROVE  /\ Down => Down' \/ Calm'
           /\ Calm => Down' \/ Calm'
    <1>1. Torch <=> Torch'
          BY Stages
    <1>2. CASE Boot
          <2>1. exporter' = exporter /\ quiet' = (exporter \in {"verified", "unverified"})
                BY <1>2 DEF Boot, artifactVars
          <2>2. QED
                BY <1>1, <2>1 DEF Startable, Calm
    <1>3. CASE LoadFails \/ Exit
          BY <1>3 DEF LoadFails, Exit, Reset, Down
    <1>4. CASE Outside
          <2>1. quiet' = (quiet /\ exporter' \notin Running) /\ proc' = proc
                BY <1>4 DEF Outside
          <2>2. QED
                BY <1>1, <2>1 DEF Startable, Running, Calm, Down
    <1>5. CASE LoadLocal \/ LoadHub \/ LoadSession \/ LoadLabels
          <2>1. quiet' = quiet /\ proc # "down"
                BY <1>5 DEF LoadLocal, LoadHub, LoadTorch, LoadSession, LoadLabels
          <2>2. QED
                BY <1>1, <2>1 DEF Calm, Down
    <1>6. CASE WorkerCalls \/ Cleanup \/ UNCHANGED vars
          <2>1. quiet' = quiet /\ (proc = "down" => proc' = "down")
                BY <1>6 DEF WorkerCalls, PreprocessCheck, PreprocessRun, PredictCheck,
                   PredictTouch, PredictRun, TopK, NextBatch, Read, Cleanup, DropModel,
                   DropProcessor, DropFlag, DropBackend, Drop, vars, managerVars
          <2>2. QED
                BY <1>1, <2>1 DEF Calm, Down
    <1>7. QED
          BY <1>2, <1>3, <1>4, <1>5, <1>6 DEF MNext

\* Restarts alone bring the service up once an export went through, and what they
\* bring up belongs together, for any configuration, models and revisions (the
\* restart policy of the container, Boot and the two load_model).
THEOREM RestartsBringUp ==
    MFairSpec /\ []StartGuardsSuffice => ComesUp
    <1>1. ManagerInv /\ [MNext]_vars =>
             /\ Down => Down' \/ Loading'
             /\ Loading => Loading' \/ LoadingLabels' \/ Down' \/ Up'
             /\ LoadingLabels => LoadingLabels' \/ Down' \/ Up'
             /\ LoadingLabels => ~Torch
             /\ Torch <=> Torch'
          BY Stages
    <1>2. <<Boot>>_vars => Loading'
          BY DEF Boot, Loading
    <1>3. <<LoadLocal \/ LoadHub>>_vars => Up'
          BY DEF LoadLocal, LoadHub, LoadTorch, Up
    <1>4. <<LoadSession>>_vars => LoadingLabels'
          BY DEF LoadSession, LoadingLabels
    <1>5. <<LoadLabels>>_vars => Up'
          BY DEF LoadLabels, Up
    <1>6. StartEnabled =>
             /\ Down => ENABLED <<Boot>>_vars
             /\ Loading /\ Torch => ENABLED <<LoadLocal \/ LoadHub>>_vars
             /\ Loading /\ ~Torch => ENABLED <<LoadSession>>_vars
             /\ LoadingLabels => ENABLED <<LoadLabels>>_vars
          BY DEF StartEnabled, Down, Loading, LoadingLabels
    <1>7. MSpec /\ []StartGuardsSuffice => [](Startable => StartEnabled)
          BY StartsNeverStuck DEF StartNeverStuck
    <1>8. ManagerInv /\ [MNext]_vars /\ Startable' =>
             /\ Down => Down' \/ Calm'
             /\ Calm => Down' \/ Calm'
          BY CalmStart
    <1>9. MFairSpec /\ []StartGuardsSuffice =>
             (Down /\ Startable ~> Up \/ ~Startable)
          BY <1>1, <1>2, <1>3, <1>4, <1>5, <1>6, <1>7, ManagerInductive, PTL
          DEF MFairSpec, MSpec
    \* From where it is down on, the start is a calm one.
    <1>10. MFairSpec /\ []StartGuardsSuffice =>
              (Down /\ Startable ~> (Up /\ Calm) \/ ~Startable)
           <2>1. ManagerInv => ~(Down /\ Up)
                 BY DEF Down, Up
           <2>2. QED
                 BY <1>8, <1>9, <2>1, ManagerInductive, PTL DEF MFairSpec, MSpec
    <1>11. ManagerInv => (Up /\ Calm => ServesWhole)
           BY DEF ManagerInv, Undisturbed, Up, Calm, ServesWhole
    <1>12. ComesUp <=> (Down /\ Startable ~> ServesWhole \/ ~Startable)
           BY PTL DEF ComesUp, Down
    <1>13. QED
           BY <1>10, <1>11, <1>12, ManagerInductive, PTL DEF MFairSpec
=============================================================================
