------------------------------- MODULE Config -------------------------------
(***************************************************************************)
(* src/config.py: the settings a process starts with.  An environment is   *)
(* the function from the variables that are set to what they say; a text   *)
(* that int() does not read is any value that is no number.                *)
(***************************************************************************)
EXTENDS Integers, Sequences

CONSTANT None  \* Python's None

Default ==
    [MODEL_NAME |-> "microsoft/resnet-50", MODEL_PATH |-> None,
     INFERENCE_DEVICE |-> "cuda", INFERENCE_BACKEND |-> "torch",
     API_HOST |-> "0.0.0.0", API_KEY |-> None, API_PORT |-> 8000, DEBUG |-> FALSE,
     LOG_LEVEL |-> "INFO", LOG_FORMAT |-> "json",
     MAX_FILE_SIZE_MB |-> 16, MAX_CHUNK_SIZE_MB |-> 1,
     MAX_IMAGE_DIMENSIONS |-> <<4096, 4096>>,
     MODEL_INPUT_SHAPE |-> <<None, 3, 224, 224>>,
     TOP_K_PREDICTIONS |-> 5, MAX_TOP_K_PREDICTIONS |-> 10,
     MAX_CONCURRENT_REQUESTS |-> 256, MAX_BATCH_SIZE |-> 64,
     BATCHING_TIMEOUT_MS |-> 3, API_RETRY |-> 5, INFERENCE_TIMEOUT |-> 60]

\* What the settings that are names may be.
Choices ==
    [MODEL_NAME |-> {"microsoft/resnet-50", "google/mobilenet_v2_1.4_224",
                     "resnet-50", "mobilenet_v2"},
     INFERENCE_DEVICE |-> {"cpu", "cuda"},
     INFERENCE_BACKEND |-> {"torch", "onnx", "tensorrt"},
     LOG_LEVEL |-> {"DEBUG", "INFO", "WARNING", "ERROR", "CRITICAL"},
     LOG_FORMAT |-> {"json", "text"}]

\* The largest value of each setting that is a number and has one.
Ceiling(c) ==
    [API_PORT |-> 65535,
     MAX_CHUNK_SIZE_MB |-> c.MAX_FILE_SIZE_MB,
     TOP_K_PREDICTIONS |-> c.MAX_TOP_K_PREDICTIONS,
     MAX_TOP_K_PREDICTIONS |-> 100,
     MAX_CONCURRENT_REQUESTS |-> 256,
     MAX_BATCH_SIZE |-> 64,
     BATCHING_TIMEOUT_MS |-> 5,
     API_RETRY |-> 60,
     INFERENCE_TIMEOUT |-> 600]

\* validate
Valid(c) ==
    /\ \A f \in DOMAIN Choices : c[f] \in Choices[f]
    /\ c.API_HOST # ""
    /\ c.MAX_FILE_SIZE_MB > 0
    /\ \A f \in DOMAIN Ceiling(c) : 0 < c[f] /\ c[f] <= Ceiling(c)[f]
    /\ Len(c.MAX_IMAGE_DIMENSIONS) = 2
    /\ \A i \in 1..2 : c.MAX_IMAGE_DIMENSIONS[i] > 0
    /\ Len(c.MODEL_INPUT_SHAPE) = 4
    /\ \A i \in 1..4 :
          c.MODEL_INPUT_SHAPE[i] # None => c.MODEL_INPUT_SHAPE[i] > 0

\* from_env: variables that are not set keep the default of the class.
FromEnv(env) ==
    [f \in DOMAIN Default |-> IF f \in DOMAIN env THEN env[f] ELSE Default[f]]

\* from_env converts what is set, then validates; anything else raises, at the
\* import of the application.
Numbers == DOMAIN Ceiling(Default) \cup {"MAX_FILE_SIZE_MB"}
Parses(c) ==
    /\ \A f \in Numbers : c[f] \in Int
    /\ c.MAX_IMAGE_DIMENSIONS \in Seq(Int)
    /\ c.MODEL_INPUT_SHAPE \in Seq(Int \cup {None})
Loads(env) == Parses(FromEnv(env)) /\ Valid(FromEnv(env))
=============================================================================
