# A TLA+ model of the Simple Model Inference API

The repository is an image classification service: a FastAPI application that
queues uploaded images for a worker thread, which batches them, runs a model and
hands the results back to the event loop. These modules model the parts of it
whose correctness depends on the order in which things happen, TLC checks them on
small instances, and TLAPS proves their safety properties and refinements, and some of
what must eventually happen, for any number of requests, any capacity and batch size,
any environments and revisions.
Paths are those of the repository (`src/app.py`, `src/inference_engine.py`, ...).

## 1. The system

| Part | State it keeps | Operations | What is hard about it |
|---|---|---|---|
| `InferenceEngine` (`src/inference_engine.py`) | `inference_queue` (bounded), `shutdown_event`, `ready`, the worker thread and its batch, one asyncio future per request | `EnqueueRequest`, `batch_processing_loop`, `perform_inference`, `shutdown` | three threads of control on a shared queue; callbacks handed to a loop that may be busy, blocked or closed; a sentinel that competes for queue slots with requests; a worker that may die or outlive the join |
| Application (`src/app.py`) | one handler per request, the timers of `wait_for`, the engine | `/predict` and `/invocations`, the metrics middleware, the health probes, the lifespan | checks before an await that are stale after it; a timeout racing a late answer; draining; counters when a handler raises |
| Upload limits (`read_with_limits`, `Content-Length`) | the buffer and the position in the file | read chunk by chunk | boundaries: exact fit, empty file, missing or misleading header |
| `ModelManager` (`src/model_manager.py`) | `model`, `session`, `image_processor`, `id2label`, `model_loaded` | `load_model`, `preprocess_inputs`, `predict`, `top_k_from_logits`, `cleanup_model` | torn down field by field on one thread while another may use it; loads that fail halfway and are repeated by restarts; settings, backend, device and files that have to fit each other |
| Metrics (`src/metrics.py`) | Prometheus counters, gauges, histograms | incremented by the others | gauge set by one thread, reset by another |
| Config (`src/config.py`) | immutable | `from_env`, `validate`, `validate_image` | bounds that others rely on, and what it cannot know |
| AWS deployment (`scripts/aws_deploy.py`) | handles to three cloud resources, `model_deployed` | deploy with rollback, predict, delete | partial failure anywhere, before or after the call took effect |
| ONNX export (`scripts/export_onnx.py`) | two files | `export`, `verify_parity` | a graph and a label file written one after the other, by a script that may die, while a container loads them and the hub publishes another model |
| Plots, load test, containers, dashboards | none | | no logic of the service |

How they interact. The lifespan constructs the engine before the first request and
calls `shutdown` after the last one, synchronously, on the event loop. A handler
calls `EnqueueRequest` and awaits the future under `wait_for`. The worker takes
`(image, loop, future)` from the queue and resolves futures only by
`loop.call_soon_threadsafe`. The probes read `ready`, `model_loaded`,
`shutdown_event`, the thread and the queue. The handlers read the fullness of the
queue, before reading the file and when enqueuing.

What makes each part correct:

* engine: an accepted request is resolved exactly once, with its own result; a bad
  image fails only itself; the bound of the queue is respected both ways; nothing
  blocks for ever; shutdown stops the worker before it tears down the model;
* application: the status code tells what happened; each rejection is counted; no
  client is waiting when the engine goes down; everyone is answered; probes do not flap;
* upload: exactly the files within the limit, in bounded memory;
* manager: a model that was reported as loaded answers every call until it is torn
  down, for every configuration that `validate` lets through; during the teardown
  calls fail cleanly;
* export: an export that went through leaves a graph and labels that belong
  together, whatever earlier ones left, and a container that is down comes up with it;
* deployment: nothing that is known of is forgotten, whatever fails.

`PROJECT.json` lists the hazards behind these, each at its line with the properties
that cover it.

## 2. Modules

| Module | Models | Extends |
|---|---|---|
| `InferenceEngine` | the engine: event loop, worker, shutdown | |
| `InferenceService` | what the engine promises its callers, without threads or batches of tensors | |
| `EngineRefinement` | the mappings under which the engine implements the service and keeps to `ModelGate` | `InferenceEngine` |
| `ServingApp` | handlers, middleware, probes, lifespan on top of the engine | `InferenceEngine` |
| `UploadReader` | `Content-Length` check and `read_with_limits` | |
| `Config` | `from_env` and `validate` over the settings | |
| `OnnxArtifact` | the export script, the two files it writes, the hub | `Config` |
| `ModelManager` | construction, loading, the worker's calls and the cleanup of both backends, in a container that is restarted | `OnnxArtifact` |
| `ModelGate` | what the engine takes the manager for | |
| `AWSDeployer` | deploy, rollback, predict, delete | |
| `InferenceEngineProofs` | the engine's inductive invariant and its safety theorems; the worker's progress; nobody is stuck; the worker stops and shutdown returns | `InferenceEngine` |
| `CustodyProofs` | no request is lost or resolved twice, and every one is served | `InferenceEngineProofs` |
| `EngineRefinementProofs` | the engine implements `InferenceService` and keeps to `ModelGate` | `CustodyProofs`, `EngineRefinement` |
| `ServingAppProofs` | what holds of the engine holds in the application; truthful responses | `ServingApp` |
| `ServingDrainProofs` | draining, counters, probes; no client is stuck and every one is answered; saturation passes, draining ends | `ServingAppProofs`, `CustodyProofs` |
| `ModelManagerProofs` | the manager's and the export's invariants; the manager implements `ModelGate`; no start is stuck and restarts bring it up | `ModelManager` |
| `UploadReaderProofs`, `AWSDeployerProofs` | the properties of the two | each its own |
| `MC...` | instances for TLC | |

Definitions named `Action_Variant` and commented `Mutant:` are not part of any
specification. Each is a plausible mistake in the action it is named after; put in
its place it must make the named property fail, which shows that the property
depends on that code. `PROJECT.json` pairs them with properties under `mutants`.

### InferenceEngine

State and code: `queue` is `inference_queue` (the constant `None` is the sentinel);
`future[r]` the status of the future of request `r`, and `row[r]` whose row of the
model's output it was resolved with; `callbacks` what `call_soon_threadsafe` has
scheduled, in order; `ready`, `modelReady`, `modelLoaded` are `engine.ready`, the
gauge `MODEL_READY` and `manager.model_loaded`; `worker` is the place of the worker
thread, `batch`, `tensors`, `validPositions`, `cursor` its local variables and the
index of the loop it is in; `shut` is the place of the call of `shutdown`. The
fields of a batch that are zipped in the code (`image_batch`, `loops`, `futures`)
are one sequence of requests. `joinTimedOut` and `cleanupRaised` are history variables.

A step is a stretch between two accesses to what another thread can touch:

* event loop: `Accept`, `Reject` (`EnqueueRequest` with and without room),
  `CallerTimeout` (`wait_for` cancels a pending future), `RunCallback` (which on a
  done future changes nothing: `InvalidStateError` is swallowed by `safely_...` or by
  the loop), `CloseLoop`. All of these need `LoopFree`: the loop is open and not
  inside the synchronous `shutdown`;
* worker: from `ready` and the gauge (`WStart`, `WAnnounce`), the test of
  `shutdown_event` (`WPoll`), the first `get`
  (`WGetTimeout`, `WGetSentinel`, `WRefuseFirst`, `WTakeFirst`) and the collecting
  loop (`WRefuseNext`, `WTakeNext`, `WMeetSentinel`, `WRequeue`, `WDispatch`) to
  preprocessing (`WPreprocess`, `WPreprocessFails`, `WPreprocessed`,
  `WNothingValid` with its assertion), prediction and delivery, one future at a
  time (`WPredict`, `WPredictFails`, `WDeliver`, `WFail`, `WBatchEnd`);
* shutdown: set the event, put the sentinel or give up, join or give up, clean up in
  two steps, reset the gauge; or leave with an exception of `_cleanup_backend`, which
  `torch.cuda.synchronize` may raise, and the gauge as it is (`ShutdownRaises`).

The time constants (1 s, the batching window, 2 s, 5 s, `INFERENCE_TIMEOUT`) are
choices: a wait may end by its timeout whenever the code lets it. `WGetTimeout` and
`ShutdownPutTimeout` additionally need that there was nothing to wait for, as `get`
and `put` guarantee. `WPredictFails` may always happen (the backend may raise);
`CanPreprocess` and `WPredict` need the model. `cleanup_model` is two steps,
`ShutdownUnload` and `ShutdownCleanup`: once the image processor is gone no image can
be preprocessed, but tensors that a worker has prepared can still be predicted with
(an ONNX session survives until the end of the cleanup) as long as `model_loaded` is
set. That these two phases are all a worker can tell of the four assignments of
`cleanup_model` is what `ModelManager` shows (`ImplementsGate`). A `shutdown` that a
forced exit skips is `CloseLoop` without it.

`EnqueueRequest` has one caller, which validates the image before (`app.py:310`), so that
within the application the branches in which the worker refuses an image are never
taken (`WRefuseFirst`, `WRefuseNext`). The engine is checked and proved without relying on its
caller: with requests of refused dimensions among those accepted (`BadDims`).

`Terminated` is the end of a run: the loop is closed and the worker ended. There is
one more way to end, which the model shows and `NoThreadStuck` excepts:
after a join that timed out, the worker may still be collecting, requests may be
accepted again between the return of `shutdown` and the end of the loop, the queue
may fill up, and the worker then blocks in `put(None)` (line 204) for ever. It is a
daemon thread, so that the process still ends.

### InferenceService and EngineRefinement

The abstract service holds at most `Capacity` requests, works on at most one batch,
reaches one verdict per request and tells it if the caller still listens; it turns
a request away only when it is full. The refinement maps what it holds to the
queue without the sentinel, the batch to the positions nobody has been told about
yet, and the verdicts reached to the scheduled callbacks. The sentinel is why
`Reject` of the service counts one more while closing.

On its other side the engine uses the model manager. `GateStage(r)` is how far the
manager's calls for request `r` have come (not made, a tensor, an answer, a failure),
read off the worker's place and its `tensors`, and `GatePhase` what the manager's
fields are for them; `KeepsToGate` says that for every image that can be processed
both move as in `ModelGate`. `ImplementsGate` of `ModelManager` says the same of the
manager, so that the two components, which are checked apart, fit together.

### ServingApp

`handler[r]` says where the coroutine of a request is, `response[r]` what its client
got, `expired[r]` whether its timer fired. Each action of a handler is what it does
from one await to the next, conjoined with the action of the engine it calls
(`Submit` with `Accept`, `SubmitFull` with `Reject`, `TimerFires` with
`CallerTimeout`). `Connect` is the request that has begun to arrive: FastAPI awaits
its whole body before it calls the application, so that requests keep reaching the
handler while uvicorn is draining already. A timer that fires after the future was resolved, but before the
handler has run on, still makes `wait_for` raise `TimeoutError` (Python 3.12, the
version the project requires): `TimerFires` therefore also applies to resolved futures, and `Resume` looks
at the timer first. `Respond` is the middleware: a response is counted unless it is
the 500 that an exception turns into outside it. It is one action with the
counter of rejections: between them the handler does not await, and counters, handlers
and middleware are all on the one event loop. `StartDraining`,
`LifespanShutdown` and `LoopEnds` are uvicorn: after the signal no new requests,
shutdown of the lifespan when none is in flight, and the end of the loop after that
or, on a second signal, before. The probes are operators on the state.

### UploadReader

Sizes are in an arbitrary unit. The uploaded body is the file and at least one unit
of multipart framing; a truthful `Content-Length` is their sum. It may also be absent,
no number, or any other value: HTTP lets a body be delimited otherwise than by its
length, and the check reads the header as it comes.

### Config, OnnxArtifact, ModelManager and ModelGate

`Config` translates `from_env` and `validate`: an environment is a function from the
variables that are set to what they say, and it `Loads` if every number is one and
every setting within its bounds. Reading a number is the choice between an integer
and a value that is none.

In `OnnxArtifact` the files of `MODEL_PATH` are the model revision they were written
from, `Torn` while they are being written or after their writer died, `None` before.
The script fetches a revision, refuses one without labels, writes the graph, then the
labels, and compares the top-1 class with that of a torch model it fetches anew. It
may die at any point; the hub may publish a revision at any point. `sound` says
whether graph and torch model agree on that class.

`ModelManager` puts `Boot` (the import of the configuration and the constructor),
the two `load_model` (`LoadLocal`, `LoadHub`; `LoadSession` and `LoadLabels`, between
which an export may write), the worker's calls cut at each read of a field of the
manager (`PreprocessCheck`, `PreprocessRun`, `PredictCheck`, `PredictTouch`,
`PredictRun`, `TopK`) and `cleanup_model` cut at each assignment (`DropModel`,
`DropProcessor`, `DropFlag`, `DropBackend`) side by side with the script. `Exit` and
`LoadFails` end the process, after which `Boot` starts it again: `docker-compose.yml`
says `restart: unless-stopped`. Where tensors, models and sessions live and how many
classes they have is kept, as `PreprocessRun`, `PredictRun` and `TopK` fail on what
does not fit. What a backend raises of its own accord (out of memory, an error of
`session.run`) is left out here and of `HealthyCalls`, which is about configuration,
device and labels; in the engine, `WPredictFails` may happen at any prediction. `quiet`
is a history variable: no export has run since the load began.

`ModelGate` is the view of the engine: a model that is loaded, unloading or unloaded,
and calls that succeed or fail accordingly. Both sides are checked and proved against
it: `ImplementsGate` of the manager, `KeepsToGate` of the engine.

### AWSDeployer

The account holds a model, an endpoint configuration and an endpoint; each is
absent, ours or an earlier deployment's. `ModelBuilder.deploy` is external: it
creates the configuration under the name of the endpoint, then the endpoint, and
waits for it; it may raise in between. `todo` is the rest of the cleanup calls of
the rollback or of `delete_endpoint`; each may raise, before or after it took
effect (`DeleteFails`), and the next one is made all the same. An earlier deployment's
endpoint is never touched (`ForeignEndpointSpared`). Its configuration is deleted by the
rollback of a deploy that raised, which looks it up under the name of the endpoint;
`ForeignConfigLostToRollback` says that nothing else does.

## 3. Model checking

| Run | Instance | Shows |
|---|---|---|
| `engine_safety` | 4 requests (2 sound, 1 corrupt, 1 of refused dimensions), capacity 2, batches of 3 | `Custody`, `OwnResult`, `IsolatedFailures`, `RequeueNeverBlocks`, `CleanShutdown`, `WorkerGetsOn` in every interleaving, that the engine implements `InferenceService` and keeps to `ModelGate` |
| `engine_liveness` | 3 requests (1 corrupt), capacity 2, batches of 2 | accepted requests are resolved without any timeout (`Served`), `WorkerStops`, `ShutdownReturns`; `NoThreadStuck` |
| `app_safety` | 3 requests (1 corrupt), capacity 1, batches of 2 | `ResponseTruthful`, `RejectionsCounted`, `NobodyLeftBehind`, `PendingIsAwaited`, `ProbesMonotone` |
| `app_liveness` | 2 requests (1 corrupt), capacity 1, batches of 2 | `EveryClientAnswered`, `SaturationPasses`, `DrainCompletes`; `NoClientStuck` |
| `upload` | limit 5, chunks of 2, files up to 12, framing up to 2, any value as `Content-Length` up to 14 | `AcceptedWithinLimit`, `BufferBounded`, `ReaderExact` |
| `aws` | the whole state space | `NothingForgotten`, `CleanReturn`, `ForeignEndpointSpared`, `ForeignConfigLostToRollback` |
| `model_manager` | 10 environments (each backend with and without `MODEL_PATH`, both devices, values at and beyond the bounds, a text that is no number), 3 revisions of which the second has no labels, local models of 3 and 1000 classes | `HealthyCalls`, `CleanExport`, `QuietLoadCoherent`, `ComesUp`, `StartNeverStuck`, and that the manager implements `ModelGate` |
| `assertion`, `drained_on_exit`, `metrics`, `upload_header`, `aws_endpoint` | as above | the five disagreements of section 5 |

Why the bounds are enough. The worker distinguishes a first item from later ones, a
batch below and at its maximum, a valid image before and after an invalid one: three
or four requests with a batch of three give valid positions that differ from their
indices, in both orders, and one more request that stays in the queue. The queue
distinguishes empty, partly filled and full, with and without the sentinel:
capacity 2 has all six, capacity 1 has the sentinel alone fill it. Each request is
submitted once; a second round of the worker's loop happens as batches are shorter
than the set of requests. The theorems of section 4 remove the bounds from the
safety properties. In the model manager three revisions give an export that is
overtaken by a publication with labels and by one without, over files that an earlier
one left. In the upload the chunk does not divide the limit
and the largest file exceeds it by more than two chunks. Symmetry is used only in
safety runs, among requests of the same kind.

Fairness (`FairSpec`, `AppFairSpec`). The worker is a thread that the system
schedules (`WF` of `Worker` as a whole: nothing forces it to prefer one exit of a
wait to another). The event loop runs the callbacks it was handed. The blocking
calls of `shutdown` return: `put` by itself or by its timeout, `join` when the
thread has ended. There is no fairness on `ShutdownJoinTimeout`, so that
`WorkerStops` does not rest on the join giving up. In the application clients finish
the bodies they have begun to send (uvicorn waits for them without a limit, and a
client that stops halfway would hold up draining), and the loop also resumes handlers, fires timers that are armed, goes on reading files, and starts
the shutdown of the lifespan when it can; no fairness is assumed on new requests, on
signals or on the end of the loop. Nothing says that the loop runs a callback
before the timer that races it. For `ComesUp` (`MFairSpec`) the container is restarted
whenever it can be, which is `restart: unless-stopped` in
`docker/docker-compose.yml`, and of infinitely many attempts to load from the hub, the
graph or the labels not all fail: strong fairness, as each attempt that fails takes
the process down, and with it the chance, until the next start. Nothing is assumed of
the export, whose success is in the premise of `ComesUp`.

`NoThreadStuck`, `NoClientStuck` and `StartNeverStuck` say that this fairness is about
something: whoever is due can move. A worker that has not ended can, unless shutdown
has given up on it; so can shutdown, unless it waits for a live worker; so can every
handler in flight, which needs that the loop is neither closed nor inside `shutdown`
under it; so can every stage of a start while the artifact is in order. They are
invariants about ENABLED, and stronger than the absence of deadlock, which any other
step hides.

`WorkerGetsOn` is about the worker's steps one by one: each takes it nearer to the next
item of the queue, takes that item, or ends a wait that found the queue empty; once
`shutdown_event` is set, each takes it nearer to its end. `StepsLeft` counts the
steps it can still make with its batch, `Distance` adds the queue, of which it may empty
a part before it comes to test the event; twice the steps, as putting the sentinel
back makes the queue longer. While `shutdown` holds the loop nothing raises it.

`CleanShutdown` also says when the gauge `MODEL_READY` may be left at 1 by a shutdown
that has returned: after an exception of the cleanup, or by a worker that was given up
before its first statements and, having made them, finds `shutdown_event` set.

`ComesUp` asks for more than a process that serves: for ONNX, graph and labels are of one
revision (`ServesWhole`). A load that an export overtakes can mix two, and then serves them until
the next restart; the property says that this is only so while exports run.

Within the application every step leaves the engine alone or takes one of its steps, by
the way `AppNext` is written; `AppImplementsEngine` states that, as the lemma by which
what is proved of the engine holds in the application.

Deadlock is checked for the engine and the application, where `Terminated` is the
only way to stop. The upload reader and the deployment script end, so it is switched
off there.

## 4. Proofs

`InferenceEngineProofs` proves `Spec => []IInv`. `TypeOK` alone is not inductive.
`IInv` adds what relates the local variables of the worker to its place:

* `BatchPhase`: between two batches the worker's variables are empty, while
  collecting there are no valid positions, later they lie within the batch;
* `BatchShape`: each tensor is the image of the request at the valid position of the
  same index, and that request is sound;
* `OutcomesProper`: every outcome in a callback or a future is one its request can
  have, which gives `OwnResult` and `IsolatedFailures`;
* `SentinelPhase`: there is no sentinel before shutdown puts one, and while shutdown
  holds the event loop nobody fills the slot that the worker took it from, which
  gives `RequeueNeverBlocks`;
* `TeardownPhase`: the model is unloaded by the last steps of shutdown, and then the
  worker is dead or the join timed out, which gives `CleanShutdown` and the exception
  in `IsolatedFailures`; and what the gauge says is what the worker's first statements
  and shutdown's last one have made of it.

`WorkerAlwaysGetsOn` proves `WorkerGetsOn`. It needs `Cursors`, which says of each loop
of `perform_inference` where its index can be and how many valid items lie behind it:
without it the rank could fall below zero, or rise from one loop to the next. With it
the worker is at most `6 * BatchMax + 14 + Capacity` from its end, for any capacity
and batch size.

`CustodyProofs` proves `Spec => []Custody` with `CInv`: no request twice in a place
(`Once`), none in two places, and pending requests in some place (`Placed`),
strengthened by the distinct valid positions (`Positions`). Every action is one of
a few moves between places, each of which is a lemma: a request joins the queue,
moves from the queue to the batch, from queue or batch to the callbacks, from the
callbacks to its future, or nothing moves; each action cites the move it is.

`ServingAppProofs` takes the theorems about the engine over to the application
(`AppImplementsEngine`), and from an invariant that ties handlers and timers to futures proves
`ResponseTruthful` and `PendingIsAwaited`.

`EngineRefinementProofs` proves `Spec => ImplementsService`. The moves of
`CustodyProofs` are the steps of the service; what is left is to count. The service
compares how many requests it holds with `Capacity`, the engine the length of its
queue: they agree as no request is twice in the queue (`Once`) and the sentinel at
most once (`OneSentinel`, which is why `RInv` is needed), and only while closing.
The second theorem there is `EngineKeepsToGate`. It needs that all items of a batch are
distinct, those already failed included (`Distinct`), which custody gives: what the
worker takes from the queue is in no other place.

`ServingDrainProofs` adds `DrainPhase` (shutdown begins when the last handler is
gone, and only a forced exit, after which there is no shutdown, aborts one) and
`Counted`, and combines them with the invariants of the application and of custody:
`NobodyLeftBehind` needs all three. `ProbesMonotone` follows as nothing that a probe
reads is ever taken back before `shutdown_event` is set.

`ModelManagerProofs` proves, for any environments, models and number of revisions,
that a configuration that loads keeps the bounds `InferenceEngine` and `UploadReader`
assume (`LoadedConfig`), and from `ManagerInv` the safety properties of manager and
export. `ManagerInv` ties the fields to the place of load, cleanup and call: what a
loaded manager of each backend holds, where the tensors are, and that labels that
are no longer torn belong to the graph before them once the script is past them.
The same invariant makes every step of the manager one of `ModelGate` or a stutter.
`QuietLoadCoherent` follows from it: nothing that a quiet load read has been written
since, so that what `CleanExport` says of the files holds of what is served.

`UploadReaderProofs` needs that what is held is what was read, and that reading goes on
only while that is within the limit (`Reading`). `AWSDeployerProofs` needs, for each point of the script, which resources are in the
account, which of them the script holds handles of and which are still in `todo`
(`Progress`, `Cleaned`). That a deploy which got past the configuration has made one of its
own gives `ForeignConfigLostToRollback`.

Assumptions, each named in the module that declares the constants and evaluated by
TLC: `EngineAssumption` (positive capacity and batch size, bad requests among the
requests, the sentinel none of them), `AppAssumption` (finitely many requests, for
the counters), `UploadAssumption` (positive limit and chunk), `ArtifactAssumption`
and `ManagerAssumption` (revisions are numbers, a hub model has at least as many
classes as `MAX_TOP_K_PREDICTIONS` may be). `Config.validate` enforces the bounds
among them.

### Nobody is stuck

`ThreadsNeverStuck`, `ClientsNeverStuck` and `StartsNeverStuck` prove `NoThreadStuck`,
`NoClientStuck` and `StartNeverStuck`. These invariants are about ENABLED, for which the
prover has no rule: that an action can be taken where its guard is true is a hypothesis
of each (`EngineGuardsSuffice`, `HandlerGuardsSuffice`, `StartGuardsSuffice`; and
`AppGuardsSuffice` below, which adds to the second the steps of worker and shutdown
inside the application). Such a hypothesis names each guard as it is read off the
definition of the action and says nothing of when it is true; every reachable state
satisfies it. What the theorems prove is that some guard is true wherever somebody is
due:

* the worker, wherever it is but ended or given up by shutdown, has an item or a
  timeout to go on with, and room to put the sentinel back (`SomeGuard`, from `IInv`);
* the loop is free as long as a handler is in flight, and a handler whose future is
  pending has a timer that has not fired (`HandlerGoesOn`, from the invariants of
  `ServingDrainProofs`);
* a stage of a start in which an export has overtaken it still finds a graph and labels
  that are complete once that export went through (`SomeStage`, from `ManagerInv`).

### What must eventually happen

Two theorems are chains of leads-to steps of fixed length from the fairness of their
specification, under the hypothesis about guards alone:

* `RestartsBringUp` (`ComesUp`): down, loading, for ONNX reading the labels, serving. A
  start may fall back from every stage, which is why fairness has to be strong;
* `ClientsAreAnswered` (`EveryClientAnswered`): for each request, from its arrival over
  reading and awaiting to its response. A handler whose future is pending is answered by
  its own timer, one whose future is final is resumed, and no future becomes pending
  again (`HandlerMoves`). `InFlightLoopFree` proves that the loop is free throughout:
  shutdown waits for the last handler, and what ends the loop ends the handlers.

The others follow the worker through its loop, whose length depends on the constants.
They need an induction over a rank, and the prover makes no induction over temporal
formulas. The rule they would use is the lattice rule of the temporal logic of actions
over the natural numbers (`LatticeRule`): if from every rank one comes to the goal or to
a lower rank, then from every rank one comes to the goal. It is valid, and its instances
are hypotheses of these theorems. Their premises are not: that each step of the
worker lowers the rank, that no step of another thread raises it, that fairness makes
the worker take that step and that the rank is a natural number wherever the goal is
not reached, is proved for any capacity and batch size.

| Theorem | Property | Rank |
|---|---|---|
| `WorkerComesToItsEnd` | `WorkerStops` | `Distance`, while shutdown joins |
| `ShutdownComesBack` | `ShutdownReturns` | the same; then cleaning, unloading, releasing, done |
| `SaturationAlwaysPasses` | `SaturationPasses` | `Distance`, while the queue is full, which nothing can join |
| `RequestsAreServed` | `Served` | `Work`, then the number of callbacks before the request's own |
| `DrainingEnds` | `DrainCompletes` | none for the handlers; `Distance` while shutdown joins |

`Work` is what makes `Served` hard: other requests join the queue behind the one that
waits, so that the distance to the next item says little. It counts a round of the
worker's loop for each item in the queue and two for each request that has not been
submitted, and adds the steps left in the current round; a request that joins spends one
of its two, and an item taken from the queue pays for the round it begins (`WorkFalls`). This theorem
assumes in its statement that the requests are finitely many, as `AppAssumption` does
for the application.

`DrainingEnds` has one more hypothesis, `TogetherRule`: if draining makes each request
come to an end for good, it makes all of them do so together. For finitely many
requests that is a valid rule; it is an induction over their number. Its premise, that
no handler comes back once it has ended and that none is admitted while draining, is
proved.

Not proved without hypotheses, and checked by TLC without them on the instances of
section 3: these seven liveness properties and the three invariants about ENABLED. Every
other property of the passing runs is a theorem without hypotheses beyond the named
assumptions on the constants.

## 5. Where the code and what is said of it disagree

1. `inference_engine.py:116`: the assertion that all futures are done is reached
   before the event loop has run the callbacks that fail them. A batch without a
   valid image can therefore end the worker thread (`AssertionHolds`); `README.md:13`
   promises that a malformed input only fails its own request. After that liveness
   is down for good, and clients get 504s until the process is restarted; custody of
   the requests is not affected. The tests use a loop that runs callbacks at once.
2. `inference_engine.py:145` says that the queue is drained until shutdown is
   requested and the queue is empty; the loop ends when shutdown is requested
   (`DrainedOnExit`). What limits the damage is the draining of uvicorn, which lets
   nobody wait by then (`NobodyLeftBehind`).
3. `metrics.py:8` describes `REQUEST_COUNT` as the total of HTTP requests; a 500 is not
   counted (`EveryResponseCounted`).
4. `README.md:171` says 413 means that the file is over the limit; the check of
   `Content-Length` compares the whole multipart body (`OnlyOversizeRefused`).
5. `README.md:315` says `aws_deploy.py` deletes the endpoint; one that never got into
   service stays, without its configuration and model (`EndpointDeleted`).

Seen while reading, without a run:

* `.env.aws.template` sets `AWS_INFERENCE_BACKED` where the script reads
  `AWS_INFERENCE_BACKEND`.
* `README.md` calls `MODEL_PATH` unused for torch, but `TorchModelManager.load_model`
  tries it first; its model may have fewer classes than `TOP_K_PREDICTIONS`, which
  `validate` cannot see, and then every prediction fails (the exception in
  `HealthyCalls`).
* `model_manager.py:35` says that `id2label` is always a dict once loaded; the torch
  backend accepts a model without one and fails in `top_k_from_logits` (the other
  exception). The export refuses such a model.
* `export_onnx.py:25`: without `MODEL_PATH` the export writes into a directory named
  `None`, which `ONNXModelManager` refuses to look at.
* A failed parity check leaves the files it found wrong where the service loads them.
  `QuietLoadCoherent` says when what is served is right all the same: after an export
  that went through, `main` having exited with 0, of the current revision.
* `export_onnx.py:51` bounds the batch of the graph by the `MAX_BATCH_SIZE` of the
  export, the engine bounds its batches by that of the service.
* `inference_engine.py:154`: the batching window opens before the wait for the first
  item, so that after an idle time the first batch is a single request. Throughput
  only; `WDispatch` allows it.
* The health check of the container does not restart one whose worker has died: the
  restart policy acts on processes that end.

## 6. Not modelled

Left out for good, as no property of the program depends on how they do it: turning
texts into numbers and lists, `pyproject.toml`, image decoding, tensors and logits as
numbers, logging, the histograms and the `QueueDepthCollector` (which only reads the
length of the queue), the API key comparison (a refused request is a refused
request), the read-only endpoints, `get_model_info`. `scripts/plot_load_results.py`
draws figures from CSV files in one pass; the load test, the container images, the
monitoring and the CI workflow contain no logic of the program.
