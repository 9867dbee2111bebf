----------------------------- MODULE ServingApp -----------------------------
(***************************************************************************)
(* src/app.py on top of the engine: the handlers of /predict and           *)
(* /invocations, the metrics middleware, the health probes and the         *)
(* lifespan, run by uvicorn on one event loop.  A handler runs from await  *)
(* to await; between two awaits nothing else of the event loop runs.  The  *)
(* engine's actions are conjoined with what the handler does around them.  *)
(***************************************************************************)
EXTENDS InferenceEngine, FiniteSets

\* A process serves finitely many requests, which its counters count.
ASSUME AppAssumption == IsFiniteSet(Requests)

VARIABLES
    handler,        \* where the handler of each request is
    response,       \* the status code its client got, 0 before
    expired,        \* the timer of its wait_for has fired
    requestCount,   \* REQUEST_COUNT, over all labels
    rejectedCount,  \* REJECTED_COUNT
    draining        \* uvicorn got its signal: no new requests, finish the rest

appVars == <<handler, response, expired, requestCount, rejectedCount, draining>>
allVars == <<vars, appVars>>

InFlight == {"receiving", "reading", "awaiting"}
HandlerStates == {"absent", "responded", "aborted"} \cup InFlight
StatusCodes == {200, 400, 401, 413, 422, 429, 500, 503, 504}

AppTypeOK ==
    /\ TypeOK
    /\ handler \in [Requests -> HandlerStates]
    /\ response \in [Requests -> StatusCodes \cup {0}]
    /\ expired \in [Requests -> BOOLEAN]
    /\ requestCount \in 0..Cardinality(Requests)
    /\ rejectedCount \in 0..Cardinality(Requests)
    /\ draining \in BOOLEAN

AppInit ==
    /\ Init
    /\ handler = [r \in Requests |-> "absent"]
    /\ response = [r \in Requests |-> 0]
    /\ expired = [r \in Requests |-> FALSE]
    /\ requestCount = 0
    /\ rejectedCount = 0
    /\ draining = FALSE

-----------------------------------------------------------------------------
(* Responses.                                                              *)

\* Mutant: both the middleware and the endpoint count.
Respond_CountedTwice(r, code) ==
    /\ handler' = [handler EXCEPT ![r] = "responded"]
    /\ response' = [response EXCEPT ![r] = code]
    /\ requestCount' = requestCount + 2
    /\ UNCHANGED <<expired, draining>>

\* metrics_middleware: the counter is incremented after call_next returned; an
\* exception that is no HTTPException propagates through call_next and becomes a
\* 500 outside the middleware, which then counts nothing.  The counters and the
\* response are one step: all three belong to this request alone, and nothing on
\* the one event loop reads a counter to decide anything.
Respond(r, code) ==
    /\ handler' = [handler EXCEPT ![r] = "responded"]
    /\ response' = [response EXCEPT ![r] = code]
    /\ requestCount' = IF code = 500 THEN requestCount ELSE requestCount + 1
    /\ UNCHANGED <<expired, draining>>

\* Mutant: off by one.
QueueFull_OneEarly == Len(queue) >= Capacity - 1

\* inference_queue.full()
QueueFull == Len(queue) >= Capacity

-----------------------------------------------------------------------------
(* handle_predict_request.                                                 *)

\* A client connects and begins to send: FastAPI awaits the whole body, which it
\* parses into the UploadFile, before it calls anything of the application.
Connect(r) ==
    /\ LoopFree
    /\ ~draining
    /\ handler[r] = "absent"
    /\ handler' = [handler EXCEPT ![r] = "receiving"]
    /\ UNCHANGED <<vars, response, expired, requestCount, rejectedCount, draining>>

\* The body is there.  verify_api_key and everything before the first read of
\* the file run without an await: one step.
Arriving(r) == LoopFree /\ handler[r] = "receiving"

\* A body that cannot be parsed (400) or has no file (422), a wrong or missing API
\* key (401), an upload that is no image or a malformed Content-Length (400), a
\* Content-Length above the limit (413), which is looked at after the queue.
RefuseRequest(r) ==
    /\ Arriving(r)
    /\ \E code \in {400, 401, 413, 422} :
          /\ code = 413 => ready /\ ~QueueFull
          /\ Respond(r, code)
    /\ UNCHANGED <<vars, rejectedCount>>

\* engine.ready is not set yet.
RefuseNotReady(r) ==
    /\ Arriving(r)
    /\ ~ready
    /\ Respond(r, 503)
    /\ UNCHANGED <<vars, rejectedCount>>

\* The fast path: the queue is full before the file is read.
RefuseFull(r) ==
    /\ Arriving(r)
    /\ ready
    /\ QueueFull
    /\ Respond(r, 429)
    /\ rejectedCount' = rejectedCount + 1
    /\ UNCHANGED vars

\* The handler awaits the first chunk of the file.
StartReading(r) ==
    /\ Arriving(r)
    /\ ready
    /\ ~QueueFull
    /\ handler' = [handler EXCEPT ![r] = "reading"]
    /\ UNCHANGED <<vars, response, expired, requestCount, rejectedCount, draining>>

\* read_with_limits exceeds the limit (413), the data is no image, or the image
\* has dimensions validate_image refuses (400): the file of such an image may be
\* too large as well, and is then refused before it is decoded.
ReadFails(r) ==
    /\ LoopFree
    /\ handler[r] = "reading"
    /\ \E code \in {400, 413} : Respond(r, code)
    /\ UNCHANGED <<vars, rejectedCount>>

\* The image is read and enqueued: the handler awaits the future in wait_for.
Submit(r) ==
    /\ handler[r] = "reading"
    /\ r \notin BadDims
    /\ Accept(r)
    /\ handler' = [handler EXCEPT ![r] = "awaiting"]
    /\ UNCHANGED <<response, expired, requestCount, rejectedCount, draining>>

\* Mutant: the second 429 is not counted.
SubmitFull_NotCounted(r) ==
    /\ handler[r] = "reading"
    /\ r \notin BadDims
    /\ Reject(r)
    /\ Respond(r, 429)
    /\ UNCHANGED rejectedCount

\* The queue filled up while the file was being read.
SubmitFull(r) ==
    /\ handler[r] = "reading"
    /\ r \notin BadDims
    /\ Reject(r)
    /\ Respond(r, 429)
    /\ rejectedCount' = rejectedCount + 1

\* Mutant: the future is shielded, a timeout leaves it pending.
TimerFires_Shielded(r) ==
    /\ LoopFree
    /\ handler[r] = "awaiting"
    /\ ~expired[r]
    /\ expired' = [expired EXCEPT ![r] = TRUE]
    /\ UNCHANGED <<vars, handler, response, requestCount, rejectedCount, draining>>

\* Mutant: the future is awaited without a timeout.
TimerFires_Never(r) == FALSE /\ UNCHANGED allVars

\* The timer of wait_for fires: the task is cancelled, and with it the future if
\* it is still pending.  If the future was resolved and the handler has not run
\* since, the cancellation reaches the handler all the same.
TimerFires(r) ==
    /\ handler[r] = "awaiting"
    /\ ~expired[r]
    /\ \/ CallerTimeout(r)
       \/ LoopFree /\ future[r] \in Outcomes /\ UNCHANGED vars
    /\ expired' = [expired EXCEPT ![r] = TRUE]
    /\ UNCHANGED <<handler, response, requestCount, rejectedCount, draining>>

\* Mutant: the outcome of the future is looked at before the timeout.
Resume_FutureFirst(r) ==
    /\ LoopFree
    /\ handler[r] = "awaiting"
    /\ future[r] # "pending"
    /\ Respond(r, IF future[r] = "answered" THEN 200
                  ELSE IF expired[r] THEN 504 ELSE 500)
    /\ UNCHANGED <<vars, rejectedCount>>

\* The handler runs on once the future is done: TimeoutError is a 504, a result
\* a 200, and an exception set on the future propagates out of the endpoint.
Resume(r) ==
    /\ LoopFree
    /\ handler[r] = "awaiting"
    /\ future[r] # "pending"
    /\ Respond(r, IF expired[r] THEN 504
                  ELSE IF future[r] = "answered" THEN 200 ELSE 500)
    /\ UNCHANGED <<vars, rejectedCount>>

-----------------------------------------------------------------------------
(* uvicorn and the lifespan.                                               *)

\* SIGTERM: the listening sockets are closed, requests in flight are finished.
StartDraining ==
    /\ ~draining
    /\ loopOpen
    /\ draining' = TRUE
    /\ UNCHANGED <<vars, handler, response, expired, requestCount, rejectedCount>>

\* Mutant: the engine is shut down as soon as the signal arrives.
LifespanShutdown_Undrained ==
    /\ draining
    /\ ShutdownBegin
    /\ UNCHANGED appVars

\* Mutant: shutdown waits for an empty queue.
LifespanShutdown_EmptyQueue ==
    /\ draining
    /\ \A r \in Requests : handler[r] \notin InFlight
    /\ queue = <<>>
    /\ ShutdownBegin
    /\ UNCHANGED appVars

\* After that lifespan calls engine.shutdown().
LifespanShutdown ==
    /\ draining
    /\ \A r \in Requests : handler[r] \notin InFlight
    /\ ShutdownBegin
    /\ UNCHANGED appVars

\* The loop ends, after the lifespan or, forced by a second signal, at any time
\* before it: tasks in flight are cancelled and their clients get no response.
LoopEnds ==
    /\ draining
    /\ CloseLoop
    /\ handler' = [r \in Requests |->
                     IF handler[r] \in InFlight THEN "aborted" ELSE handler[r]]
    /\ UNCHANGED <<response, expired, requestCount, rejectedCount, draining>>

\* The steps of the engine that involve no handler.
EngineStep ==
    /\ \/ RunCallback
       \/ Worker
       \/ Shutdown /\ shut # "idle"
       \/ Terminated
    /\ UNCHANGED appVars

AppNext ==
    \/ \E r \in Requests :
          \/ Connect(r)
          \/ RefuseRequest(r)
          \/ RefuseNotReady(r)
          \/ RefuseFull(r)
          \/ StartReading(r)
          \/ ReadFails(r)
          \/ Submit(r)
          \/ SubmitFull(r)
          \/ TimerFires(r)
          \/ Resume(r)
    \/ StartDraining
    \/ LifespanShutdown
    \/ LoopEnds
    \/ EngineStep

AppSpec == AppInit /\ [][AppNext]_allVars

(* Fairness: clients send the bodies they have begun to send, the event loop *)
(* runs what is runnable, a handler that has a file to read goes on reading  *)
(* it, a timer that is armed fires, and the worker runs.  Nothing says that  *)
(* the loop runs a callback before the timer.                                *)
HandlerFair(r) ==
    /\ WF_allVars(RefuseRequest(r) \/ RefuseNotReady(r) \/ RefuseFull(r)
                     \/ StartReading(r))
    /\ WF_allVars(ReadFails(r) \/ Submit(r) \/ SubmitFull(r))
    /\ WF_allVars(TimerFires(r))
    /\ WF_allVars(Resume(r))

HandlersFair == \A r \in Requests : HandlerFair(r)

AppFairSpec ==
    /\ AppSpec
    /\ WF_allVars(Worker /\ UNCHANGED appVars)
    /\ WF_allVars(RunCallback /\ UNCHANGED appVars)
    /\ WF_allVars((ShutdownPut \/ ShutdownPutTimeout) /\ UNCHANGED appVars)
    /\ WF_allVars(ShutdownJoin /\ UNCHANGED appVars)
    /\ WF_allVars(Teardown /\ UNCHANGED appVars)
    /\ WF_allVars(LifespanShutdown)
    /\ HandlersFair

-----------------------------------------------------------------------------
(* The probes, as the status code each endpoint would return now.          *)

WorkerAlive == ~WorkerDead

\* Mutant: a saturated queue is reported as a dead worker.
Live_Saturated == IF WorkerAlive /\ ~QueueFull THEN 200 ELSE 500

\* liveness_check
Live == IF WorkerAlive /\ ~shutdownEvent THEN 200 ELSE 500

\* startup_check
Startup == IF ready /\ modelLoaded /\ ~shutdownEvent /\ WorkerAlive
             THEN 200 ELSE 503

\* readyness_check
Readiness == IF Startup = 200 /\ ~QueueFull THEN 200 ELSE 503

-----------------------------------------------------------------------------
(* Safety.                                                                 *)

\* What the client is told is what happened: a 200 carries the client's own
\* result and came before the timer, a 429 means the request never entered the
\* engine and is counted as a rejection, a 504 means the timer fired, and a 500
\* that preprocessing or the model failed.
ResponseTruthful ==
    \A r \in Requests :
        /\ response[r] = 200 =>
              future[r] = "answered" /\ row[r] = r /\ ~expired[r]
        /\ response[r] = 429 => future[r] \in {"none", "rejected"}
        /\ response[r] = 504 <=> handler[r] = "responded" /\ expired[r]
        /\ response[r] = 500 => future[r] \in {"unreadable", "failed"}

\* The two places that answer 429 both count, once each.
RejectionsCounted ==
    rejectedCount = Cardinality({r \in Requests : response[r] = 429})

\* When the lifespan shuts the engine down no client is waiting any more: what is
\* still in the queue, in the batch or scheduled on the loop, and may be left
\* there by the worker's exit, belongs to clients that already got their 504.
NobodyLeftBehind ==
    shut # "idle" =>
        \A r \in Requests : Custodians(r) # {} => response[r] = 504

\* A pending future always has a handler awaiting it, which has a timer running:
\* no request is worked on for nobody except after a timeout.
PendingIsAwaited ==
    \A r \in Requests :
        future[r] = "pending" => handler[r] = "awaiting" /\ ~expired[r]

-----------------------------------------------------------------------------
(* Action properties.                                                      *)

\* The probes never flap: liveness that failed has failed for good, so that a
\* restart on it is never premature, and a service that had started stops being
\* so only when liveness fails as well.
ProbesMonotone ==
    [][ /\ Live = 500 => Live' = 500
        /\ Startup = 200 /\ Startup' = 503 => Live' = 500 ]_allVars

-----------------------------------------------------------------------------
(* Liveness.                                                               *)

\* What comes next for the handler of r can happen.
HandlerEnabled(r) ==
    /\ handler[r] = "receiving" =>
          ENABLED <<RefuseRequest(r) \/ RefuseNotReady(r) \/ RefuseFull(r)
                       \/ StartReading(r)>>_allVars
    /\ handler[r] = "reading" =>
          ENABLED <<ReadFails(r) \/ Submit(r) \/ SubmitFull(r)>>_allVars
    /\ handler[r] = "awaiting" =>
          IF future[r] = "pending" THEN ENABLED <<TimerFires(r)>>_allVars
                                   ELSE ENABLED <<Resume(r)>>_allVars

\* No request in flight is ever stuck: its handler is not waiting for a timer that
\* has fired in vain, and the loop that is to run it is neither inside the
\* synchronous shutdown nor closed under it.
NoClientStuck == \A r \in Requests : HandlerEnabled(r)

\* Every client that is not cut off by a forced exit gets a response, even from
\* an application whose worker has crashed.
EveryClientAnswered ==
    \A r \in Requests :
        handler[r] \in InFlight ~> handler[r] \in {"responded", "aborted"}

\* Readiness lost to a full queue, or not yet reached, comes back by itself: the
\* worker makes room unless it has died or the process is going down.
SaturationPasses ==
    Readiness = 503 ~> Readiness = 200 \/ Live = 500 \/ draining

\* Draining terminates and the engine is shut down, whatever is in flight.
DrainCompletes == draining ~> shut = "done" \/ ~loopOpen

-----------------------------------------------------------------------------
(* What the repository says and the code does not do.                      *)

\* REQUEST_COUNT is "Total HTTP requests" (metrics.py:8).
EveryResponseCounted ==
    requestCount = Cardinality({r \in Requests : handler[r] = "responded"})
=============================================================================
