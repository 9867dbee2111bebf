--------------------------- MODULE InferenceEngine ---------------------------
(***************************************************************************)
(* src/inference_engine.py: the class InferenceEngine.  Three actors share *)
(* its state:                                                              *)
(*                                                                         *)
(*   the event loop   runs the request handlers, which call EnqueueRequest *)
(*                    and await the future it returns with a timeout, and  *)
(*                    the callbacks other threads hand to it with          *)
(*                    call_soon_threadsafe, in the order they were handed  *)
(*                    over;                                                *)
(*   the worker       the daemon thread of batch_processing_loop: it takes *)
(*                    requests from the queue, forms a batch, runs the     *)
(*                    model and hands the outcomes to the event loop;      *)
(*   shutdown         InferenceEngine.shutdown, called by the lifespan of  *)
(*                    the application ON the event loop, which therefore   *)
(*                    runs nothing else until the call returns.            *)
(*                                                                         *)
(* Every await-free stretch of the event loop is one step; the worker's    *)
(* steps are cut at each access to what it shares with the other actors.   *)
(* Images, tensors and logits are reduced to the request they belong to.   *)
(***************************************************************************)
EXTENDS Integers, Sequences

CONSTANTS
    Requests,   \* the requests that callers may submit, each at most once
    Corrupt,    \* those whose image preprocess_inputs raises on
    BadDims,    \* those whose image validate_image refuses
    Capacity,   \* MAX_CONCURRENT_REQUESTS, the maxsize of inference_queue
    BatchMax,   \* MAX_BATCH_SIZE
    None        \* Python's None: the shutdown sentinel, and "no result"

ASSUME EngineAssumption ==
    /\ Corrupt \subseteq Requests
    /\ BadDims \subseteq Requests
    /\ None \notin Requests
    /\ Capacity \in Nat \ {0}
    /\ BatchMax \in Nat \ {0}

VARIABLES
    queue,           \* inference_queue: requests and at times the sentinel
    future,          \* the asyncio future of each request, as its status
    row,             \* the row of the model's output a future was resolved with
    callbacks,       \* what call_soon_threadsafe scheduled and the loop has not run
    loopOpen,        \* FALSE once the event loop is closed
    ready,           \* engine.ready
    modelReady,      \* the gauge MODEL_READY
    modelLoaded,     \* manager.model_loaded
    worker,          \* where the worker thread is
    batch,           \* batch (image_batch, loops and futures, zipped)
    cursor,          \* index of the for loop the worker is in
    tensors,         \* valid_tensors: whose image each one holds
    validPositions,  \* valid_positions
    shutdownEvent,   \* shutdown_event.is_set()
    shut,            \* where the call of shutdown is
    joinTimedOut,    \* shutdown went on although the worker was alive
    cleanupRaised    \* shutdown ended in an exception of _cleanup_backend

loopVars     == <<future, row, callbacks, loopOpen>>
flagVars     == <<ready, modelReady, modelLoaded>>
batchVars    == <<batch, cursor, tensors, validPositions>>
shutdownVars == <<shutdownEvent, shut, joinTimedOut, cleanupRaised>>
vars == <<queue, loopVars, flagVars, worker, batchVars, shutdownVars>>

-----------------------------------------------------------------------------
(* Domains.                                                                *)

\* How a resolved future ends: a result, safely_fail_future after a failed
\* preprocessing or a failed prediction, or the ValueError of bad dimensions.
Outcomes == {"answered", "unreadable", "failed", "invalid"}
FutureStatus == {"none", "rejected", "pending", "cancelled"} \cup Outcomes

Callback == [req : Requests, status : Outcomes, row : Requests \cup {None}]

WorkerStates == {"starting", "announcing", "polling", "waiting", "collecting",
                 "requeuing", "preprocessing", "predicting", "delivering", "failing",
                 "exited", "crashed"}
ShutdownStates == {"idle", "putting", "joining", "cleaning", "unloading",
                   "releasing", "done"}

TypeOK ==
    /\ queue \in Seq(Requests \cup {None})
    /\ Len(queue) <= Capacity
    /\ future \in [Requests -> FutureStatus]
    /\ row \in [Requests -> Requests \cup {None}]
    /\ callbacks \in Seq(Callback)
    /\ loopOpen \in BOOLEAN
    /\ ready \in BOOLEAN
    /\ modelReady \in BOOLEAN
    /\ modelLoaded \in BOOLEAN
    /\ worker \in WorkerStates
    /\ batch \in Seq(Requests)
    /\ Len(batch) <= BatchMax
    /\ cursor \in Nat \ {0}
    /\ tensors \in Seq(Requests)
    /\ validPositions \in Seq(Nat \ {0})
    /\ shutdownEvent \in BOOLEAN
    /\ shut \in ShutdownStates
    /\ joinTimedOut \in BOOLEAN
    /\ cleanupRaised \in BOOLEAN

-----------------------------------------------------------------------------
(* The initial state is the one __init__ leaves: the model is loaded, the  *)
(* queue is empty and the thread has been started but has not run yet.     *)

Init ==
    /\ queue = <<>>
    /\ future = [r \in Requests |-> "none"]
    /\ row = [r \in Requests |-> None]
    /\ callbacks = <<>>
    /\ loopOpen = TRUE
    /\ ready = FALSE
    /\ modelReady = FALSE
    /\ modelLoaded = TRUE
    /\ worker = "starting"
    /\ batch = <<>>
    /\ cursor = 1
    /\ tensors = <<>>
    /\ validPositions = <<>>
    /\ shutdownEvent = FALSE
    /\ shut = "idle"
    /\ joinTimedOut = FALSE
    /\ cleanupRaised = FALSE

\* Mutant: shutdown handed to an executor, so that the loop goes on meanwhile.
LoopFree_ShutdownElsewhere == loopOpen

\* The event loop can run a coroutine, a callback or a timer: it is open and
\* not inside the synchronous call of shutdown.
LoopFree == loopOpen /\ shut \in {"idle", "done"}

WorkerDead == worker \in {"exited", "crashed"}

-----------------------------------------------------------------------------
(* The event loop.                                                         *)

\* Mutant: a queue created without maxsize.
Accept_Unbounded(r) ==
    /\ LoopFree
    /\ future[r] = "none"
    /\ queue' = Append(queue, r)
    /\ future' = [future EXCEPT ![r] = "pending"]
    /\ UNCHANGED <<row, callbacks, loopOpen, flagVars, worker, batchVars,
                   shutdownVars>>

\* EnqueueRequest: put_nowait with a fresh future.  Nothing here looks at
\* shutdown_event or at the worker.
Accept(r) ==
    /\ LoopFree
    /\ future[r] = "none"
    /\ Len(queue) < Capacity
    /\ queue' = Append(queue, r)
    /\ future' = [future EXCEPT ![r] = "pending"]
    /\ UNCHANGED <<row, callbacks, loopOpen, flagVars, worker, batchVars,
                   shutdownVars>>

\* Mutant: the limit is compared with the size after the put.
Reject_OneEarly(r) ==
    /\ LoopFree
    /\ future[r] = "none"
    /\ Len(queue) + 1 >= Capacity
    /\ future' = [future EXCEPT ![r] = "rejected"]
    /\ UNCHANGED <<queue, row, callbacks, loopOpen, flagVars, worker,
                   batchVars, shutdownVars>>

\* EnqueueRequest: put_nowait raises queue.Full.
Reject(r) ==
    /\ LoopFree
    /\ future[r] = "none"
    /\ Len(queue) >= Capacity
    /\ future' = [future EXCEPT ![r] = "rejected"]
    /\ UNCHANGED <<queue, row, callbacks, loopOpen, flagVars, worker,
                   batchVars, shutdownVars>>

\* The caller's wait_for times out and cancels the future it awaits.
CallerTimeout(r) ==
    /\ LoopFree
    /\ future[r] = "pending"
    /\ future' = [future EXCEPT ![r] = "cancelled"]
    /\ UNCHANGED <<queue, row, callbacks, loopOpen, flagVars, worker,
                   batchVars, shutdownVars>>

\* The loop runs the oldest callback: safely_fail_future, safely_set_result or
\* future.set_exception.  On a future that is already done each of them raises
\* InvalidStateError, which the safely_ functions or the loop's exception
\* handler swallow.
RunCallback ==
    /\ LoopFree
    /\ callbacks # <<>>
    /\ callbacks' = Tail(callbacks)
    /\ LET cb == Head(callbacks)
       IN  IF future[cb.req] = "pending"
             THEN /\ future' = [future EXCEPT ![cb.req] = cb.status]
                  /\ row' = [row EXCEPT ![cb.req] = cb.row]
             ELSE UNCHANGED <<future, row>>
    /\ UNCHANGED <<queue, loopOpen, flagVars, worker, batchVars, shutdownVars>>

\* asyncio.run ends, after shutdown or, on a forced exit, without it: every task
\* is cancelled, and with it the future it awaits, and the loop is closed.
CloseLoop ==
    /\ LoopFree
    /\ loopOpen' = FALSE
    /\ future' = [r \in Requests |->
                    IF future[r] = "pending" THEN "cancelled" ELSE future[r]]
    /\ callbacks' = <<>>
    /\ UNCHANGED <<queue, row, flagVars, worker, batchVars, shutdownVars>>

-----------------------------------------------------------------------------
(* The worker.                                                             *)

\* loop.call_soon_threadsafe(...): raises RuntimeError once the loop is closed,
\* which every call site swallows.
Schedule(r, status, result) ==
    callbacks' = IF loopOpen
                   THEN Append(callbacks,
                               [req |-> r, status |-> status, row |-> result])
                   ELSE callbacks

\* The thread's first statement: self.ready = True ...
WStart ==
    /\ worker = "starting"
    /\ ready' = TRUE
    /\ worker' = "announcing"
    /\ UNCHANGED <<queue, loopVars, modelReady, modelLoaded, batchVars, shutdownVars>>

\* ... and its second, MODEL_READY.set(1), with no look at shutdown_event.
WAnnounce ==
    /\ worker = "announcing"
    /\ modelReady' = TRUE
    /\ worker' = "polling"
    /\ UNCHANGED <<queue, loopVars, ready, modelLoaded, batchVars, shutdownVars>>

\* Mutant: while True, the sentinel is the only way out.
WPoll_SentinelOnly ==
    /\ worker = "polling"
    /\ worker' = "waiting"
    /\ UNCHANGED <<queue, loopVars, flagVars, batchVars, shutdownVars>>

\* while not self.shutdown_event.is_set()
WPoll ==
    /\ worker = "polling"
    /\ worker' = IF shutdownEvent THEN "exited" ELSE "waiting"
    /\ UNCHANGED <<queue, loopVars, flagVars, batchVars, shutdownVars>>

\* Mutant: break on queue.Empty, as the inner loop does.
WGetTimeout_Break ==
    /\ worker = "waiting"
    /\ queue = <<>>
    /\ worker' = "exited"
    /\ UNCHANGED <<queue, loopVars, flagVars, batchVars, shutdownVars>>

\* get(block=True, timeout=1.0) finds nothing: queue.Empty, continue.
WGetTimeout ==
    /\ worker = "waiting"
    /\ queue = <<>>
    /\ worker' = "polling"
    /\ UNCHANGED <<queue, loopVars, flagVars, batchVars, shutdownVars>>

\* The first item is the sentinel: break.
WGetSentinel ==
    /\ worker = "waiting"
    /\ queue # <<>>
    /\ Head(queue) = None
    /\ queue' = Tail(queue)
    /\ worker' = "exited"
    /\ UNCHANGED <<loopVars, flagVars, batchVars, shutdownVars>>

\* The head of the queue is a request whose dimensions are refused: its future
\* is failed and the worker goes on where it was in the loop.
Refuse(next) ==
    /\ queue # <<>>
    /\ Head(queue) \in BadDims
    /\ queue' = Tail(queue)
    /\ Schedule(Head(queue), "invalid", None)
    /\ worker' = next
    /\ UNCHANGED <<future, row, loopOpen, flagVars, batchVars, shutdownVars>>

\* The head of the queue joins the batch.
Take ==
    /\ queue # <<>>
    /\ Head(queue) \in Requests \ BadDims
    /\ queue' = Tail(queue)
    /\ batch' = Append(batch, Head(queue))
    /\ worker' = "collecting"
    /\ UNCHANGED <<loopVars, flagVars, cursor, tensors, validPositions,
                   shutdownVars>>

WRefuseFirst == worker = "waiting" /\ Refuse("polling")
WTakeFirst   == worker = "waiting" /\ Take

\* The collecting loop, while len(batch) < MAX_BATCH_SIZE.
WRefuseNext ==
    /\ worker = "collecting"
    /\ Len(batch) < BatchMax
    /\ Refuse("collecting")

WTakeNext ==
    /\ worker = "collecting"
    /\ Len(batch) < BatchMax
    /\ Take

\* The sentinel turns up while a batch is being collected ...
WMeetSentinel ==
    /\ worker = "collecting"
    /\ Len(batch) < BatchMax
    /\ queue # <<>>
    /\ Head(queue) = None
    /\ queue' = Tail(queue)
    /\ worker' = "requeuing"
    /\ UNCHANGED <<loopVars, flagVars, batchVars, shutdownVars>>

\* ... and inference_queue.put(None), with no timeout, puts it back: the only
\* consumer of the queue blocks while the queue is full.
WRequeue ==
    /\ worker = "requeuing"
    /\ Len(queue) < Capacity
    /\ queue' = Append(queue, None)
    /\ worker' = "preprocessing"
    /\ UNCHANGED <<loopVars, flagVars, batchVars, shutdownVars>>

\* The batch is full, or BATCHING_TIMEOUT_MS has passed since the worker began
\* to wait for its FIRST item: with the window gone it does not even look.
WDispatch ==
    /\ worker = "collecting"
    /\ worker' = "preprocessing"
    /\ UNCHANGED <<queue, loopVars, flagVars, batchVars, shutdownVars>>

\* perform_inference, first loop: preprocess_inputs of the item at the cursor.
\* It raises on an image it cannot process, without the image processor, and on
\* a model that is not loaded.
CanPreprocess(r) == modelLoaded /\ shut # "unloading" /\ r \notin Corrupt

WPreprocess ==
    /\ worker = "preprocessing"
    /\ cursor <= Len(batch)
    /\ CanPreprocess(batch[cursor])
    /\ tensors' = Append(tensors, batch[cursor])
    /\ validPositions' = Append(validPositions, cursor)
    /\ cursor' = cursor + 1
    /\ UNCHANGED <<queue, loopVars, flagVars, worker, batch, shutdownVars>>

\* Mutant: the failure goes to futures[-1].
WPreprocessFails_Last ==
    /\ worker = "preprocessing"
    /\ cursor <= Len(batch)
    /\ ~CanPreprocess(batch[cursor])
    /\ Schedule(batch[Len(batch)], "unreadable", None)
    /\ cursor' = cursor + 1
    /\ UNCHANGED <<queue, future, row, loopOpen, flagVars, worker, batch,
                   tensors, validPositions, shutdownVars>>

\* Mutant: an item that fails is tried again.
WPreprocessFails_Retried ==
    /\ worker = "preprocessing"
    /\ cursor <= Len(batch)
    /\ ~CanPreprocess(batch[cursor])
    /\ Schedule(batch[cursor], "unreadable", None)
    /\ UNCHANGED <<queue, future, row, loopOpen, flagVars, worker, batchVars,
                   shutdownVars>>

WPreprocessFails ==
    /\ worker = "preprocessing"
    /\ cursor <= Len(batch)
    /\ ~CanPreprocess(batch[cursor])
    /\ Schedule(batch[cursor], "unreadable", None)
    /\ cursor' = cursor + 1
    /\ UNCHANGED <<queue, future, row, loopOpen, flagVars, worker, batch,
                   tensors, validPositions, shutdownVars>>

ForgetBatch ==
    /\ batch' = <<>>
    /\ cursor' = 1
    /\ tensors' = <<>>
    /\ validPositions' = <<>>

\* if not valid_tensors: assert all(f.done() for f in futures).  The futures are
\* read on the worker's thread, whatever the event loop has run so far; a failed
\* assertion ends the thread.
BatchDone == \A i \in 1..Len(batch) : future[batch[i]] # "pending"

WNothingValid ==
    /\ worker = "preprocessing"
    /\ cursor > Len(batch)
    /\ validPositions = <<>>
    /\ worker' = IF BatchDone THEN "polling" ELSE "crashed"
    /\ ForgetBatch
    /\ UNCHANGED <<queue, loopVars, flagVars, shutdownVars>>

WPreprocessed ==
    /\ worker = "preprocessing"
    /\ cursor > Len(batch)
    /\ validPositions # <<>>
    /\ worker' = "predicting"
    /\ cursor' = 1
    /\ UNCHANGED <<queue, loopVars, flagVars, batch, tensors, validPositions,
                   shutdownVars>>

\* Mutant: predict does not look at model_loaded.
WPredict_Unchecked ==
    /\ worker = "predicting"
    /\ worker' = "delivering"
    /\ UNCHANGED <<queue, loopVars, flagVars, batchVars, shutdownVars>>

\* torch.cat, predict and top_k_from_logits: row k of the output is the one of
\* tensor k.  All three may raise, and do when the model is not loaded.
WPredict ==
    /\ worker = "predicting"
    /\ modelLoaded
    /\ worker' = "delivering"
    /\ UNCHANGED <<queue, loopVars, flagVars, batchVars, shutdownVars>>

WPredictFails ==
    /\ worker = "predicting"
    /\ worker' = "failing"
    /\ UNCHANGED <<queue, loopVars, flagVars, batchVars, shutdownVars>>

\* Mutant: output[local_i] goes to futures[local_i].
WDeliver_LocalIndex ==
    /\ worker = "delivering"
    /\ cursor <= Len(validPositions)
    /\ Schedule(batch[cursor], "answered", tensors[cursor])
    /\ cursor' = cursor + 1
    /\ UNCHANGED <<queue, future, row, loopOpen, flagVars, worker, batch,
                   tensors, validPositions, shutdownVars>>

\* for local_i, pos in enumerate(valid_positions): output[local_i] goes to
\* futures[pos].
WDeliver ==
    /\ worker = "delivering"
    /\ cursor <= Len(validPositions)
    /\ Schedule(batch[validPositions[cursor]], "answered", tensors[cursor])
    /\ cursor' = cursor + 1
    /\ UNCHANGED <<queue, future, row, loopOpen, flagVars, worker, batch,
                   tensors, validPositions, shutdownVars>>

\* Mutant: the exception goes to futures[0 .. len(valid_positions) - 1].
WFail_LocalIndex ==
    /\ worker = "failing"
    /\ cursor <= Len(validPositions)
    /\ Schedule(batch[cursor], "failed", None)
    /\ cursor' = cursor + 1
    /\ UNCHANGED <<queue, future, row, loopOpen, flagVars, worker, batch,
                   tensors, validPositions, shutdownVars>>

\* for pos in valid_positions: the exception goes to futures[pos].
WFail ==
    /\ worker = "failing"
    /\ cursor <= Len(validPositions)
    /\ Schedule(batch[validPositions[cursor]], "failed", None)
    /\ cursor' = cursor + 1
    /\ UNCHANGED <<queue, future, row, loopOpen, flagVars, worker, batch,
                   tensors, validPositions, shutdownVars>>

\* perform_inference returns: back to the head of the outer loop.
WBatchEnd ==
    /\ worker \in {"delivering", "failing"}
    /\ cursor > Len(validPositions)
    /\ worker' = "polling"
    /\ ForgetBatch
    /\ UNCHANGED <<queue, loopVars, flagVars, shutdownVars>>

Worker ==
    \/ WStart
    \/ WAnnounce
    \/ WPoll
    \/ WGetTimeout
    \/ WGetSentinel
    \/ WRefuseFirst
    \/ WTakeFirst
    \/ WRefuseNext
    \/ WTakeNext
    \/ WMeetSentinel
    \/ WRequeue
    \/ WDispatch
    \/ WPreprocess
    \/ WPreprocessFails
    \/ WNothingValid
    \/ WPreprocessed
    \/ WPredict
    \/ WPredictFails
    \/ WDeliver
    \/ WFail
    \/ WBatchEnd

-----------------------------------------------------------------------------
(* shutdown, on the event loop's thread.                                   *)

ShutdownBegin ==
    /\ loopOpen
    /\ shut = "idle"
    /\ shutdownEvent' = TRUE
    /\ shut' = "putting"
    /\ UNCHANGED <<queue, loopVars, flagVars, worker, batchVars, joinTimedOut,
                   cleanupRaised>>

\* inference_queue.put(None, timeout=2.0)
ShutdownPut ==
    /\ shut = "putting"
    /\ Len(queue) < Capacity
    /\ queue' = Append(queue, None)
    /\ shut' = "joining"
    /\ UNCHANGED <<loopVars, flagVars, worker, batchVars, shutdownEvent,
                   joinTimedOut, cleanupRaised>>

\* Mutant: the sentinel is put without a timeout.
ShutdownPutTimeout_Never == FALSE /\ UNCHANGED vars

\* queue.Full after two seconds: the worker has to notice shutdown_event.
ShutdownPutTimeout ==
    /\ shut = "putting"
    /\ Len(queue) >= Capacity
    /\ shut' = "joining"
    /\ UNCHANGED <<queue, loopVars, flagVars, worker, batchVars, shutdownEvent,
                   joinTimedOut, cleanupRaised>>

\* Mutant: the thread is not joined.
ShutdownJoin_Skipped ==
    /\ shut = "joining"
    /\ shut' = "cleaning"
    /\ UNCHANGED <<queue, loopVars, flagVars, worker, batchVars, shutdownEvent,
                   joinTimedOut, cleanupRaised>>

\* inference_thread.join(timeout=5.0) and the check of is_alive()
ShutdownJoin ==
    /\ shut = "joining"
    /\ WorkerDead
    /\ shut' = "cleaning"
    /\ UNCHANGED <<queue, loopVars, flagVars, worker, batchVars, shutdownEvent,
                   joinTimedOut, cleanupRaised>>

ShutdownJoinTimeout ==
    /\ shut = "joining"
    /\ ~WorkerDead
    /\ joinTimedOut' = TRUE
    /\ shut' = "cleaning"
    /\ UNCHANGED <<queue, loopVars, flagVars, worker, batchVars, shutdownEvent,
                   cleanupRaised>>

\* manager.cleanup_model(), whatever the join returned: first image_processor is
\* gone, while model_loaded still says that predict may go ahead ...
ShutdownUnload ==
    /\ shut = "cleaning"
    /\ shut' = "unloading"
    /\ UNCHANGED <<queue, loopVars, flagVars, worker, batchVars, shutdownEvent,
                   joinTimedOut, cleanupRaised>>

\* ... then model_loaded is reset ...
ShutdownCleanup ==
    /\ shut = "unloading"
    /\ modelLoaded' = FALSE
    /\ shut' = "releasing"
    /\ UNCHANGED <<queue, loopVars, ready, modelReady, worker, batchVars,
                   shutdownEvent, joinTimedOut, cleanupRaised>>

\* ... _cleanup_backend frees what the device holds, and MODEL_READY.set(0) is the
\* last thing shutdown does ...
ShutdownRelease ==
    /\ shut = "releasing"
    /\ modelReady' = FALSE
    /\ shut' = "done"
    /\ UNCHANGED <<queue, loopVars, ready, modelLoaded, worker, batchVars,
                   shutdownEvent, joinTimedOut, cleanupRaised>>

\* ... unless _cleanup_backend raises, as torch.cuda.synchronize does with the
\* error of an earlier kernel: the exception leaves shutdown, and the gauge as it is.
ShutdownRaises ==
    /\ shut = "releasing"
    /\ cleanupRaised' = TRUE
    /\ shut' = "done"
    /\ UNCHANGED <<queue, loopVars, flagVars, worker, batchVars, shutdownEvent,
                   joinTimedOut>>

\* The teardown, once the join has returned: no statement of it waits.
Teardown == ShutdownUnload \/ ShutdownCleanup \/ ShutdownRelease \/ ShutdownRaises

Shutdown ==
    \/ ShutdownBegin
    \/ ShutdownPut
    \/ ShutdownPutTimeout
    \/ ShutdownJoin
    \/ ShutdownJoinTimeout
    \/ Teardown

-----------------------------------------------------------------------------

\* Nothing is left to run: the loop is closed and the worker has ended, or it
\* is blocked in put(None) after a join that timed out, and dies with the process.
Terminated ==
    /\ ~loopOpen
    /\ \/ WorkerDead
       \/ worker = "requeuing" /\ joinTimedOut /\ Len(queue) >= Capacity
    /\ UNCHANGED vars

Next ==
    \/ \E r \in Requests : Accept(r) \/ Reject(r) \/ CallerTimeout(r)
    \/ RunCallback
    \/ CloseLoop
    \/ Worker
    \/ Shutdown
    \/ Terminated

Spec == Init /\ [][Next]_vars

(* Fairness.  The worker is a thread that runs while it can; the event loop *)
(* runs the callbacks it has been handed; the blocking calls of shutdown    *)
(* return, but nothing forces a wait to end by its timeout while what it    *)
(* waits for can still happen.                                              *)
FairSpec ==
    /\ Spec
    /\ WF_vars(Worker)
    /\ WF_vars(RunCallback)
    /\ WF_vars(ShutdownPut \/ ShutdownPutTimeout)
    /\ WF_vars(ShutdownJoin)
    /\ WF_vars(Teardown)

-----------------------------------------------------------------------------
(* Where a request is on its way from EnqueueRequest to its future.        *)

\* The positions of the batch whose future nobody has been told about yet.
Undelivered ==
    CASE worker \in {"collecting", "requeuing"} -> 1..Len(batch)
      [] worker = "preprocessing" ->
            cursor..Len(batch) \cup
                {validPositions[k] : k \in 1..Len(validPositions)}
      [] worker = "predicting" ->
            {validPositions[k] : k \in 1..Len(validPositions)}
      [] worker \in {"delivering", "failing"} ->
            {validPositions[k] : k \in cursor..Len(validPositions)}
      [] OTHER -> {}

\* All places that will still lead to the future of r being resolved.
Custodians(r) ==
    {<<"queue", i>> : i \in {j \in 1..Len(queue) : queue[j] = r}} \cup
    {<<"batch", i>> : i \in {j \in Undelivered : batch[j] = r}} \cup
    {<<"loop", i>> : i \in {j \in 1..Len(callbacks) : callbacks[j].req = r}}

-----------------------------------------------------------------------------
(* Safety.                                                                 *)

\* No request is lost and none is answered twice, through batching, requeuing,
\* partial failures, the worker's crash and shutdown: a pending future is in the
\* care of exactly one place, and any other request of at most one (a cancelled
\* one is still processed, a resolved one is nowhere).
Custody ==
    \A r \in Requests :
        /\ \A c, d \in Custodians(r) : c = d
        /\ future[r] = "pending" => Custodians(r) # {}
        /\ future[r] \in Outcomes => Custodians(r) = {}

\* valid_positions aligns rows with futures even when items of the batch fell
\* out: a future only ever gets the row computed from its own image, and only
\* for an image that was acceptable.
OwnResult ==
    \A r \in Requests :
        future[r] = "answered" => row[r] = r /\ r \notin Corrupt \cup BadDims

\* "Isolated batch failures": preprocessing errors and refused dimensions reach
\* the request that caused them and no neighbour of its batch, except when a
\* leaked worker finds the model already gone.
IsolatedFailures ==
    \A r \in Requests :
        /\ future[r] = "unreadable" => r \in Corrupt \/ joinTimedOut
        /\ future[r] = "invalid" => r \in BadDims

\* The worker's put(None) without a timeout never blocks the only consumer of
\* the queue as long as shutdown holds the event loop: the slot the sentinel
\* left is still free.
RequeueNeverBlocks ==
    worker = "requeuing" /\ shut # "done" => Len(queue) < Capacity

\* The model is only torn down under a live worker when the join timed out
\* ("Exiting with potential leaks"), and a gauge that says the model is ready after
\* shutdown is an exception's doing, or that of a thread which got to its first
\* statements after shutdown had given it up and which serves nobody: it is about
\* to look at shutdown_event for the first time, or has ended.
CleanShutdown ==
    /\ ~modelLoaded \/ shut = "unloading" => WorkerDead \/ joinTimedOut
    /\ shut = "done" /\ modelReady =>
          cleanupRaised \/ (joinTimedOut /\ worker \in {"polling", "exited"})

-----------------------------------------------------------------------------
(* Liveness.                                                               *)

\* What the fair actions wait for is not withheld for ever: shutdown can move
\* unless it is waiting for a live worker, and the worker can unless it has ended
\* or, after a shutdown that gave up on it, is blocked in put(None).
ShutdownEnabled ==
    /\ shut = "putting" => ENABLED <<ShutdownPut \/ ShutdownPutTimeout>>_vars
    /\ shut = "joining" /\ WorkerDead => ENABLED <<ShutdownJoin>>_vars
    /\ shut \in {"cleaning", "unloading", "releasing"} => ENABLED <<Teardown>>_vars

NoThreadStuck ==
    /\ ShutdownEnabled
    /\ WorkerDead \/ (worker = "requeuing" /\ shut = "done") \/ ENABLED <<Worker>>_vars

\* How far the worker is from its next access to the queue or, once shutdown was
\* requested, from its end: steps at most, of which requeuing adds to the queue.
StepsLeft ==
    CASE WorkerDead -> 0
      [] worker = "polling" -> 1
      [] worker = "announcing" -> 2
      [] worker = "starting" -> 3
      [] worker \in {"delivering", "failing"} -> Len(validPositions) + 4 - cursor
      [] worker = "predicting" -> Len(validPositions) + 4
      [] worker = "preprocessing" -> 2 * Len(batch) + 6 - cursor
      [] worker = "requeuing" -> 2 * Len(batch) + 6
      [] worker = "collecting" -> 3 * BatchMax + 7 - Len(batch)
      [] worker = "waiting" -> IF shutdownEvent THEN 3 * BatchMax + 7 ELSE 0

Distance == 2 * StepsLeft + Len(queue)

\* get gives up on an empty queue; get finds an item.
EmptyWait == worker = "waiting" /\ queue = <<>>
ItemTaken == queue # <<>> /\ queue' = Tail(queue)

\* shutdown has put the sentinel, or given that up, and still holds the event loop.
LoopHeld == shut \in {"joining", "cleaning", "unloading", "releasing"}

\* The worker never goes back within a batch, whichever of its items fail: until
\* shutdown is requested each of its steps takes it nearer to the next item of the
\* queue, takes that item, or ends a wait that found the queue empty; afterwards
\* each takes it nearer to its end, a bounded number of steps away, which the
\* requests that shutdown leaves in the queue cannot put off.
WorkerGetsOn ==
    [][ /\ Distance \in 0..(6 * BatchMax + 14 + Capacity)
        /\ Worker =>
              \/ Distance' < Distance
              \/ ~shutdownEvent /\ (EmptyWait \/ ItemTaken)
        /\ LoopHeld => Distance' <= Distance ]_vars

\* Without any timeout firing, the worker and the loop resolve every accepted
\* request, unless the worker has crashed, shutdown was requested or the loop
\* was closed.
Served ==
    \A r \in Requests :
        future[r] = "pending" ~>
            \/ future[r] # "pending"
            \/ worker = "crashed" \/ shutdownEvent \/ ~loopOpen

\* A requested shutdown reaches the worker wherever it is, waiting, collecting
\* or inside the model, queue full or not: without the join having to time out,
\* the thread ends.
WorkerStops == shutdownEvent ~> WorkerDead \/ joinTimedOut

\* shutdown returns.
ShutdownReturns == shutdownEvent ~> shut = "done"

-----------------------------------------------------------------------------
(* What the repository says and the code does not do.                      *)

\* The assertion of inference_engine.py:116 holds whenever it is reached.
AssertionHolds == worker # "crashed"

\* "Keep draining the queue until shutdown is requested and the queue is empty"
\* (inference_engine.py:145): a worker that ended by itself leaves no request.
DrainedOnExit ==
    worker = "exited" => \A i \in 1..Len(queue) : queue[i] \notin Requests
=============================================================================
