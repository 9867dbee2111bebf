------------------------ MODULE InferenceEngineProofs ------------------------
(***************************************************************************)
(* Proofs about InferenceEngine, for any set of requests, any capacity and *)
(* any batch size: safety, the worker's progress and the return of         *)
(* shutdown.                                                               *)
(***************************************************************************)
EXTENDS InferenceEngine, SequenceTheorems, TLAPS

-----------------------------------------------------------------------------
(* The inductive invariant.                                                *)

Between == {"starting", "announcing", "polling", "waiting", "exited", "crashed"}

\* Outside perform_inference and the collecting loop there is no batch, and
\* while one is collected nothing has been preprocessed.
BatchPhase ==
    /\ worker \in Between => batch = <<>>
    /\ worker \in Between \cup {"collecting", "requeuing"} =>
          cursor = 1 /\ tensors = <<>> /\ validPositions = <<>>

\* Nothing of refused dimensions is in a batch; tensor k is the preprocessed
\* image of the item at valid position k.
BatchShape ==
    /\ \A i \in 1..Len(batch) : batch[i] \notin BadDims
    /\ Len(tensors) = Len(validPositions)
    /\ \A k \in 1..Len(validPositions) :
          /\ validPositions[k] \in 1..Len(batch)
          /\ tensors[k] = batch[validPositions[k]]
          /\ tensors[k] \notin Corrupt

\* An outcome on its way to the future of r, or already there, is one r can have.
Proper(r, status, result) ==
    /\ status = "answered" => result = r /\ r \notin Corrupt \cup BadDims
    /\ status = "failed" => r \notin Corrupt \cup BadDims
    /\ status = "unreadable" => r \notin BadDims /\ (r \in Corrupt \/ joinTimedOut)
    /\ status = "invalid" => r \in BadDims

OutcomesProper ==
    /\ \A i \in 1..Len(callbacks) :
          Proper(callbacks[i].req, callbacks[i].status, callbacks[i].row)
    /\ \A r \in Requests : Proper(r, future[r], row[r])

\* Until shutdown has put the sentinel there is none; as long as shutdown holds
\* the event loop afterwards, nobody fills the slot the sentinel left.
SentinelPhase ==
    /\ shut \in {"idle", "putting"} =>
          /\ worker # "requeuing"
          /\ \A i \in 1..Len(queue) : queue[i] # None
    /\ LoopHeld /\ worker = "requeuing" => Len(queue) < Capacity

\* The event is set as long as shutdown has been called, and the model is
\* unloaded after the join; a gauge that is 1 when shutdown has come to its end is
\* an exception's doing or that of a thread that shutdown has given up.
TeardownPhase ==
    /\ shutdownEvent <=> shut # "idle"
    /\ joinTimedOut => shutdownEvent
    /\ modelLoaded <=> shut \notin {"releasing", "done"}
    /\ shut \in {"cleaning", "unloading", "releasing", "done"} =>
          WorkerDead \/ joinTimedOut
    /\ shut = "done" /\ modelReady =>
          cleanupRaised \/ (joinTimedOut /\ worker \in {"polling", "exited"})

IInv ==
    /\ TypeOK
    /\ BatchPhase
    /\ BatchShape
    /\ OutcomesProper
    /\ SentinelPhase
    /\ TeardownPhase

-----------------------------------------------------------------------------
(* Sequences.                                                              *)

\* The element a sequence starts with, and what is left without it.
LEMMA HeadTail ==
    ASSUME NEW S, NEW s \in Seq(S), s # <<>>
    PROVE  /\ Head(s) \in S
           /\ Head(s) = s[1]
           /\ 1 \in 1..Len(s)
           /\ Tail(s) \in Seq(S)
           /\ Len(Tail(s)) = Len(s) - 1
           /\ \A i \in 1..Len(Tail(s)) : i + 1 \in 1..Len(s) /\ Tail(s)[i] = s[i + 1]
    BY HeadTailProperties, EmptySeq, LenProperties

\* A sequence with one more element at its end.
LEMMA Appended ==
    ASSUME NEW S, NEW s \in Seq(S), NEW e \in S
    PROVE  /\ Append(s, e) \in Seq(S)
           /\ Len(Append(s, e)) = Len(s) + 1
           /\ \A i \in 1..Len(s) : Append(s, e)[i] = s[i]
           /\ Append(s, e)[Len(s) + 1] = e
    BY AppendProperties

-----------------------------------------------------------------------------
(* Type correctness.                                                       *)

\* What call_soon_threadsafe does to the callbacks.
LEMMA ScheduleType ==
    ASSUME TypeOK, NEW r \in Requests, NEW status \in Outcomes,
           NEW result \in Requests \cup {None}, Schedule(r, status, result)
    PROVE  callbacks' \in Seq(Callback)
    <1>1. [req |-> r, status |-> status, row |-> result] \in Callback
          BY DEF Callback
    <1>2. callbacks \in Seq(Callback)
          BY DEF TypeOK
    <1>3. QED
          BY <1>1, <1>2, Appended DEF Schedule

\* Type correctness of what request handlers do.
LEMMA EnqueueType ==
    ASSUME IInv, NEW r \in Requests, Accept(r) \/ Reject(r) \/ CallerTimeout(r)
    PROVE  TypeOK'
    <1>1. CASE Accept(r)
          <2>1. queue' \in Seq(Requests \cup {None}) /\ Len(queue') <= Capacity
                BY <1>1, Appended, EngineAssumption DEF Accept, IInv, TypeOK
          <2>2. QED
                BY <1>1, <2>1 DEF Accept, IInv, TypeOK, FutureStatus, flagVars,
                                  batchVars, shutdownVars
    <1>2. CASE Reject(r) \/ CallerTimeout(r)
          BY <1>2 DEF Reject, CallerTimeout, IInv, TypeOK, FutureStatus, flagVars,
                      batchVars, shutdownVars
    <1>3. QED
          BY <1>1, <1>2

\* Type correctness of what the event loop does by itself.
LEMMA LoopType ==
    ASSUME IInv, RunCallback \/ CloseLoop
    PROVE  TypeOK'
    <1>1. CASE RunCallback
          <2>1. Head(callbacks) \in Callback /\ Tail(callbacks) \in Seq(Callback)
                BY <1>1, HeadTail DEF RunCallback, IInv, TypeOK
          <2>2. QED
                BY <1>1, <2>1 DEF RunCallback, Callback, IInv, TypeOK, FutureStatus,
                                  flagVars, batchVars, shutdownVars
    <1>2. CASE CloseLoop
          <2>1. callbacks' \in Seq(Callback)
                BY <1>2, EmptySeq DEF CloseLoop
          <2>2. QED
                BY <1>2, <2>1 DEF CloseLoop, IInv, TypeOK, FutureStatus, flagVars,
                                  batchVars, shutdownVars
    <1>3. QED
          BY <1>1, <1>2

\* Type correctness of shutdown.
LEMMA ShutdownType ==
    ASSUME IInv, Shutdown
    PROVE  TypeOK'
    <1>1. CASE ShutdownPut
          <2>1. queue' \in Seq(Requests \cup {None}) /\ Len(queue') <= Capacity
                BY <1>1, Appended, EngineAssumption DEF ShutdownPut, IInv, TypeOK
          <2>2. QED
                BY <1>1, <2>1 DEF ShutdownPut, IInv, TypeOK, ShutdownStates, loopVars,
                                  flagVars, batchVars
    <1>2. CASE ~ShutdownPut
          BY <1>2 DEF Shutdown, ShutdownBegin, ShutdownPutTimeout, ShutdownJoin,
                      ShutdownJoinTimeout, Teardown, ShutdownUnload, ShutdownCleanup,
                      ShutdownRelease, ShutdownRaises, IInv, TypeOK, ShutdownStates,
                      loopVars, flagVars, batchVars
    <1>3. QED
          BY <1>1, <1>2

\* What the worker takes from the queue leaves a queue.
LEMMA DequeueType ==
    ASSUME TypeOK, queue # <<>>
    PROVE  /\ Tail(queue) \in Seq(Requests \cup {None})
           /\ Len(Tail(queue)) = Len(queue) - 1
           /\ Len(Tail(queue)) < Capacity
           /\ Len(Tail(queue)) <= Capacity
           /\ Head(queue) \in Requests \cup {None}
    <1>1. queue \in Seq(Requests \cup {None}) /\ Len(queue) <= Capacity
          BY DEF TypeOK
    <1>2. Len(queue) \in Nat /\ Capacity \in Nat
          BY <1>1, LenProperties, EngineAssumption
    <1>3. QED
          BY <1>1, <1>2, HeadTail

\* Type correctness of the worker up to a complete batch.
LEMMA TakingType ==
    ASSUME IInv,
           WGetSentinel \/ WRefuseFirst \/ WTakeFirst \/ WRefuseNext \/ WTakeNext
           \/ WMeetSentinel \/ WRequeue
    PROVE  TypeOK'
    <1> USE DEF IInv
    <1>1. CASE WGetSentinel \/ WMeetSentinel
          BY <1>1, DequeueType DEF WGetSentinel, WMeetSentinel, TypeOK,
             WorkerStates, loopVars, flagVars, batchVars, shutdownVars
    <1>2. CASE WRefuseFirst \/ WRefuseNext
          <2>1. PICK next \in {"polling", "collecting"} : Refuse(next)
                BY <1>2 DEF WRefuseFirst, WRefuseNext
          <2>2. Head(queue) \in Requests
                BY <2>1, EngineAssumption DEF Refuse
          <2>3. callbacks' \in Seq(Callback)
                BY <2>1, <2>2, ScheduleType DEF Refuse, Outcomes
          <2>4. QED
                BY <2>1, <2>3, DequeueType DEF Refuse, TypeOK, WorkerStates,
                   flagVars, batchVars, shutdownVars
    <1>3. CASE WTakeFirst \/ WTakeNext
          <2>1. Take /\ Len(batch) < BatchMax
                BY <1>3, EmptySeq, EngineAssumption
                DEF WTakeFirst, WTakeNext, BatchPhase, Between
          <2>2. batch' \in Seq(Requests) /\ Len(batch') <= BatchMax
                BY <2>1, Appended, LenProperties, EngineAssumption DEF Take, TypeOK
          <2>3. QED
                BY <2>1, <2>2, DequeueType DEF Take, TypeOK, WorkerStates, loopVars,
                   flagVars, shutdownVars
    <1>4. CASE WRequeue
          <2>1. queue' \in Seq(Requests \cup {None}) /\ Len(queue') <= Capacity
                BY <1>4, Appended, EngineAssumption DEF WRequeue, TypeOK
          <2>2. QED
                BY <1>4, <2>1 DEF WRequeue, TypeOK, WorkerStates, loopVars, flagVars,
                   batchVars, shutdownVars
    <1>5. QED
          BY <1>1, <1>2, <1>3, <1>4

\* Type correctness of perform_inference.
LEMMA InferringType ==
    ASSUME IInv,
           WPreprocess \/ WPreprocessFails \/ WNothingValid \/ WPreprocessed
           \/ WDeliver \/ WFail \/ WBatchEnd
    PROVE  TypeOK'
    <1> USE DEF IInv
    <1>1. CASE WPreprocess
          <2>1. batch[cursor] \in Requests
                BY <1>1, ElementOfSeq, LenProperties DEF WPreprocess, TypeOK
          <2>2. tensors' \in Seq(Requests) /\ validPositions' \in Seq(Nat \ {0})
                BY <1>1, <2>1, Appended DEF WPreprocess, TypeOK
          <2>3. QED
                BY <1>1, <2>2 DEF WPreprocess, TypeOK, loopVars, flagVars, shutdownVars
    <1>2. CASE WPreprocessFails
          <2>1. batch[cursor] \in Requests
                BY <1>2, ElementOfSeq, LenProperties DEF WPreprocessFails, TypeOK
          <2>2. callbacks' \in Seq(Callback)
                BY <1>2, <2>1, ScheduleType DEF WPreprocessFails, Outcomes
          <2>3. QED
                BY <1>2, <2>2 DEF WPreprocessFails, TypeOK, flagVars, shutdownVars
    <1>3. CASE WNothingValid \/ WBatchEnd
          <2>1. <<>> \in Seq(Requests) /\ <<>> \in Seq(Nat \ {0}) /\ Len(<<>>) = 0
                BY EmptySeq
          <2>2. worker' \in {"polling", "crashed"}
                BY <1>3 DEF WNothingValid, WBatchEnd
          <2>3. ForgetBatch /\ UNCHANGED <<queue, loopVars, flagVars, shutdownVars>>
                BY <1>3 DEF WNothingValid, WBatchEnd
          <2>4. QED
                BY <2>1, <2>2, <2>3, EngineAssumption DEF ForgetBatch, TypeOK,
                   WorkerStates, loopVars, flagVars, shutdownVars
    <1>4. CASE WPreprocessed
          BY <1>4 DEF WPreprocessed, TypeOK, WorkerStates, loopVars, flagVars,
             shutdownVars
    <1>5. CASE WDeliver \/ WFail
          <2>1. cursor \in 1..Len(validPositions)
                BY <1>5, LenProperties DEF WDeliver, WFail, TypeOK
          <2>2. batch[validPositions[cursor]] \in Requests
                BY <2>1, ElementOfSeq DEF BatchShape, TypeOK
          <2>3. tensors[cursor] \in Requests
                BY <2>1, ElementOfSeq DEF BatchShape, TypeOK
          <2>4. callbacks' \in Seq(Callback)
                BY <1>5, <2>2, <2>3, ScheduleType DEF WDeliver, WFail, Outcomes
          <2>5. QED
                BY <1>5, <2>4 DEF WDeliver, WFail, TypeOK, flagVars, shutdownVars
    <1>6. QED
          BY <1>1, <1>2, <1>3, <1>4, <1>5

\* Every step preserves type correctness.
LEMMA TypeStep == IInv /\ [Next]_vars => TypeOK'
    <1> SUFFICES ASSUME IInv, [Next]_vars
                 PROVE  TypeOK'
        OBVIOUS
    <1>1. CASE \E r \in Requests : Accept(r) \/ Reject(r) \/ CallerTimeout(r)
          BY <1>1, EnqueueType
    <1>2. CASE RunCallback \/ CloseLoop
          BY <1>2, LoopType
    <1>3. CASE WStart \/ WAnnounce \/ WPoll \/ WGetTimeout \/ WDispatch \/ WPredict
               \/ WPredictFails
          BY <1>3 DEF WStart, WAnnounce, WPoll, WGetTimeout, WDispatch, WPredict,
             WPredictFails, IInv, TypeOK, WorkerStates, loopVars, flagVars, batchVars,
             shutdownVars
    <1>4. CASE Worker
          BY <1>3, <1>4, TakingType, InferringType DEF Worker
    <1>5. CASE Shutdown
          BY <1>5, ShutdownType
    <1>6. CASE UNCHANGED vars
          BY <1>6 DEF IInv, TypeOK, vars, loopVars, flagVars, batchVars, shutdownVars
    <1>7. QED
          BY <1>1, <1>2, <1>4, <1>5, <1>6 DEF Next, Terminated

-----------------------------------------------------------------------------
(* The phases of the worker and of shutdown.                               *)

\* Every step preserves BatchPhase.
LEMMA BatchPhaseStep == IInv /\ [Next]_vars => BatchPhase'
    <1> SUFFICES ASSUME IInv, [Next]_vars
                 PROVE  BatchPhase'
        OBVIOUS
    <1> USE DEF IInv, BatchPhase, Between
    <1>1. CASE \/ \E r \in Requests : Accept(r) \/ Reject(r) \/ CallerTimeout(r)
               \/ RunCallback \/ CloseLoop \/ Shutdown \/ UNCHANGED vars
          <2>1. UNCHANGED <<worker, batch, cursor, tensors, validPositions>>
                BY <1>1 DEF Accept, Reject, CallerTimeout, RunCallback, CloseLoop,
                   Shutdown, ShutdownBegin, ShutdownPut, ShutdownPutTimeout,
                   ShutdownJoin, ShutdownJoinTimeout, Teardown, ShutdownUnload,
                   ShutdownCleanup, ShutdownRelease, ShutdownRaises, vars, batchVars
          <2>2. QED
                BY <2>1
    <1>2. CASE WStart \/ WAnnounce \/ WPoll \/ WGetTimeout \/ WGetSentinel
               \/ WMeetSentinel \/ WRequeue \/ WDispatch \/ WPredict \/ WPredictFails
          BY <1>2 DEF WStart, WAnnounce, WPoll, WGetTimeout, WGetSentinel,
             WMeetSentinel, WRequeue, WDispatch, WPredict, WPredictFails, batchVars
    <1>3. CASE WRefuseFirst \/ WTakeFirst \/ WRefuseNext \/ WTakeNext
          BY <1>3 DEF WRefuseFirst, WTakeFirst, WRefuseNext, WTakeNext, Refuse, Take,
             batchVars
    <1>4. CASE WPreprocess \/ WPreprocessFails \/ WPreprocessed \/ WDeliver \/ WFail
          BY <1>4 DEF WPreprocess, WPreprocessFails, WPreprocessed, WDeliver, WFail
    <1>5. CASE WNothingValid \/ WBatchEnd
          BY <1>5 DEF WNothingValid, WBatchEnd, ForgetBatch
    <1>6. QED
          BY <1>1, <1>2, <1>3, <1>4, <1>5 DEF Next, Worker, Terminated

\* Every step preserves TeardownPhase.
LEMMA TeardownPhaseStep == IInv /\ [Next]_vars => TeardownPhase'
    <1> SUFFICES ASSUME IInv, [Next]_vars
                 PROVE  TeardownPhase'
        OBVIOUS
    <1> USE DEF IInv, TeardownPhase, WorkerDead
    <1>1. CASE \/ \E r \in Requests : Accept(r) \/ Reject(r) \/ CallerTimeout(r)
               \/ RunCallback \/ CloseLoop \/ UNCHANGED vars
          BY <1>1 DEF Accept, Reject, CallerTimeout, RunCallback, CloseLoop, vars,
             flagVars, shutdownVars
    \* The worker may set the gauge and may die; a dead one does nothing.  After
    \* shutdown the one that has set the gauge is polling, and exits.
    <1>2. CASE Worker
          <2>1. ~WorkerDead
                BY <1>2 DEF Worker, WStart, WAnnounce, WPoll, WGetTimeout, WGetSentinel,
                   WRefuseFirst, WTakeFirst, WRefuseNext, WTakeNext, WMeetSentinel,
                   WRequeue, WDispatch, WPreprocess, WPreprocessFails, WNothingValid,
                   WPreprocessed, WPredict, WPredictFails, WDeliver, WFail, WBatchEnd
          <2>2. UNCHANGED <<modelLoaded, shutdownVars>>
                BY <1>2 DEF Worker, WStart, WAnnounce, WPoll, WGetTimeout, WGetSentinel,
                   WRefuseFirst, WTakeFirst, WRefuseNext, WTakeNext, Refuse, Take,
                   WMeetSentinel, WRequeue, WDispatch, WPreprocess, WPreprocessFails,
                   WNothingValid, WPreprocessed, WPredict, WPredictFails, WDeliver,
                   WFail, WBatchEnd, flagVars
          <2>3. CASE WAnnounce \/ WPoll
                BY <2>1, <2>2, <2>3 DEF WAnnounce, WPoll, flagVars, shutdownVars
          <2>4. CASE ~WAnnounce /\ ~WPoll
                <3>1. modelReady' = modelReady
                      BY <1>2, <2>4 DEF Worker, WStart, WGetTimeout, WGetSentinel,
                         WRefuseFirst, WTakeFirst, WRefuseNext, WTakeNext, Refuse, Take,
                         WMeetSentinel, WRequeue, WDispatch, WPreprocess,
                         WPreprocessFails, WNothingValid, WPreprocessed, WPredict,
                         WPredictFails, WDeliver, WFail, WBatchEnd, flagVars
                <3>2. worker # "polling"
                      BY <1>2, <2>4 DEF Worker, WStart, WGetTimeout, WGetSentinel,
                         WRefuseFirst, WTakeFirst, WRefuseNext, WTakeNext,
                         WMeetSentinel, WRequeue, WDispatch, WPreprocess,
                         WPreprocessFails, WNothingValid, WPreprocessed, WPredict,
                         WPredictFails, WDeliver, WFail, WBatchEnd
                <3>3. QED
                      BY <2>1, <2>2, <3>1, <3>2 DEF shutdownVars
          <2>5. QED
                BY <2>3, <2>4
    <1>3. CASE Shutdown
          BY <1>3 DEF Shutdown, ShutdownBegin, ShutdownPut, ShutdownPutTimeout,
             ShutdownJoin, ShutdownJoinTimeout, Teardown, ShutdownUnload,
             ShutdownCleanup, ShutdownRelease, ShutdownRaises, flagVars
    <1>4. QED
          BY <1>1, <1>2, <1>3 DEF Next, Terminated

\* Every step preserves SentinelPhase.
LEMMA SentinelPhaseStep == IInv /\ [Next]_vars => SentinelPhase'
    <1> SUFFICES ASSUME IInv, [Next]_vars
                 PROVE  SentinelPhase'
        OBVIOUS
    <1> USE DEF IInv, SentinelPhase, LoopHeld
    \* Only a free event loop accepts: before the sentinel or after shutdown.
    <1>1. CASE \E r \in Requests : Accept(r)
          <2>1. PICK r \in Requests : Accept(r)
                BY <1>1
          <2>2. shut \in {"idle", "done"} /\ UNCHANGED <<shut, worker>>
                BY <2>1 DEF Accept, LoopFree, shutdownVars
          <2>3. ASSUME shut = "idle", NEW i \in 1..Len(queue')
                PROVE  queue'[i] # None
                BY <2>1, <2>3, Appended, LenProperties, EngineAssumption
                DEF Accept, TypeOK
          <2>4. QED
                BY <2>2, <2>3
    <1>2. CASE \/ \E r \in Requests : Reject(r) \/ CallerTimeout(r)
               \/ RunCallback \/ CloseLoop \/ UNCHANGED vars
          BY <1>2 DEF Reject, CallerTimeout, RunCallback, CloseLoop, vars, shutdownVars
    <1>3. CASE WGetSentinel \/ WRefuseFirst \/ WTakeFirst \/ WRefuseNext \/ WTakeNext
          <2>1. queue # <<>> /\ queue' = Tail(queue) /\ shut' = shut
                BY <1>3 DEF WGetSentinel, WRefuseFirst, WTakeFirst, WRefuseNext,
                   WTakeNext, Refuse, Take, shutdownVars
          <2>2. worker' # "requeuing"
                BY <1>3 DEF WGetSentinel, WRefuseFirst, WTakeFirst, WRefuseNext,
                   WTakeNext, Refuse, Take
          <2>3. QED
                BY <2>1, <2>2, HeadTail DEF TypeOK
    \* The sentinel the worker meets leaves a free slot behind.
    <1>4. CASE WMeetSentinel
          <2>1. shut \notin {"idle", "putting"} /\ shut' = shut
                BY <1>4, HeadTail DEF WMeetSentinel, TypeOK, shutdownVars
          <2>2. Len(queue') < Capacity
                BY <1>4, DequeueType DEF WMeetSentinel
          <2>3. QED
                BY <2>1, <2>2
    <1>5. CASE WRequeue
          BY <1>5 DEF WRequeue, shutdownVars
    <1>6. CASE WStart \/ WAnnounce \/ WPoll \/ WGetTimeout \/ WDispatch \/ WPreprocess
               \/ WPreprocessFails \/ WNothingValid \/ WPreprocessed \/ WPredict
               \/ WPredictFails \/ WDeliver \/ WFail \/ WBatchEnd
          <2>1. worker' # "requeuing" /\ UNCHANGED <<queue, shut>>
                BY <1>6 DEF WStart, WAnnounce, WPoll, WGetTimeout, WDispatch,
                   WPreprocess, WPreprocessFails, WNothingValid, WPreprocessed,
                   WPredict, WPredictFails, WDeliver, WFail, WBatchEnd, shutdownVars
          <2>2. QED
                BY <2>1
    <1>7. CASE Shutdown
          BY <1>7 DEF Shutdown, ShutdownBegin, ShutdownPut, ShutdownPutTimeout,
             ShutdownJoin, ShutdownJoinTimeout, Teardown, ShutdownUnload,
             ShutdownCleanup, ShutdownRelease, ShutdownRaises
    <1>8. QED
          BY <1>1, <1>2, <1>3, <1>4, <1>5, <1>6, <1>7 DEF Next, Worker, Terminated

-----------------------------------------------------------------------------
(* The batch and its valid positions.                                      *)

\* Every step preserves BatchShape.
LEMMA BatchShapeStep == IInv /\ [Next]_vars => BatchShape'
    <1> SUFFICES ASSUME IInv, [Next]_vars
                 PROVE  BatchShape'
        OBVIOUS
    <1> USE DEF IInv
    <1>1. CASE UNCHANGED <<batch, tensors, validPositions>>
          BY <1>1 DEF BatchShape
    \* The batch grows at its end while nothing of it has been preprocessed.
    <1>2. CASE WTakeFirst \/ WTakeNext
          <2>1. Take /\ worker \in {"waiting", "collecting"}
                BY <1>2 DEF WTakeFirst, WTakeNext
          <2>2. tensors' = <<>> /\ validPositions' = <<>>
                BY <2>1 DEF Take, BatchPhase, Between
          <2>3. batch' = Append(batch, Head(queue)) /\ Head(queue) \in Requests
                /\ Head(queue) \notin BadDims
                BY <2>1 DEF Take
          <2>4. \A i \in 1..Len(batch') : batch'[i] \notin BadDims
                BY <2>3, Appended, LenProperties DEF BatchShape, TypeOK
          <2>5. QED
                BY <2>2, <2>4, EmptySeq DEF BatchShape
    <1>3. CASE WNothingValid \/ WBatchEnd
          BY <1>3, EmptySeq DEF WNothingValid, WBatchEnd, ForgetBatch, BatchShape
    \* The next item is preprocessed: one more tensor, one more position.
    <1>4. CASE WPreprocess
          <2>1. cursor \in 1..Len(batch) /\ batch[cursor] \in Requests
                BY <1>4, ElementOfSeq, LenProperties DEF WPreprocess, TypeOK
          <2>2. batch[cursor] \notin Corrupt /\ batch' = batch
                BY <1>4 DEF WPreprocess, CanPreprocess
          <2>3. /\ Len(tensors') = Len(tensors) + 1
                /\ \A k \in 1..Len(tensors) : tensors'[k] = tensors[k]
                /\ tensors'[Len(tensors) + 1] = batch[cursor]
                BY <1>4, <2>1, Appended DEF WPreprocess, TypeOK
          <2>4. /\ Len(validPositions') = Len(validPositions) + 1
                /\ \A k \in 1..Len(validPositions) :
                      validPositions'[k] = validPositions[k]
                /\ validPositions'[Len(validPositions) + 1] = cursor
                BY <1>4, <2>1, Appended DEF WPreprocess, TypeOK
          <2>5. Len(validPositions) \in Nat /\ Len(tensors) = Len(validPositions)
                BY LenProperties DEF TypeOK, BatchShape
          <2>6. QED
                BY <2>1, <2>2, <2>3, <2>4, <2>5 DEF BatchShape
    <1>5. CASE \/ \E r \in Requests : Accept(r) \/ Reject(r) \/ CallerTimeout(r)
               \/ RunCallback \/ CloseLoop \/ Shutdown \/ UNCHANGED vars
          BY <1>1, <1>5 DEF Accept, Reject, CallerTimeout, RunCallback, CloseLoop,
             Shutdown, ShutdownBegin, ShutdownPut, ShutdownPutTimeout, ShutdownJoin,
             ShutdownJoinTimeout, Teardown, ShutdownUnload, ShutdownCleanup,
             ShutdownRelease, ShutdownRaises, vars, batchVars
    <1>6. CASE WStart \/ WAnnounce \/ WPoll \/ WGetTimeout \/ WGetSentinel
               \/ WRefuseFirst \/ WRefuseNext \/ WMeetSentinel \/ WRequeue \/ WDispatch
               \/ WPreprocessFails \/ WPreprocessed \/ WPredict \/ WPredictFails
               \/ WDeliver \/ WFail
          BY <1>1, <1>6 DEF WStart, WAnnounce, WPoll, WGetTimeout, WGetSentinel,
             WRefuseFirst, WRefuseNext, Refuse, WMeetSentinel, WRequeue, WDispatch,
             WPreprocessFails, WPreprocessed, WPredict, WPredictFails, WDeliver,
             WFail, batchVars
    <1>7. QED
          BY <1>2, <1>3, <1>4, <1>5, <1>6 DEF Next, Worker, Terminated

-----------------------------------------------------------------------------
(* The outcomes.                                                           *)

\* A proper outcome that is scheduled keeps all outcomes proper.
LEMMA ScheduleProper ==
    ASSUME IInv, NEW r \in Requests, NEW status \in Outcomes,
           NEW result \in Requests \cup {None}, Schedule(r, status, result),
           Proper(r, status, result), UNCHANGED <<future, row, joinTimedOut>>
    PROVE  OutcomesProper'
    <1> DEFINE cb == [req |-> r, status |-> status, row |-> result]
    <1>1. cb \in Callback /\ callbacks \in Seq(Callback)
          BY DEF Callback, IInv, TypeOK
    <1>2. \A i \in 1..Len(callbacks') :
             Proper(callbacks'[i].req, callbacks'[i].status, callbacks'[i].row)
          <2>1. CASE callbacks' = callbacks
                BY <2>1 DEF IInv, OutcomesProper
          <2>2. CASE callbacks' = Append(callbacks, cb)
                <3> SUFFICES ASSUME NEW i \in 1..Len(callbacks')
                             PROVE  Proper(callbacks'[i].req, callbacks'[i].status,
                                           callbacks'[i].row)
                    OBVIOUS
                <3>1. i \in 1..Len(callbacks) \/ i = Len(callbacks) + 1
                      BY <1>1, <2>2, Appended, LenProperties
                <3>2. CASE i \in 1..Len(callbacks)
                      BY <1>1, <2>2, <3>2, Appended DEF IInv, OutcomesProper
                <3>3. CASE i = Len(callbacks) + 1
                      BY <1>1, <2>2, <3>3, Appended
                <3>4. QED
                      BY <3>1, <3>2, <3>3
          <2>3. QED
                BY <2>1, <2>2 DEF Schedule
    <1>3. \A q \in Requests : Proper(q, future[q], row[q])'
          BY DEF IInv, OutcomesProper, Proper
    <1>4. QED
          BY <1>2, <1>3 DEF OutcomesProper, Proper

\* Every step preserves OutcomesProper.
LEMMA OutcomesProperStep == IInv /\ [Next]_vars => OutcomesProper'
    <1> SUFFICES ASSUME IInv, [Next]_vars
                 PROVE  OutcomesProper'
        OBVIOUS
    <1> USE DEF IInv
    <1>1. CASE UNCHANGED <<callbacks, future, row, joinTimedOut>>
          BY <1>1 DEF OutcomesProper, Proper
    \* A future that becomes pending, rejected or cancelled has no outcome.
    <1>2. CASE \E r \in Requests : Accept(r) \/ Reject(r) \/ CallerTimeout(r)
          <2>1. PICK r \in Requests, status \in {"pending", "rejected", "cancelled"} :
                   future' = [future EXCEPT ![r] = status]
                BY <1>2 DEF Accept, Reject, CallerTimeout
          <2>2. UNCHANGED <<callbacks, row, joinTimedOut>>
                BY <1>2 DEF Accept, Reject, CallerTimeout, shutdownVars
          <2>3. QED
                BY <2>1, <2>2 DEF OutcomesProper, Proper, TypeOK
    <1>3. CASE RunCallback
          <2>1. /\ Head(callbacks) = callbacks[1]
                /\ Head(callbacks) \in Callback
                /\ 1 \in 1..Len(callbacks)
                /\ \A i \in 1..Len(callbacks') :
                      i + 1 \in 1..Len(callbacks) /\ callbacks'[i] = callbacks[i + 1]
                BY <1>3, HeadTail DEF RunCallback, TypeOK
          <2> DEFINE cb == Head(callbacks)
          <2>2. Proper(cb.req, cb.status, cb.row) /\ cb.req \in Requests
                BY <2>1 DEF OutcomesProper, Callback
          <2>3. joinTimedOut' = joinTimedOut
                BY <1>3 DEF RunCallback, shutdownVars
          <2>4. \A i \in 1..Len(callbacks') :
                   Proper(callbacks'[i].req, callbacks'[i].status, callbacks'[i].row)
                BY <2>1 DEF OutcomesProper
          <2>5. \/ UNCHANGED <<future, row>>
                \/ /\ future' = [future EXCEPT ![cb.req] = cb.status]
                   /\ row' = [row EXCEPT ![cb.req] = cb.row]
                BY <1>3 DEF RunCallback
          <2>6. \A q \in Requests : Proper(q, future'[q], row'[q])
                BY <2>2, <2>5 DEF OutcomesProper, TypeOK
          <2>7. QED
                BY <2>3, <2>4, <2>6 DEF OutcomesProper, Proper
    <1>4. CASE CloseLoop
          BY <1>4, EmptySeq DEF CloseLoop, OutcomesProper, Proper, TypeOK, shutdownVars
    <1>5. CASE WRefuseFirst \/ WRefuseNext
          <2>1. Head(queue) \in BadDims /\ Schedule(Head(queue), "invalid", None)
                /\ UNCHANGED <<future, row, joinTimedOut>>
                BY <1>5 DEF WRefuseFirst, WRefuseNext, Refuse, shutdownVars
          <2>2. QED
                BY <2>1, ScheduleProper, EngineAssumption DEF Proper, Outcomes
    \* Preprocessing fails on a corrupt image, or because a shutdown that did not
    \* wait for the worker has unloaded the model.
    <1>6. CASE WPreprocessFails
          <2>1. batch[cursor] \in Requests
                BY <1>6, ElementOfSeq, LenProperties DEF WPreprocessFails, TypeOK
          <2>2. batch[cursor] \in Corrupt \/ joinTimedOut
                BY <1>6 DEF WPreprocessFails, CanPreprocess, TeardownPhase, WorkerDead
          <2>3. batch[cursor] \notin BadDims
                BY <1>6, LenProperties DEF WPreprocessFails, BatchShape, TypeOK
          <2>4. Schedule(batch[cursor], "unreadable", None)
                /\ UNCHANGED <<future, row, joinTimedOut>>
                BY <1>6 DEF WPreprocessFails, shutdownVars
          <2>5. QED
                BY <2>1, <2>2, <2>3, <2>4, ScheduleProper DEF Proper, Outcomes
    \* Row k of the output and the future at valid position k belong together.
    <1>7. CASE WDeliver
          <2> DEFINE r == batch[validPositions[cursor]]
          <2>1. cursor \in 1..Len(validPositions)
                BY <1>7, LenProperties DEF WDeliver, TypeOK
          <2>2. r \in Requests /\ r \notin BadDims
                BY <2>1, ElementOfSeq DEF BatchShape, TypeOK
          <2>3. tensors[cursor] = r /\ r \notin Corrupt
                BY <2>1 DEF BatchShape
          <2>4. Schedule(r, "answered", r) /\ UNCHANGED <<future, row, joinTimedOut>>
                BY <1>7, <2>3 DEF WDeliver, shutdownVars
          <2>5. QED
                BY <2>2, <2>3, <2>4, ScheduleProper DEF Proper, Outcomes
    <1>8. CASE WFail
          <2>1. cursor \in 1..Len(validPositions)
                BY <1>8, LenProperties DEF WFail, TypeOK
          <2>2. batch[validPositions[cursor]] \in Requests \ (Corrupt \cup BadDims)
                BY <2>1, ElementOfSeq DEF BatchShape, TypeOK
          <2>3. Schedule(batch[validPositions[cursor]], "failed", None)
                /\ UNCHANGED <<future, row, joinTimedOut>>
                BY <1>8 DEF WFail, shutdownVars
          <2>4. QED
                BY <2>2, <2>3, ScheduleProper DEF Proper, Outcomes
    <1>9. CASE ShutdownJoinTimeout
          BY <1>9 DEF ShutdownJoinTimeout, loopVars, OutcomesProper, Proper
    <1>10. CASE ShutdownBegin \/ ShutdownPut \/ ShutdownPutTimeout \/ ShutdownJoin
                \/ Teardown \/ UNCHANGED vars
          BY <1>1, <1>10 DEF ShutdownBegin, ShutdownPut, ShutdownPutTimeout,
             ShutdownJoin, Teardown, ShutdownUnload, ShutdownCleanup, ShutdownRelease,
             ShutdownRaises, vars, loopVars, shutdownVars
    <1>11. CASE WStart \/ WAnnounce \/ WPoll \/ WGetTimeout \/ WGetSentinel
                \/ WTakeFirst \/ WTakeNext \/ WMeetSentinel \/ WRequeue \/ WDispatch
                \/ WPreprocess \/ WNothingValid \/ WPreprocessed \/ WPredict
                \/ WPredictFails \/ WBatchEnd
          BY <1>1, <1>11 DEF WStart, WAnnounce, WPoll, WGetTimeout, WGetSentinel,
             WTakeFirst, WTakeNext, Take, WMeetSentinel, WRequeue, WDispatch,
             WPreprocess, WNothingValid, WPreprocessed, WPredict, WPredictFails,
             WBatchEnd, loopVars, shutdownVars
    <1>12. QED
          BY <1>2, <1>3, <1>4, <1>5, <1>6, <1>7, <1>8, <1>9, <1>10, <1>11
          DEF Next, Worker, Shutdown, Terminated

-----------------------------------------------------------------------------
(* The theorems.                                                           *)

\* The initial state satisfies the invariant.
LEMMA InitIInv == Init => IInv
    <1> SUFFICES ASSUME Init
                 PROVE  IInv
        OBVIOUS
    <1>1. \A S : <<>> \in Seq(S) /\ Len(<<>>) = 0
          BY EmptySeq
    <1>2. TypeOK
          <2>1. Len(queue) <= Capacity /\ Len(batch) <= BatchMax
                BY <1>1, EngineAssumption DEF Init
          <2>2. /\ queue \in Seq(Requests \cup {None})
                /\ callbacks \in Seq(Callback)
                /\ batch \in Seq(Requests)
                /\ tensors \in Seq(Requests)
                /\ validPositions \in Seq(Nat \ {0})
                BY <1>1 DEF Init
          <2>3. /\ future \in [Requests -> FutureStatus]
                /\ row \in [Requests -> Requests \cup {None}]
                BY DEF Init, FutureStatus
          <2>4. /\ loopOpen \in BOOLEAN /\ ready \in BOOLEAN
                /\ modelReady \in BOOLEAN /\ modelLoaded \in BOOLEAN
                /\ shutdownEvent \in BOOLEAN /\ joinTimedOut \in BOOLEAN
                /\ cleanupRaised \in BOOLEAN
                BY Zenon DEF Init
          <2>5. worker \in WorkerStates /\ shut \in ShutdownStates /\ cursor \in Nat \ {0}
                BY DEF Init, WorkerStates, ShutdownStates
          <2>6. QED
                BY <2>1, <2>2, <2>3, <2>4, <2>5 DEF TypeOK
    <1>3. BatchPhase /\ BatchShape
          BY <1>1 DEF Init, BatchPhase, BatchShape
    <1>4. OutcomesProper
          BY <1>1 DEF Init, OutcomesProper, Proper
    <1>5. SentinelPhase /\ TeardownPhase
          BY <1>1 DEF Init, SentinelPhase, LoopHeld, TeardownPhase
    <1>6. QED
          BY <1>2, <1>3, <1>4, <1>5 DEF IInv

\* Every step preserves the invariant.
LEMMA NextIInv == IInv /\ [Next]_vars => IInv'
    BY TypeStep, BatchPhaseStep, BatchShapeStep, OutcomesProperStep,
       SentinelPhaseStep, TeardownPhaseStep
    DEF IInv

\* The inductive invariant holds in every state of the engine.
THEOREM Inductive == Spec => []IInv
    BY InitIInv, NextIInv, PTL DEF Spec

\* The engine's state has the types its fields have in the code, the queue its
\* maxsize and the batch MAX_BATCH_SIZE.
THEOREM TypeCorrect == Spec => []TypeOK
    <1>1. IInv => TypeOK
          BY DEF IInv
    <1>2. QED
          BY <1>1, Inductive, PTL

\* A future only ever gets the row computed from its own, acceptable image.
THEOREM OwnResultHolds == Spec => []OwnResult
    <1>1. IInv => OwnResult
          BY DEF IInv, OutcomesProper, Proper, OwnResult
    <1>2. QED
          BY <1>1, Inductive, PTL

\* An unreadable or refused image fails its own request and no other.
THEOREM IsolatedFailuresHold == Spec => []IsolatedFailures
    <1>1. IInv => IsolatedFailures
          BY DEF IInv, OutcomesProper, Proper, IsolatedFailures
    <1>2. QED
          BY <1>1, Inductive, PTL

\* The blocking put of the queue's only consumer finds a free slot as long as
\* shutdown holds the event loop.
THEOREM RequeueRoom == Spec => []RequeueNeverBlocks
    <1>1. IInv => RequeueNeverBlocks
          BY DEF IInv, TypeOK, ShutdownStates, SentinelPhase, LoopHeld,
             RequeueNeverBlocks
    <1>2. QED
          BY <1>1, Inductive, PTL

\* The model is never torn down under a live worker the join has waited for, and a
\* gauge left at 1 is an exception's or belongs to a late thread that serves nobody.
THEOREM ShutdownIsClean == Spec => []CleanShutdown
    <1>1. IInv => CleanShutdown
          BY DEF IInv, TeardownPhase, CleanShutdown
    <1>2. QED
          BY <1>1, Inductive, PTL

-----------------------------------------------------------------------------
(* The worker gets on.                                                     *)

\* Where the cursor of each of perform_inference's loops can be, and how many of
\* the items behind it were valid.
Cursors ==
    /\ worker = "preprocessing" =>
          cursor <= Len(batch) + 1 /\ Len(validPositions) < cursor
    /\ worker = "predicting" => cursor = 1
    /\ worker \in {"delivering", "failing"} => cursor <= Len(validPositions) + 1
    /\ worker \in {"predicting", "delivering", "failing"} =>
          Len(validPositions) <= Len(batch)

\* The lengths are numbers, as the limits are.
LEMMA Lengths ==
    ASSUME IInv
    PROVE  /\ Len(queue) \in Nat /\ Len(batch) \in Nat /\ Len(validPositions) \in Nat
           /\ Len(queue) <= Capacity /\ Len(batch) <= BatchMax
           /\ cursor \in Nat \ {0}
           /\ Capacity \in Nat \ {0} /\ BatchMax \in Nat \ {0}
    BY LenProperties, EngineAssumption DEF IInv, TypeOK

\* Every step keeps the cursor within the loop it belongs to.
LEMMA CursorsStep == IInv /\ Cursors /\ [Next]_vars => Cursors'
    <1> SUFFICES ASSUME IInv, Cursors, [Next]_vars
                 PROVE  Cursors'
        OBVIOUS
    <1> USE Lengths DEF Cursors
    <1>1. CASE \/ \E r \in Requests : Accept(r) \/ Reject(r) \/ CallerTimeout(r)
               \/ RunCallback \/ CloseLoop \/ Shutdown \/ UNCHANGED vars
          <2>1. UNCHANGED <<worker, batchVars>>
                BY <1>1 DEF Accept, Reject, CallerTimeout, RunCallback, CloseLoop,
                   Shutdown, ShutdownBegin, ShutdownPut, ShutdownPutTimeout,
                   ShutdownJoin, ShutdownJoinTimeout, Teardown, ShutdownUnload,
                   ShutdownCleanup, ShutdownRelease, ShutdownRaises, vars
          <2>2. QED
                BY <2>1 DEF batchVars
    \* Outside perform_inference the cursor does not matter.
    <1>2. CASE WStart \/ WAnnounce \/ WPoll \/ WGetTimeout \/ WGetSentinel
               \/ WRefuseFirst \/ WTakeFirst \/ WRefuseNext \/ WTakeNext
               \/ WMeetSentinel \/ WNothingValid \/ WBatchEnd
          <2>1. worker' \notin {"preprocessing", "predicting", "delivering", "failing"}
                BY <1>2 DEF WStart, WAnnounce, WPoll, WGetTimeout, WGetSentinel,
                   WRefuseFirst, WTakeFirst, WRefuseNext, WTakeNext, Refuse, Take,
                   WMeetSentinel, WNothingValid, WBatchEnd
          <2>2. QED
                BY <2>1
    <1>3. CASE WRequeue \/ WDispatch
          <2>1. cursor = 1 /\ validPositions = <<>>
                BY <1>3 DEF WRequeue, WDispatch, IInv, BatchPhase, Between
          <2>2. worker' = "preprocessing" /\ UNCHANGED batchVars
                BY <1>3 DEF WRequeue, WDispatch
          <2>3. QED
                BY <2>1, <2>2, EmptySeq DEF batchVars
    <1>4. CASE WPreprocess
          <2>1. Len(validPositions') = Len(validPositions) + 1
                BY <1>4, Appended DEF WPreprocess, IInv, TypeOK
          <2>2. QED
                BY <1>4, <2>1 DEF WPreprocess
    <1>5. CASE WPreprocessFails \/ WPreprocessed \/ WDeliver \/ WFail
          BY <1>5 DEF WPreprocessFails, WPreprocessed, WDeliver, WFail
    <1>6. CASE WPredict \/ WPredictFails
          BY <1>6 DEF WPredict, WPredictFails, batchVars
    <1>7. QED
          BY <1>1, <1>2, <1>3, <1>4, <1>5, <1>6 DEF Next, Worker, Terminated

\* The initial state satisfies Cursors, which is thus an invariant.
LEMMA CursorsInductive == Spec => [](IInv /\ Cursors)
    <1>1. Init => Cursors
          BY DEF Init, Cursors
    <1>2. QED
          BY <1>1, InitIInv, NextIInv, CursorsStep, PTL DEF Spec

\* StepsLeft, case by case.
LEMMA StepsLeftCases ==
    ASSUME IInv
    PROVE  /\ WorkerDead => StepsLeft = 0
           /\ worker = "polling" => StepsLeft = 1
           /\ worker = "announcing" => StepsLeft = 2
           /\ worker = "starting" => StepsLeft = 3
           /\ worker \in {"delivering", "failing"} =>
                 StepsLeft = Len(validPositions) + 4 - cursor
           /\ worker = "predicting" => StepsLeft = Len(validPositions) + 4
           /\ worker = "preprocessing" => StepsLeft = 2 * Len(batch) + 6 - cursor
           /\ worker = "requeuing" => StepsLeft = 2 * Len(batch) + 6
           /\ worker = "collecting" => StepsLeft = 3 * BatchMax + 7 - Len(batch)
           /\ worker = "waiting" =>
                 StepsLeft = IF shutdownEvent THEN 3 * BatchMax + 7 ELSE 0
    BY Lengths DEF StepsLeft, WorkerDead

\* The worker is never further from its end than a whole queue and a whole batch.
Bounded ==
    /\ Len(queue) \in Nat
    /\ StepsLeft \in Nat /\ StepsLeft <= 3 * BatchMax + 7
    /\ Distance \in Nat
    /\ Distance <= 6 * BatchMax + 14 + Capacity

LEMMA DistanceBound == IInv /\ Cursors => Bounded
    <1> SUFFICES ASSUME IInv, Cursors
                 PROVE  Bounded
        OBVIOUS
    <1>1. StepsLeft \in Nat /\ StepsLeft <= 3 * BatchMax + 7
          <2>1. worker \in WorkerStates
                BY DEF IInv, TypeOK
          <2>2. CASE worker \in {"starting", "announcing", "polling", "waiting",
                               "exited", "crashed"}
                BY <2>2, Lengths, StepsLeftCases DEF WorkerDead
          <2>3. CASE worker \in {"collecting", "requeuing"}
                BY <2>3, Lengths, StepsLeftCases
          <2>4. CASE worker \in {"delivering", "failing"}
                BY <2>4, Lengths, StepsLeftCases DEF Cursors
          <2>5. CASE worker = "predicting"
                BY <2>5, Lengths, StepsLeftCases DEF Cursors
          <2>6. CASE worker = "preprocessing"
                BY <2>6, Lengths, StepsLeftCases DEF Cursors
          <2>7. QED
                BY <2>1, <2>2, <2>3, <2>4, <2>5, <2>6 DEF WorkerStates
    <1>2. QED
          BY <1>1, Lengths DEF Distance, Bounded

\* The same after a step.
LEMMA DistanceBoundNext == IInv' /\ Cursors' => Bounded'
    BY DistanceBound, PTL

\* What a step of the worker does to what it shares with shutdown, seen from the
\* worker: it frees a slot of the queue, fills one, or leaves it alone.
LEMMA WorkerOnQueue ==
    ASSUME IInv, Worker
    PROVE  /\ UNCHANGED shutdownEvent
           /\ ~WorkerDead
           /\ \/ queue' = queue
              \/ queue' = Tail(queue) /\ Len(queue') = Len(queue) - 1
              \/ WRequeue /\ Len(queue') = Len(queue) + 1
    <1>1. UNCHANGED shutdownEvent /\ ~WorkerDead
          BY DEF Worker, WStart, WAnnounce, WPoll, WGetTimeout, WGetSentinel,
             WRefuseFirst, WTakeFirst, WRefuseNext, WTakeNext, Refuse, Take,
             WMeetSentinel, WRequeue, WDispatch, WPreprocess, WPreprocessFails,
             WNothingValid, WPreprocessed, WPredict, WPredictFails, WDeliver, WFail,
             WBatchEnd, shutdownVars, WorkerDead
    <1>2. CASE WGetSentinel \/ WRefuseFirst \/ WTakeFirst \/ WRefuseNext \/ WTakeNext
               \/ WMeetSentinel
          <2>1. queue # <<>> /\ queue' = Tail(queue)
                BY <1>2 DEF WGetSentinel, WRefuseFirst, WTakeFirst, WRefuseNext,
                   WTakeNext, Refuse, Take, WMeetSentinel
          <2>2. QED
                BY <1>1, <2>1, DequeueType DEF IInv
    <1>3. CASE WRequeue
          BY <1>1, <1>3, Appended DEF WRequeue, IInv, TypeOK
    <1>4. CASE WStart \/ WAnnounce \/ WPoll \/ WGetTimeout \/ WDispatch \/ WPreprocess
               \/ WPreprocessFails \/ WNothingValid \/ WPreprocessed \/ WPredict
               \/ WPredictFails \/ WDeliver \/ WFail \/ WBatchEnd
          BY <1>1, <1>4 DEF WStart, WAnnounce, WPoll, WGetTimeout, WDispatch,
             WPreprocess, WPreprocessFails, WNothingValid, WPreprocessed, WPredict,
             WPredictFails, WDeliver, WFail, WBatchEnd
    <1>5. QED
          BY <1>2, <1>3, <1>4 DEF Worker

\* Steps of the worker on the way to a complete batch.
LEMMA CollectingCloser ==
    ASSUME IInv, Cursors,
           \/ WStart \/ WAnnounce \/ WPoll \/ WGetTimeout \/ WGetSentinel
           \/ WRefuseFirst \/ WTakeFirst \/ WRefuseNext \/ WTakeNext
           \/ WMeetSentinel \/ WRequeue \/ WDispatch
    PROVE  \/ StepsLeft' < StepsLeft
           \/ StepsLeft' = StepsLeft /\ queue # <<>> /\ queue' = Tail(queue)
           \/ ~shutdownEvent /\ (WGetTimeout \/ (queue # <<>> /\ queue' = Tail(queue)))
    <1> USE Lengths DEF StepsLeft, WorkerDead
    <1>1. CASE WStart \/ WAnnounce \/ WPoll
          BY <1>1 DEF WStart, WAnnounce, WPoll, shutdownVars
    <1>2. CASE WGetTimeout \/ WGetSentinel \/ WRefuseFirst
          BY <1>2 DEF WGetTimeout, WGetSentinel, WRefuseFirst, Refuse, shutdownVars
    <1>3. CASE WTakeFirst \/ WTakeNext
          <2>1. /\ Len(batch') = Len(batch) + 1
                /\ queue # <<>> /\ queue' = Tail(queue)
                BY <1>3, Appended DEF WTakeFirst, WTakeNext, Take, IInv, TypeOK
          <2>2. worker \in {"waiting", "collecting"} /\ worker' = "collecting"
                BY <1>3 DEF WTakeFirst, WTakeNext, Take
          <2>3. QED
                BY <2>1, <2>2
    <1>4. CASE WRefuseNext
          BY <1>4 DEF WRefuseNext, Refuse, batchVars
    <1>5. CASE WMeetSentinel
          BY <1>5 DEF WMeetSentinel, batchVars
    <1>6. CASE WRequeue \/ WDispatch
          <2>1. cursor = 1
                BY <1>6 DEF WRequeue, WDispatch, IInv, BatchPhase, Between
          <2>2. QED
                BY <1>6, <2>1 DEF WRequeue, WDispatch, batchVars
    <1>7. QED
          BY <1>1, <1>2, <1>3, <1>4, <1>5, <1>6

\* Steps of perform_inference: the cursor moves on, or the next loop begins.
LEMMA InferringCloser ==
    ASSUME IInv, Cursors,
           \/ WPreprocess \/ WPreprocessFails \/ WNothingValid \/ WPreprocessed
           \/ WPredict \/ WPredictFails \/ WDeliver \/ WFail \/ WBatchEnd
    PROVE  StepsLeft' < StepsLeft /\ queue' = queue
    <1> USE Lengths DEF StepsLeft, WorkerDead, Cursors
    <1>1. CASE WPreprocess \/ WPreprocessFails
          BY <1>1 DEF WPreprocess, WPreprocessFails
    <1>2. CASE WNothingValid \/ WBatchEnd
          BY <1>2 DEF WNothingValid, WBatchEnd
    <1>3. CASE WPreprocessed
          BY <1>3 DEF WPreprocessed
    <1>4. CASE WPredict \/ WPredictFails
          BY <1>4 DEF WPredict, WPredictFails, batchVars
    <1>5. CASE WDeliver \/ WFail
          BY <1>5 DEF WDeliver, WFail
    <1>6. QED
          BY <1>1, <1>2, <1>3, <1>4, <1>5

\* A step of the worker takes it nearer to its end, or, before shutdown, to the
\* next item.
LEMMA WorkerCloser ==
    ASSUME IInv, Cursors, IInv', Cursors', Worker
    PROVE  \/ Distance' < Distance
           \/ ~shutdownEvent /\ (EmptyWait \/ ItemTaken)
    <1>1. StepsLeft \in Nat /\ StepsLeft' \in Nat
          BY DistanceBound, DistanceBoundNext DEF Bounded
    <1>2. Len(queue) \in Nat /\ Len(queue') \in Nat
          BY DistanceBound, DistanceBoundNext DEF Bounded
    <1>3. CASE StepsLeft' < StepsLeft
          BY <1>1, <1>2, <1>3, WorkerOnQueue DEF Distance
    <1>4. CASE StepsLeft' = StepsLeft /\ queue # <<>> /\ queue' = Tail(queue)
          BY <1>1, <1>2, <1>4, DequeueType DEF Distance, IInv
    <1>5. QED
          BY <1>3, <1>4, CollectingCloser, InferringCloser
          DEF Worker, WGetTimeout, EmptyWait, ItemTaken

\* What WorkerGetsOn says of each step.
LEMMA GettingOn ==
    ASSUME IInv, Cursors, IInv', Cursors', [Next]_vars
    PROVE  /\ Distance \in 0..(6 * BatchMax + 14 + Capacity)
           /\ Worker => \/ Distance' < Distance
                        \/ ~shutdownEvent /\ (EmptyWait \/ ItemTaken)
           /\ LoopHeld => Distance' <= Distance
    <1>1. Distance \in Nat /\ Distance' \in Nat
          BY DistanceBound, DistanceBoundNext DEF Bounded
    <1>2. CASE Worker
          <2>1. LoopHeld => shutdownEvent
                BY DEF IInv, TeardownPhase, LoopHeld
          <2>2. QED
                BY <1>1, <1>2, <2>1, DistanceBound, WorkerCloser DEF Bounded
    \* The event loop is not free, and the rest of shutdown touches neither the
    \* queue nor the worker.
    <1>3. ASSUME ~Worker, LoopHeld
          PROVE  Distance' = Distance
          <2>1. UNCHANGED <<queue, worker, batchVars, shutdownEvent>>
                BY <1>3 DEF Next, Accept, Reject, CallerTimeout, RunCallback, CloseLoop,
                   LoopFree, LoopHeld, Shutdown, ShutdownBegin, ShutdownPut,
                   ShutdownPutTimeout, ShutdownJoin, ShutdownJoinTimeout, Teardown,
                   ShutdownUnload, ShutdownCleanup, ShutdownRelease, ShutdownRaises,
                   Terminated, vars, shutdownVars
          <2>2. QED
                BY <2>1 DEF Distance, StepsLeft, WorkerDead, batchVars
    <1>4. QED
          BY <1>1, <1>2, <1>3, DistanceBound DEF Bounded

\* The worker never goes back within a batch, and after a request for shutdown is
\* a bounded number of its own steps away from its end, which nothing puts off.
THEOREM WorkerAlwaysGetsOn == Spec => WorkerGetsOn
    BY GettingOn, CursorsInductive, PTL DEF Spec, WorkerGetsOn

-----------------------------------------------------------------------------
(* Nobody is stuck.  The prover has no rule for ENABLED, so that an action *)
(* can be taken where its guard, read off its definition, is true is a     *)
(* hypothesis; that some guard is true wherever it has to be is proved.    *)

\* The guards of WStart, WAnnounce, WPoll, WDispatch and WPredictFails; of the steps from
\* waiting; of WRequeue; and of the loops of perform_inference and their ends.
WorkerGuard ==
    \/ worker \in {"starting", "announcing", "polling", "collecting", "predicting"}
    \/ worker = "waiting" /\ (queue = <<>> \/ Head(queue) \in Requests \cup {None})
    \/ worker = "requeuing" /\ Len(queue) < Capacity
    \/ /\ worker = "preprocessing"
       /\ cursor <= Len(batch) \/ cursor > Len(batch)
    \/ /\ worker \in {"delivering", "failing"}
       /\ cursor <= Len(validPositions) \/ cursor > Len(validPositions)

PutGuard == shut = "putting" /\ (Len(queue) < Capacity \/ Len(queue) >= Capacity)

EngineGuardsSuffice ==
    /\ WorkerGuard => ENABLED <<Worker>>_vars
    /\ LoopFree /\ callbacks # <<>> => ENABLED <<RunCallback>>_vars
    /\ PutGuard => ENABLED <<ShutdownPut \/ ShutdownPutTimeout>>_vars
    /\ shut = "joining" /\ WorkerDead => ENABLED <<ShutdownJoin>>_vars
    /\ shut \in {"cleaning", "unloading", "releasing"} => ENABLED <<Teardown>>_vars

\* Wherever the worker is, one of its guards is true, unless it has ended or is
\* blocked in put(None) after the end of shutdown; and one of the two ways out of
\* the put of shutdown is open.
LEMMA SomeGuard ==
    ASSUME IInv
    PROVE  /\ WorkerDead \/ (worker = "requeuing" /\ shut = "done") \/ WorkerGuard
           /\ shut = "putting" => PutGuard
    <1>1. worker = "waiting" =>
             queue = <<>> \/ Head(queue) \in Requests \cup {None}
          BY HeadTail DEF IInv, TypeOK
    <1>2. worker = "requeuing" /\ shut # "done" => Len(queue) < Capacity
          BY DEF IInv, TypeOK, ShutdownStates, SentinelPhase, LoopHeld
    <1>3. QED
          BY <1>1, <1>2, Lengths DEF IInv, TypeOK, WorkerStates, WorkerGuard,
             WorkerDead, PutGuard

\* Neither the worker nor shutdown is ever stuck, whatever the capacity, the batch
\* size and the requests (batch_processing_loop and shutdown).
THEOREM ThreadsNeverStuck == Spec /\ []EngineGuardsSuffice => []NoThreadStuck
    <1>1. IInv /\ EngineGuardsSuffice => NoThreadStuck
          BY SomeGuard DEF EngineGuardsSuffice, NoThreadStuck, ShutdownEnabled
    <1>2. QED
          BY <1>1, Inductive, PTL

-----------------------------------------------------------------------------
(* shutdown returns.                                                       *)

\* Until the join has timed out nothing says it has; and the call of shutdown has
\* only the next statement to go on with, which what runs meanwhile leaves alone.
StillJoining == shut \in {"idle", "putting", "joining"} => ~joinTimedOut

LEMMA StillJoiningStep == StillJoining /\ [Next]_vars => StillJoining'
    <1> SUFFICES ASSUME StillJoining, [Next]_vars
                 PROVE  StillJoining'
        OBVIOUS
    <1> USE DEF StillJoining
    <1>1. CASE ~Shutdown
          <2>1. UNCHANGED shutdownVars
                BY <1>1 DEF Next, Accept, Reject, CallerTimeout, RunCallback, CloseLoop,
                   Worker, WStart, WAnnounce, WPoll, WGetTimeout, WGetSentinel,
                   WRefuseFirst, WTakeFirst, WRefuseNext, WTakeNext, Refuse, Take,
                   WMeetSentinel, WRequeue, WDispatch, WPreprocess, WPreprocessFails,
                   WNothingValid, WPreprocessed, WPredict, WPredictFails, WDeliver,
                   WFail, WBatchEnd, Terminated, vars
          <2>2. QED
                BY <2>1 DEF shutdownVars
    <1>2. CASE Shutdown
          BY <1>2 DEF Shutdown, ShutdownBegin, ShutdownPut, ShutdownPutTimeout,
             ShutdownJoin, ShutdownJoinTimeout, Teardown, ShutdownUnload,
             ShutdownCleanup, ShutdownRelease, ShutdownRaises
    <1>3. QED
          BY <1>1, <1>2

\* What a step does to the call of shutdown, and to a worker that has ended.
LEMMA ShutdownStages ==
    ASSUME [Next]_vars
    PROVE  /\ shut = "putting" => shut' \in {"putting", "joining"}
           /\ shut = "joining" => shut' \in {"joining", "cleaning"}
           /\ shut = "cleaning" => shut' \in {"cleaning", "unloading"}
           /\ shut = "unloading" => shut' \in {"unloading", "releasing"}
           /\ shut = "releasing" => shut' \in {"releasing", "done"}
           /\ WorkerDead => WorkerDead'
    <1>1. CASE Shutdown
          BY <1>1 DEF Shutdown, ShutdownBegin, ShutdownPut, ShutdownPutTimeout,
             ShutdownJoin, ShutdownJoinTimeout, Teardown, ShutdownUnload,
             ShutdownCleanup, ShutdownRelease, ShutdownRaises, WorkerDead
    <1>2. CASE Worker
          BY <1>2 DEF Worker, WStart, WAnnounce, WPoll, WGetTimeout, WGetSentinel,
             WRefuseFirst, WTakeFirst, WRefuseNext, WTakeNext, Refuse, Take,
             WMeetSentinel, WRequeue, WDispatch, WPreprocess, WPreprocessFails,
             WNothingValid, WPreprocessed, WPredict, WPredictFails, WDeliver, WFail,
             WBatchEnd, WorkerDead, shutdownVars
    <1>3. CASE ~Worker /\ ~Shutdown
          BY <1>3 DEF Next, Accept, Reject, CallerTimeout, RunCallback, CloseLoop,
             Terminated, vars, shutdownVars, WorkerDead
    <1>4. QED
          BY <1>1, <1>2, <1>3

\* The lattice rule of the temporal logic of actions over the natural numbers: what
\* leads to a goal or to a lower rank, from every rank, leads to the goal.  The rule
\* is valid, but it is an induction over temporal formulas, which the prover cannot
\* do: the theorems below have its instances as hypotheses, and prove its premise.
LatticeRule(AtRank(_), Goal) ==
    (\A n \in Nat : AtRank(n) ~> Goal \/ \E m \in 0..(n - 1) : AtRank(m))
        => ((\E n \in Nat : AtRank(n)) ~> Goal)

\* The joined worker is at most n of its steps, twice each, from its end.
StopsIn(n) == shut = "joining" /\ ~WorkerDead /\ Distance = n
Stopped == WorkerDead \/ joinTimedOut

StopsSooner(n) == \E m \in 0..(n - 1) : StopsIn(m)

\* While the worker is joined no step takes it away from its end, and its own steps
\* take it nearer.
LEMMA StoppingStep ==
    ASSUME IInv, Cursors, IInv', Cursors', [Next]_vars, NEW n \in Nat, StopsIn(n)
    PROVE  /\ StopsIn(n)' \/ StopsSooner(n)' \/ Stopped'
           /\ Worker => StopsSooner(n)' \/ Stopped'
    <1>1. Distance' \in Nat
          BY DistanceBoundNext DEF Bounded
    <1>2. Distance' <= Distance
          BY GettingOn DEF StopsIn, LoopHeld
    <1>3. Worker => Distance' < Distance
          BY GettingOn DEF StopsIn, IInv, TeardownPhase
    <1>4. shut' = "joining" \/ Stopped'
          <2>1. shut' \in {"joining", "cleaning"}
                BY ShutdownStages DEF StopsIn
          <2>2. shut' = "cleaning" => WorkerDead' \/ joinTimedOut'
                BY DEF IInv, TeardownPhase
          <2>3. QED
                BY <2>1, <2>2 DEF Stopped
    <1>5. CASE Stopped'
          BY <1>5
    <1>6. CASE shut' = "joining" /\ ~WorkerDead'
          <2>1. Distance' = n \/ Distance' \in 0..(n - 1)
                BY <1>1, <1>2 DEF StopsIn
          <2>2. Worker => Distance' \in 0..(n - 1)
                BY <1>1, <1>3 DEF StopsIn
          <2>3. QED
                BY <1>6, <2>1, <2>2 DEF StopsIn, StopsSooner
    <1>7. QED
          BY <1>4, <1>5, <1>6 DEF Stopped

\* The call of shutdown reaches the join.
LEMMA JoinReached ==
    FairSpec /\ []EngineGuardsSuffice =>
        (shutdownEvent ~> shut = "joining" \/ Stopped)
    <1> DEFINE Called  == shutdownEvent
               Putting == shut = "putting"
               Joining == shut = "joining"
               Later   == shut \in {"cleaning", "unloading", "releasing", "done"}
    <1>1. IInv => /\ Called => Putting \/ Joining \/ Later
                  /\ Later => Stopped
          BY DEF IInv, TypeOK, TeardownPhase, ShutdownStates, Stopped
    <1>2. [Next]_vars => (Putting => Putting' \/ Joining')
          BY ShutdownStages
    <1>3. <<ShutdownPut \/ ShutdownPutTimeout>>_vars => Joining'
          BY DEF ShutdownPut, ShutdownPutTimeout
    <1>4. IInv /\ EngineGuardsSuffice =>
             (Putting => ENABLED <<ShutdownPut \/ ShutdownPutTimeout>>_vars)
          BY SomeGuard DEF EngineGuardsSuffice
    <1>5. (shutdownEvent ~> shut = "joining" \/ Stopped)
             <=> (Called ~> Joining \/ Stopped)
          BY PTL
    <1> HIDE DEF Called, Putting, Joining, Later
    <1>6. QED
          BY <1>1, <1>2, <1>3, <1>4, <1>5, Inductive, PTL DEF FairSpec, Spec

\* A requested shutdown reaches the worker wherever it is, queue full or not, and
\* the thread ends (batch_processing_loop), for any capacity and any batch size.
THEOREM WorkerComesToItsEnd ==
    FairSpec /\ []EngineGuardsSuffice /\ LatticeRule(StopsIn, Stopped) => WorkerStops
    <1> DEFINE Premise == \A n \in Nat :
                             StopsIn(n) ~> Stopped \/ \E m \in 0..(n - 1) : StopsIn(m)
               Stopping == \E n \in Nat : StopsIn(n)
               Joining  == shut = "joining"
    <1>1. ASSUME NEW n \in Nat
          PROVE  FairSpec /\ []EngineGuardsSuffice =>
                    (StopsIn(n) ~> Stopped \/ \E m \in 0..(n - 1) : StopsIn(m))
          <2>1. IInv /\ Cursors /\ IInv' /\ Cursors' /\ [Next]_vars /\ StopsIn(n)
                   => StopsIn(n)' \/ StopsSooner(n)' \/ Stopped'
                BY StoppingStep
          <2>2. IInv /\ Cursors /\ IInv' /\ Cursors' /\ StopsIn(n)
                   /\ [Next]_vars /\ <<Worker>>_vars => StopsSooner(n)' \/ Stopped'
                BY StoppingStep
          <2>3. IInv /\ EngineGuardsSuffice /\ StopsIn(n) => ENABLED <<Worker>>_vars
                BY SomeGuard DEF EngineGuardsSuffice, StopsIn
          <2>4. FairSpec /\ []EngineGuardsSuffice =>
                   (StopsIn(n) ~> Stopped \/ StopsSooner(n))
                BY <2>1, <2>2, <2>3, CursorsInductive, PTL DEF FairSpec, Spec
          <2>5. QED
                BY <2>4, PTL DEF StopsSooner
    <1>2. FairSpec /\ []EngineGuardsSuffice => Premise
          BY <1>1
    <1>3. LatticeRule(StopsIn, Stopped) => (Premise => (Stopping ~> Stopped))
          BY DEF LatticeRule
    <1>4. IInv /\ Cursors => (Joining => Stopping \/ Stopped)
          BY DistanceBound DEF StopsIn, Stopped, Bounded
    <1>5. WorkerStops <=> (shutdownEvent ~> Stopped)
          BY PTL DEF WorkerStops, Stopped
    <1>6. FairSpec /\ []EngineGuardsSuffice => (shutdownEvent ~> Joining \/ Stopped)
          BY JoinReached
    <1> HIDE DEF Premise, Stopping, Joining
    <1>7. QED
          BY <1>2, <1>3, <1>4, <1>5, <1>6, CursorsInductive, PTL DEF FairSpec

\* Once requested, shutdown returns: it puts the sentinel or gives that up, the
\* worker it joins stops or is given up, and the model is unloaded.
THEOREM ShutdownComesBack ==
    FairSpec /\ []EngineGuardsSuffice /\ LatticeRule(StopsIn, Stopped)
        => ShutdownReturns
    <1> DEFINE Putting   == shut = "putting"
               Joining   == shut = "joining"
               Cleaning  == shut = "cleaning"
               Unloading == shut = "unloading"
               Releasing == shut = "releasing"
               Done      == shut = "done"
               Called    == shutdownEvent
               Dead      == WorkerDead
               GaveUp    == joinTimedOut
    <1>1. Spec => [](Called => Putting \/ Joining \/ Cleaning \/ Unloading \/ Releasing
                        \/ Done)
          <2>1. IInv => (Called => Putting \/ Joining \/ Cleaning \/ Unloading
                        \/ Releasing \/ Done)
                BY DEF IInv, TypeOK, TeardownPhase, ShutdownStates
          <2>2. QED
                BY <2>1, Inductive, PTL
    <1>2. Spec => [](Putting \/ Joining => Called)
          <2>1. IInv => (Putting \/ Joining => Called)
                BY DEF IInv, TeardownPhase
          <2>2. QED
                BY <2>1, Inductive, PTL
    <1>3. Spec => [](Joining => ~GaveUp)
          <2>1. Init => StillJoining
                BY DEF Init, StillJoining
          <2>2. StillJoining => (Joining => ~GaveUp)
                BY DEF StillJoining
          <2>3. QED
                BY <2>1, <2>2, StillJoiningStep, PTL DEF Spec
    <1>4. [Next]_vars =>
             /\ Putting => Putting' \/ Joining'
             /\ Joining => Joining' \/ Cleaning'
             /\ Cleaning => Cleaning' \/ Unloading'
             /\ Unloading => Unloading' \/ Releasing'
             /\ Releasing => Releasing' \/ Done'
             /\ Dead => Dead'
          BY ShutdownStages
    <1>5. /\ <<ShutdownPut \/ ShutdownPutTimeout>>_vars => Joining'
          /\ <<ShutdownJoin>>_vars => Cleaning'
          /\ Cleaning /\ <<Teardown>>_vars => Unloading'
          /\ Unloading /\ <<Teardown>>_vars => Releasing'
          /\ Releasing /\ <<Teardown>>_vars => Done'
          BY DEF ShutdownPut, ShutdownPutTimeout, ShutdownJoin, Teardown,
             ShutdownUnload, ShutdownCleanup, ShutdownRelease, ShutdownRaises
    <1>6. ShutdownEnabled =>
             /\ Putting => ENABLED <<ShutdownPut \/ ShutdownPutTimeout>>_vars
             /\ Joining /\ Dead => ENABLED <<ShutdownJoin>>_vars
             /\ Cleaning => ENABLED <<Teardown>>_vars
             /\ Unloading => ENABLED <<Teardown>>_vars
             /\ Releasing => ENABLED <<Teardown>>_vars
          BY Zenon DEF ShutdownEnabled
    <1>7. WorkerStops <=> (Called ~> Dead \/ GaveUp)
          BY PTL DEF WorkerStops
    <1>8. ShutdownReturns <=> (Called ~> Done)
          BY PTL DEF ShutdownReturns
    <1> HIDE DEF Putting, Joining, Cleaning, Unloading, Releasing, Done, Called, Dead,
       GaveUp
    <1>9. FairSpec /\ []ShutdownEnabled => (Putting ~> Joining)
          BY <1>4, <1>5, <1>6, PTL DEF FairSpec, Spec
    <1>10. FairSpec /\ []ShutdownEnabled /\ WorkerStops => (Joining ~> Cleaning)
          <2>1. FairSpec /\ WorkerStops => (Joining ~> Cleaning \/ (Joining /\ Dead))
                BY <1>2, <1>3, <1>4, <1>7, PTL DEF FairSpec, Spec
          <2>2. FairSpec /\ []ShutdownEnabled => ((Joining /\ Dead) ~> Cleaning)
                BY <1>4, <1>5, <1>6, PTL DEF FairSpec, Spec
          <2>3. QED
                BY <2>1, <2>2, PTL
    <1>11. FairSpec /\ []ShutdownEnabled => (Cleaning ~> Unloading)
          BY <1>4, <1>5, <1>6, PTL DEF FairSpec, Spec
    <1>12. FairSpec /\ []ShutdownEnabled => (Unloading ~> Releasing)
          BY <1>4, <1>5, <1>6, PTL DEF FairSpec, Spec
    <1>13. FairSpec /\ []ShutdownEnabled => (Releasing ~> Done)
          BY <1>4, <1>5, <1>6, PTL DEF FairSpec, Spec
    <1>14. FairSpec /\ []ShutdownEnabled => (Cleaning \/ Unloading \/ Releasing ~> Done)
          BY <1>11, <1>12, <1>13, PTL
    <1>15. FairSpec /\ []EngineGuardsSuffice => []ShutdownEnabled
          <2>1. IInv /\ EngineGuardsSuffice => ShutdownEnabled
                BY SomeGuard DEF EngineGuardsSuffice, ShutdownEnabled
          <2>2. QED
                BY <2>1, Inductive, PTL DEF FairSpec
    <1>16. QED
          BY <1>1, <1>8, <1>9, <1>10, <1>14, <1>15, WorkerComesToItsEnd, PTL
          DEF FairSpec
=============================================================================
