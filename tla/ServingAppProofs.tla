-------------------------- MODULE ServingAppProofs --------------------------
(***************************************************************************)
(* Proofs about ServingApp: its steps are steps of the engine, and clients *)
(* are told the truth.                                                     *)
(***************************************************************************)
EXTENDS ServingApp, InferenceEngineProofs

-----------------------------------------------------------------------------
(* The application implements the engine's specification.                  *)

\* A step of the application is a step of the engine or leaves it alone.
LEMMA AppStepIsEngineStep == [AppNext]_allVars => [Next]_vars
    <1> SUFFICES ASSUME AppNext \/ UNCHANGED allVars
                 PROVE  Next \/ UNCHANGED vars
        OBVIOUS
    <1>1. CASE \E r \in Requests :
                  \/ Connect(r) \/ RefuseRequest(r) \/ RefuseNotReady(r)
                  \/ RefuseFull(r) \/ StartReading(r) \/ ReadFails(r) \/ Resume(r)
          BY <1>1 DEF Connect, RefuseRequest, RefuseNotReady, RefuseFull, StartReading,
             ReadFails, Resume
    <1>2. CASE \E r \in Requests : Submit(r) \/ SubmitFull(r) \/ TimerFires(r)
          BY <1>2 DEF Submit, SubmitFull, TimerFires, Next
    <1>3. CASE StartDraining \/ UNCHANGED allVars
          BY <1>3 DEF StartDraining, allVars
    <1>4. CASE LifespanShutdown \/ LoopEnds \/ EngineStep
          BY <1>4 DEF LifespanShutdown, LoopEnds, EngineStep, Next, Shutdown
    <1>5. QED
          BY <1>1, <1>2, <1>3, <1>4 DEF AppNext

\* What holds of the engine holds in the application: each of AppNext's actions is
\* built from one of the engine's or leaves the engine alone.
LEMMA AppImplementsEngine == AppSpec => Spec
    <1>1. AppInit => Init
          BY DEF AppInit
    <1>2. QED
          BY <1>1, AppStepIsEngineStep, PTL DEF AppSpec, Spec

-----------------------------------------------------------------------------
(* The inductive invariant of the application: how the future of a request *)
(* and its handler hang together.                                          *)

HandlerTypes ==
    /\ handler \in [Requests -> HandlerStates]
    /\ response \in [Requests -> StatusCodes \cup {0}]
    /\ expired \in [Requests -> BOOLEAN]

\* Before the submission nothing has happened to the request in the engine.
NotSubmitted(r) ==
    handler[r] \in {"absent", "receiving", "reading"} =>
        future[r] = "none" /\ response[r] = 0 /\ ~expired[r]

\* While the handler waits, the future is pending, or resolved, or cancelled by
\* the handler's own timer.
Waiting(r) ==
    handler[r] = "awaiting" =>
        /\ response[r] = 0
        /\ r \notin BadDims
        /\ \/ future[r] = "pending" /\ ~expired[r]
           \/ future[r] = "cancelled" /\ expired[r]
           \/ future[r] \in Outcomes

\* Afterwards the future is final, and the response was derived from it.
Finished(r) ==
    /\ handler[r] \in {"responded", "aborted"} => future[r] # "pending"
    /\ handler[r] = "aborted" => response[r] = 0
    /\ handler[r] = "responded" =>
          /\ response[r] # 0
          /\ response[r] = 200 => future[r] = "answered" /\ ~expired[r]
          /\ response[r] = 429 => future[r] \in {"none", "rejected"}
          /\ response[r] = 504 <=> expired[r]
          /\ response[r] = 500 => future[r] \in {"unreadable", "failed"}

AppIInv ==
    /\ IInv
    /\ HandlerTypes
    /\ \A r \in Requests : NotSubmitted(r) /\ Waiting(r) /\ Finished(r)

\* The initial state satisfies the invariant.
LEMMA InitAppIInv == AppInit => AppIInv
    <1> SUFFICES ASSUME AppInit
                 PROVE  AppIInv
        OBVIOUS
    <1>1. IInv
          BY InitIInv DEF AppInit
    <1>2. HandlerTypes
          BY DEF AppInit, HandlerTypes, HandlerStates
    <1>3. \A r \in Requests : NotSubmitted(r) /\ Waiting(r) /\ Finished(r)
          BY DEF AppInit, Init, NotSubmitted, Waiting, Finished
    <1>4. QED
          BY <1>1, <1>2, <1>3 DEF AppIInv

\* What a response does to the handler of r; nothing happens to the others.
LEMMA Responded ==
    ASSUME HandlerTypes, NEW r \in Requests, NEW code \in StatusCodes,
           Respond(r, code)
    PROVE  /\ HandlerTypes'
           /\ handler'[r] = "responded"
           /\ response'[r] = code
           /\ code # 0
           /\ expired' = expired
           /\ \A q \in Requests \ {r} :
                 handler'[q] = handler[q] /\ response'[q] = response[q]
    BY DEF Respond, HandlerTypes, HandlerStates, StatusCodes

\* A request whose handler, response and timer are as before, and whose future
\* is as before, is linked as before.
LEMMA Untouched ==
    ASSUME NEW r \in Requests, NotSubmitted(r), Waiting(r), Finished(r),
           handler'[r] = handler[r], response'[r] = response[r],
           expired'[r] = expired[r], future'[r] = future[r]
    PROVE  NotSubmitted(r)' /\ Waiting(r)' /\ Finished(r)'
    BY DEF NotSubmitted, Waiting, Finished

Linked == \A r \in Requests : NotSubmitted(r) /\ Waiting(r) /\ Finished(r)

\* Requests answered before they reach the engine.
LEMMA RefusalLinked ==
    ASSUME AppIInv, NEW r \in Requests,
           RefuseRequest(r) \/ RefuseNotReady(r) \/ RefuseFull(r) \/ ReadFails(r)
    PROVE  HandlerTypes' /\ Linked'
    <1>1. PICK code \in {400, 401, 413, 422, 429, 503} : Respond(r, code)
          BY DEF RefuseRequest, RefuseNotReady, RefuseFull, ReadFails
    <1>2. /\ handler[r] \in {"receiving", "reading"}
          /\ future' = future
          BY DEF RefuseRequest, RefuseNotReady, RefuseFull, ReadFails, Arriving, vars,
             loopVars
    <1>3. future[r] = "none" /\ ~expired[r]
          BY <1>2 DEF AppIInv, NotSubmitted
    <1>4. /\ HandlerTypes'
          /\ handler'[r] = "responded" /\ response'[r] = code /\ expired' = expired
          /\ \A q \in Requests \ {r} :
                handler'[q] = handler[q] /\ response'[q] = response[q]
          BY <1>1, Responded DEF AppIInv, StatusCodes
    <1>5. NotSubmitted(r)' /\ Waiting(r)' /\ Finished(r)'
          BY <1>2, <1>3, <1>4 DEF NotSubmitted, Waiting, Finished
    <1>6. \A q \in Requests \ {r} : NotSubmitted(q)' /\ Waiting(q)' /\ Finished(q)'
          BY <1>2, <1>4, Untouched DEF AppIInv
    <1>7. QED
          BY <1>4, <1>5, <1>6 DEF Linked

\* A request on its way into the engine.
LEMMA SubmissionLinked ==
    ASSUME AppIInv, NEW r \in Requests,
           Connect(r) \/ StartReading(r) \/ Submit(r) \/ SubmitFull(r)
    PROVE  HandlerTypes' /\ Linked'
    <1>1. NotSubmitted(r) /\ Waiting(r) /\ Finished(r) /\ HandlerTypes
          BY DEF AppIInv
    <1>2. future \in [Requests -> FutureStatus]
          BY DEF AppIInv, IInv, TypeOK
    <1>3. CASE Connect(r) \/ StartReading(r)
          <2>1. PICK next \in {"receiving", "reading"} :
                   /\ handler[r] \in {"absent", "receiving"}
                   /\ handler' = [handler EXCEPT ![r] = next]
                   /\ UNCHANGED <<future, response, expired>>
                BY <1>3 DEF Connect, StartReading, Arriving, vars, loopVars
          <2>2. HandlerTypes'
                BY <1>1, <2>1 DEF HandlerTypes, HandlerStates, InFlight
          <2>3. \A q \in Requests \ {r} : handler'[q] = handler[q]
                BY <1>1, <2>1 DEF HandlerTypes
          <2>4. handler'[r] = next
                BY <1>1, <2>1 DEF HandlerTypes
          <2>5. NotSubmitted(r)' /\ Waiting(r)' /\ Finished(r)'
                BY <1>1, <2>1, <2>4 DEF NotSubmitted, Waiting, Finished
          <2>6. QED
                BY <2>1, <2>2, <2>3, <2>5, Untouched DEF AppIInv, Linked
    <1>4. CASE Submit(r)
          <2>1. /\ handler[r] = "reading" /\ r \notin BadDims
                /\ handler' = [handler EXCEPT ![r] = "awaiting"]
                /\ future' = [future EXCEPT ![r] = "pending"]
                /\ UNCHANGED <<response, expired>>
                BY <1>4 DEF Submit, Accept
          <2>2. HandlerTypes'
                BY <1>1, <2>1 DEF HandlerTypes, HandlerStates, InFlight
          <2>3. \A q \in Requests \ {r} :
                   handler'[q] = handler[q] /\ future'[q] = future[q]
                BY <1>1, <1>2, <2>1 DEF HandlerTypes
          <2>4. handler'[r] = "awaiting" /\ future'[r] = "pending"
                BY <1>1, <1>2, <2>1 DEF HandlerTypes
          <2>5. NotSubmitted(r)' /\ Waiting(r)' /\ Finished(r)'
                BY <1>1, <2>1, <2>4 DEF NotSubmitted, Waiting, Finished
          <2>6. QED
                BY <2>1, <2>2, <2>3, <2>5, Untouched DEF AppIInv, Linked
    <1>5. CASE SubmitFull(r)
          <2>1. /\ handler[r] = "reading"
                /\ Respond(r, 429)
                /\ future' = [future EXCEPT ![r] = "rejected"]
                BY <1>5 DEF SubmitFull, Reject
          <2>2. /\ HandlerTypes'
                /\ handler'[r] = "responded" /\ response'[r] = 429
                /\ expired' = expired
                /\ \A q \in Requests \ {r} :
                      handler'[q] = handler[q] /\ response'[q] = response[q]
                BY <1>1, <2>1, Responded DEF StatusCodes
          <2>3. \A q \in Requests \ {r} : future'[q] = future[q]
                BY <1>2, <2>1
          <2>4. future'[r] = "rejected"
                BY <1>2, <2>1
          <2>5. NotSubmitted(r)' /\ Waiting(r)' /\ Finished(r)'
                BY <1>1, <2>1, <2>2, <2>4 DEF NotSubmitted, Waiting, Finished
          <2>6. QED
                BY <2>2, <2>3, <2>5, Untouched DEF AppIInv, Linked
    <1>6. QED
          BY <1>3, <1>4, <1>5

\* The race of the timer and the answer.
LEMMA AwaitingLinked ==
    ASSUME AppIInv, NEW r \in Requests, TimerFires(r) \/ Resume(r)
    PROVE  HandlerTypes' /\ Linked'
    <1>1. NotSubmitted(r) /\ Waiting(r) /\ Finished(r) /\ HandlerTypes
          BY DEF AppIInv
    <1>2. future \in [Requests -> FutureStatus]
          BY DEF AppIInv, IInv, TypeOK
    <1>3. handler[r] = "awaiting"
          BY DEF TimerFires, Resume
    <1>4. CASE TimerFires(r)
          <2>1. /\ expired' = [expired EXCEPT ![r] = TRUE]
                /\ UNCHANGED <<handler, response>>
                BY <1>4 DEF TimerFires
          <2>2. \/ future' = [future EXCEPT ![r] = "cancelled"]
                \/ future[r] \in Outcomes /\ future' = future
                BY <1>4 DEF TimerFires, CallerTimeout, vars, loopVars
          <2>3. HandlerTypes'
                BY <1>1, <2>1 DEF HandlerTypes
          <2>4. \A q \in Requests \ {r} :
                   expired'[q] = expired[q] /\ future'[q] = future[q]
                BY <1>1, <1>2, <2>1, <2>2 DEF HandlerTypes
          <2>5. expired'[r] /\ (future'[r] = "cancelled" \/ future'[r] \in Outcomes)
                BY <1>1, <1>2, <2>1, <2>2 DEF HandlerTypes
          <2>6. NotSubmitted(r)' /\ Waiting(r)' /\ Finished(r)'
                BY <1>1, <1>3, <2>1, <2>5 DEF NotSubmitted, Waiting, Finished, Outcomes
          <2>7. QED
                BY <2>1, <2>3, <2>4, <2>6, Untouched DEF AppIInv, Linked
    <1>5. CASE Resume(r)
          <2>1. future[r] # "pending" /\ future' = future
                BY <1>5 DEF Resume, vars, loopVars
          <2> DEFINE code == IF expired[r] THEN 504
                             ELSE IF future[r] = "answered" THEN 200 ELSE 500
          <2>2. code \in StatusCodes /\ Respond(r, code)
                BY <1>5 DEF Resume, StatusCodes
          <2>3. /\ HandlerTypes'
                /\ handler'[r] = "responded" /\ response'[r] = code
                /\ expired' = expired
                /\ \A q \in Requests \ {r} :
                      handler'[q] = handler[q] /\ response'[q] = response[q]
                BY ONLY <1>1, <2>2, Responded, r \in Requests
          \* Dimensions were validated before the submission, so the engine's
          \* ValueError cannot be what the handler gets.
          <2>4. future[r] # "invalid"
                BY <1>1, <1>3 DEF Waiting, AppIInv, IInv, OutcomesProper, Proper
          <2>5. future[r] \in Outcomes \/ expired[r]
                BY <1>1, <1>3, <2>1 DEF Waiting
          <2>6. NotSubmitted(r)' /\ Waiting(r)' /\ Finished(r)'
                <3>1. CASE expired[r]
                      BY <2>1, <2>3, <3>1 DEF NotSubmitted, Waiting, Finished
                <3>2. CASE ~expired[r] /\ future[r] = "answered"
                      BY <2>1, <2>3, <3>2 DEF NotSubmitted, Waiting, Finished
                <3>3. CASE ~expired[r] /\ future[r] # "answered"
                      BY <2>1, <2>3, <2>4, <2>5, <3>3
                      DEF NotSubmitted, Waiting, Finished, Outcomes
                <3>4. QED
                      BY <3>1, <3>2, <3>3
          <2>7. QED
                BY <2>1, <2>3, <2>6, Untouched DEF AppIInv, Linked
    <1>6. QED
          BY <1>4, <1>5

\* The loop's end cancels what is pending and cuts off who is waiting.
LEMMA LoopEndsLinked ==
    ASSUME AppIInv, LoopEnds
    PROVE  HandlerTypes' /\ Linked'
    <1>1. /\ \A q \in Requests : handler'[q] = IF handler[q] \in InFlight
                                                 THEN "aborted" ELSE handler[q]
          /\ \A q \in Requests : future'[q] = IF future[q] = "pending"
                                                THEN "cancelled" ELSE future[q]
          /\ UNCHANGED <<response, expired>>
          BY DEF LoopEnds, CloseLoop
    <1>2. HandlerTypes'
          BY DEF LoopEnds, AppIInv, HandlerTypes, HandlerStates
    <1>3. ASSUME NEW q \in Requests
          PROVE  NotSubmitted(q)' /\ Waiting(q)' /\ Finished(q)'
          <2>1. NotSubmitted(q) /\ Waiting(q) /\ Finished(q)
                /\ handler[q] \in HandlerStates
                BY DEF AppIInv, HandlerTypes
          <2>2. CASE handler[q] \in InFlight
                BY <1>1, <2>1, <2>2
                DEF NotSubmitted, Waiting, Finished, InFlight, HandlerStates
          <2>3. CASE handler[q] \notin InFlight
                <3>1. future[q] # "pending" /\ handler'[q] = handler[q]
                      BY <1>1, <2>1, <2>3 DEF HandlerStates, InFlight, NotSubmitted,
                         Finished
                <3>2. QED
                      BY <1>1, <2>1, <3>1, Untouched
          <2>4. QED
                BY <2>2, <2>3
    <1>4. QED
          BY <1>2, <1>3 DEF Linked

\* Steps of the engine that no handler takes part in.
LEMMA EngineStepLinked ==
    ASSUME AppIInv, EngineStep
    PROVE  HandlerTypes' /\ Linked'
    <1>1. UNCHANGED <<handler, response, expired>>
          BY DEF EngineStep, appVars
    <1>2. CASE RunCallback
          <2> DEFINE cb == Head(callbacks)
          <2>0. callbacks \in Seq(Callback) /\ callbacks # <<>>
                BY <1>2 DEF RunCallback, AppIInv, IInv, TypeOK
          <2>1. cb.req \in Requests /\ cb.status \in Outcomes
                <3>1. cb \in Callback
                      BY <2>0, HeadTail
                <3>2. QED
                      BY <3>1 DEF Callback
          <2>2. future' = future \/ /\ future[cb.req] = "pending"
                                    /\ future' = [future EXCEPT ![cb.req] = cb.status]
                BY <1>2 DEF RunCallback
          <2>3. ASSUME NEW q \in Requests
                PROVE  NotSubmitted(q)' /\ Waiting(q)' /\ Finished(q)'
                <3>1. NotSubmitted(q) /\ Waiting(q) /\ Finished(q)
                      /\ handler[q] \in HandlerStates
                      BY DEF AppIInv, HandlerTypes
                <3>2. CASE future'[q] = future[q]
                      BY <1>1, <3>1, <3>2, Untouched
                <3>3. CASE future[q] = "pending" /\ future'[q] \in Outcomes
                      BY <1>1, <3>1, <3>3 DEF NotSubmitted, Waiting, Finished,
                         HandlerStates, InFlight, Outcomes
                <3>4. QED
                      BY <2>1, <2>2, <3>2, <3>3 DEF AppIInv, IInv, TypeOK
          <2>4. QED
                BY <1>1, <2>3 DEF AppIInv, HandlerTypes, Linked
    <1>3. CASE Worker \/ Shutdown \/ Terminated
          <2>1. future' = future
                BY <1>3 DEF Worker, WStart, WAnnounce, WPoll, WGetTimeout, WGetSentinel,
                   WRefuseFirst, WTakeFirst, WRefuseNext, WTakeNext, Refuse, Take,
                   WMeetSentinel, WRequeue, WDispatch, WPreprocess, WPreprocessFails,
                   WNothingValid, WPreprocessed, WPredict, WPredictFails, WDeliver,
                   WFail, WBatchEnd, Shutdown, ShutdownBegin, ShutdownPut,
                   ShutdownPutTimeout, ShutdownJoin, ShutdownJoinTimeout,
                   Teardown, ShutdownUnload, ShutdownCleanup, ShutdownRelease,
                   ShutdownRaises, Terminated, vars, loopVars
          <2>2. QED
                BY <1>1, <2>1, Untouched DEF AppIInv, HandlerTypes, Linked
    <1>4. QED
          BY <1>2, <1>3 DEF EngineStep

\* Every step of the application preserves the invariant.
LEMMA NextAppIInv == AppIInv /\ [AppNext]_allVars => AppIInv'
    <1> SUFFICES ASSUME AppIInv, [AppNext]_allVars
                 PROVE  AppIInv'
        OBVIOUS
    <1>1. IInv'
          BY AppStepIsEngineStep, NextIInv DEF AppIInv
    <1>2. HandlerTypes' /\ Linked'
          <2>1. CASE UNCHANGED <<handler, response, expired, future>>
                BY <2>1, Untouched DEF AppIInv, HandlerTypes, Linked
          <2>2. CASE StartDraining \/ UNCHANGED allVars
                BY <2>1, <2>2 DEF StartDraining, allVars, appVars, vars, loopVars
          <2>3. CASE LifespanShutdown
                BY <2>1, <2>3 DEF LifespanShutdown, ShutdownBegin, appVars, loopVars
          <2>4. QED
                BY <2>2, <2>3, RefusalLinked, SubmissionLinked, AwaitingLinked,
                   LoopEndsLinked, EngineStepLinked
                DEF AppNext
    <1>3. QED
          BY <1>1, <1>2 DEF AppIInv, Linked

\* The invariant of the application holds in all its states.
THEOREM AppInductive == AppSpec => []AppIInv
    BY InitAppIInv, NextAppIInv, PTL DEF AppSpec

\* Clients are told the truth: a 200 carries the client's own result, computed
\* in time; a 429 means the request was never worked on; a 504 is a timeout and
\* a 500 a failure of preprocessing or of the model.
THEOREM ClientsToldTruth == AppSpec => []ResponseTruthful
    <1>1. AppIInv => ResponseTruthful
          <2> SUFFICES ASSUME AppIInv, NEW r \in Requests
                       PROVE  /\ response[r] = 200 =>
                                    future[r] = "answered" /\ row[r] = r /\ ~expired[r]
                              /\ response[r] = 429 => future[r] \in {"none", "rejected"}
                              /\ response[r] = 504 <=>
                                    handler[r] = "responded" /\ expired[r]
                              /\ response[r] = 500 =>
                                    future[r] \in {"unreadable", "failed"}
              BY DEF ResponseTruthful
          <2>1. NotSubmitted(r) /\ Waiting(r) /\ Finished(r)
                /\ handler[r] \in HandlerStates
                BY DEF AppIInv, HandlerTypes
          <2>2. future[r] = "answered" => row[r] = r
                BY DEF AppIInv, IInv, OutcomesProper, Proper
          <2>3. CASE handler[r] = "responded"
                BY <2>1, <2>2, <2>3 DEF Finished
          <2>4. CASE handler[r] # "responded"
                BY <2>1, <2>4 DEF NotSubmitted, Waiting, Finished, HandlerStates,
                   InFlight
          <2>5. QED
                BY <2>3, <2>4
    <1>2. QED
          BY <1>1, AppInductive, PTL

\* No request is pending for nobody: its handler awaits it with a running timer.
THEOREM PendingAwaited == AppSpec => []PendingIsAwaited
    <1>1. AppIInv => PendingIsAwaited
          <2> SUFFICES ASSUME AppIInv, NEW r \in Requests, future[r] = "pending"
                       PROVE  handler[r] = "awaiting" /\ ~expired[r]
              BY DEF PendingIsAwaited
          <2>1. NotSubmitted(r) /\ Waiting(r) /\ Finished(r)
                /\ handler[r] \in HandlerStates
                BY DEF AppIInv, HandlerTypes
          <2>2. QED
                BY <2>1 DEF NotSubmitted, Waiting, Finished, HandlerStates, InFlight,
                   Outcomes
    <1>2. QED
          BY <1>1, AppInductive, PTL
=============================================================================
