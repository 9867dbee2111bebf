------------------------- MODULE ServingDrainProofs -------------------------
(***************************************************************************)
(* More proofs about ServingApp: shutdown finds no client waiting, the     *)
(* probes do not flap, the counters count what they say; no client is ever *)
(* stuck and every one is answered, saturation passes and draining ends.   *)
(***************************************************************************)
EXTENDS ServingAppProofs, CustodyProofs, FiniteSetTheorems

\* Shutdown begins when the last handler is gone; only a forced exit aborts one,
\* and then shutdown never begins.  Who has an answer although the engine has
\* cancelled the future was timed out.
DrainPhase ==
    /\ shut # "idle" => draining /\ \A r \in Requests : handler[r] \notin InFlight
    /\ \A r \in Requests :
          /\ handler[r] = "aborted" => ~loopOpen /\ shut = "idle"
          /\ handler[r] = "responded" /\ future[r] = "cancelled" => expired[r]

\* Each 429 was counted once, each counted response is one.
Told(codes) == {r \in Requests : response[r] \in codes}

Counted ==
    /\ rejectedCount = Cardinality(Told({429}))
    /\ requestCount \in Nat
    /\ requestCount <= Cardinality(Told(StatusCodes))
    /\ draining \in BOOLEAN

DInv == AppIInv /\ CInv /\ DrainPhase /\ Counted

-----------------------------------------------------------------------------
(* Draining.                                                               *)

\* The handlers' own steps: while one runs, shutdown has not begun.
LEMMA HandlerDrain ==
    ASSUME DInv, NEW r \in Requests,
           \/ Connect(r) \/ RefuseRequest(r) \/ RefuseNotReady(r) \/ RefuseFull(r)
           \/ StartReading(r) \/ ReadFails(r) \/ Submit(r) \/ SubmitFull(r)
           \/ TimerFires(r) \/ Resume(r)
    PROVE  DrainPhase'
    <1> USE DEF DInv
    <1>1. /\ NotSubmitted(r) /\ Waiting(r) /\ HandlerTypes
          /\ future \in [Requests -> FutureStatus]
          BY DEF AppIInv, IInv, TypeOK
    <1>2. shut = "idle" /\ loopOpen
          BY DEF DrainPhase, Connect, RefuseRequest, RefuseNotReady, RefuseFull,
             StartReading, ReadFails, Submit, SubmitFull, TimerFires, Resume, Arriving,
             Accept, Reject, CallerTimeout, LoopFree, InFlight
    <1>3. UNCHANGED <<shut, loopOpen, draining>>
          BY DEF Connect, RefuseRequest, RefuseNotReady, RefuseFull, StartReading,
             ReadFails, Submit, SubmitFull, TimerFires, Resume, Respond, Accept, Reject,
             CallerTimeout, vars, loopVars, shutdownVars
    <1>4. ASSUME NEW q \in Requests \ {r}
          PROVE  /\ handler'[q] = handler[q] /\ future'[q] = future[q]
                 /\ expired'[q] = expired[q]
          BY <1>1 DEF Connect, RefuseRequest, RefuseNotReady, RefuseFull, StartReading,
             ReadFails, Submit, SubmitFull, TimerFires, Resume, Respond, Accept, Reject,
             CallerTimeout, vars, loopVars, HandlerTypes
    <1>5. handler'[r] # "aborted"
          BY <1>1, <1>2 DEF DrainPhase, Connect, RefuseRequest, RefuseNotReady,
             RefuseFull, StartReading, ReadFails, Submit, SubmitFull, TimerFires,
             Resume, Respond, HandlerTypes
    <1>6. handler'[r] = "responded" /\ future'[r] = "cancelled" => expired'[r]
          <2>1. CASE Connect(r) \/ StartReading(r) \/ Submit(r) \/ TimerFires(r)
                BY <1>1, <2>1 DEF Connect, StartReading, Submit, TimerFires,
                   HandlerTypes
          <2>2. CASE RefuseRequest(r) \/ RefuseNotReady(r) \/ RefuseFull(r)
                     \/ ReadFails(r)
                BY <1>1, <2>2 DEF RefuseRequest, RefuseNotReady, RefuseFull, ReadFails,
                   Arriving, NotSubmitted, vars, loopVars
          <2>3. CASE SubmitFull(r)
                BY <1>1, <2>3 DEF SubmitFull, Reject
          <2>4. CASE Resume(r)
                BY <1>1, <2>4 DEF Resume, Waiting, Respond, Outcomes, vars, loopVars
          <2>5. QED
                BY <2>1, <2>2, <2>3, <2>4
    <1>7. QED
          BY <1>2, <1>3, <1>4, <1>5, <1>6 DEF DrainPhase

\* Every step preserves DrainPhase.
LEMMA DrainStep == DInv /\ [AppNext]_allVars => DrainPhase'
    <1> SUFFICES ASSUME DInv, [AppNext]_allVars
                 PROVE  DrainPhase'
        OBVIOUS
    <1> USE DEF DInv
    <1>1. CASE StartDraining \/ UNCHANGED allVars
          BY <1>1 DEF StartDraining, allVars, appVars, vars, loopVars, shutdownVars,
             DrainPhase
    <1>2. CASE LifespanShutdown
          BY <1>2 DEF LifespanShutdown, ShutdownBegin, appVars, loopVars, DrainPhase,
             InFlight
    <1>3. CASE LoopEnds
          <2>1. /\ UNCHANGED <<shut, expired, draining>> /\ ~loopOpen'
                /\ \A q \in Requests : handler'[q] = IF handler[q] \in InFlight
                                                       THEN "aborted" ELSE handler[q]
                /\ \A q \in Requests : future'[q] = IF future[q] = "pending"
                                                      THEN "cancelled" ELSE future[q]
                BY <1>3 DEF LoopEnds, CloseLoop, shutdownVars
          <2>2. \A q \in Requests : handler[q] = "responded" => future[q] # "pending"
                BY DEF AppIInv, Finished
          <2>3. QED
                BY <2>1, <2>2 DEF DrainPhase, InFlight
    <1>4. CASE EngineStep
          <2>1. UNCHANGED <<handler, expired, draining>>
                BY <1>4 DEF EngineStep, appVars
          <2>2. (shut = "idle" => shut' = "idle") /\ loopOpen' = loopOpen
                BY <1>4 DEF EngineStep, RunCallback, Worker, WStart, WAnnounce, WPoll,
                   WGetTimeout, WGetSentinel, WRefuseFirst, WTakeFirst, WRefuseNext,
                   WTakeNext, Refuse, Take, WMeetSentinel, WRequeue, WDispatch,
                   WPreprocess, WPreprocessFails, WNothingValid, WPreprocessed,
                   WPredict, WPredictFails, WDeliver, WFail, WBatchEnd, Shutdown,
                   ShutdownBegin, ShutdownPut, ShutdownPutTimeout, ShutdownJoin,
                   ShutdownJoinTimeout, Teardown, ShutdownUnload, ShutdownCleanup,
                   ShutdownRelease, ShutdownRaises, Terminated, vars, loopVars,
                   shutdownVars
          <2>3. \A q \in Requests : handler[q] = "aborted" => shut' = "idle"
                BY <1>4, <2>2 DEF DrainPhase
          <2>4. \A q \in Requests : future'[q] = "cancelled" => future[q] = "cancelled"
                <3>1. CASE RunCallback
                      <4>1. callbacks \in Seq(Callback) /\ callbacks # <<>>
                            BY <3>1 DEF RunCallback, AppIInv, IInv, TypeOK
                      <4>2. Head(callbacks) \in Callback
                            BY <4>1, HeadTail
                      <4>3. Head(callbacks).status # "cancelled"
                            BY <4>2 DEF Callback, Outcomes
                      <4>4. QED
                            BY <3>1, <4>3 DEF RunCallback, AppIInv, IInv, TypeOK
                <3>2. CASE Worker \/ Shutdown \/ Terminated
                      BY <3>2 DEF Worker, WStart, WAnnounce, WPoll, WGetTimeout,
                         WGetSentinel, WRefuseFirst, WTakeFirst, WRefuseNext,
                         WTakeNext, Refuse, Take, WMeetSentinel, WRequeue, WDispatch,
                         WPreprocess, WPreprocessFails, WNothingValid, WPreprocessed,
                         WPredict, WPredictFails, WDeliver, WFail, WBatchEnd, Shutdown,
                         ShutdownBegin, ShutdownPut, ShutdownPutTimeout, ShutdownJoin,
                         ShutdownJoinTimeout, Teardown, ShutdownUnload,
                         ShutdownCleanup, ShutdownRelease, ShutdownRaises, Terminated,
                         vars, loopVars
                <3>3. QED
                      BY <1>4, <3>1, <3>2 DEF EngineStep
          <2>5. QED
                BY <2>1, <2>2, <2>3, <2>4 DEF DrainPhase
    <1>5. QED
          BY <1>1, <1>2, <1>3, <1>4, HandlerDrain DEF AppNext

-----------------------------------------------------------------------------
(* Counting.                                                               *)

\* A request that gets its answer joins those told the code, and no others.
LEMMA ToldOneMore ==
    ASSUME HandlerTypes, NEW r \in Requests, NEW code \in StatusCodes,
           response[r] = 0, response' = [response EXCEPT ![r] = code]
    PROVE  \A codes \in SUBSET StatusCodes :
              /\ code \in codes =>
                    /\ Told(codes)' = Told(codes) \cup {r}
                    /\ Cardinality(Told(codes)') = Cardinality(Told(codes)) + 1
              /\ code \notin codes => Told(codes)' = Told(codes)
    <1> SUFFICES ASSUME NEW codes \in SUBSET StatusCodes
                 PROVE  /\ code \in codes =>
                              /\ Told(codes)' = Told(codes) \cup {r}
                              /\ Cardinality(Told(codes)')
                                    = Cardinality(Told(codes)) + 1
                        /\ code \notin codes => Told(codes)' = Told(codes)
        OBVIOUS
    <1>1. r \notin Told(codes)
          BY DEF Told, StatusCodes
    <1>2. IsFiniteSet(Told(codes))
          BY FS_Subset, AppAssumption DEF Told
    <1>3. \A q \in Requests : response'[q] = IF q = r THEN code ELSE response[q]
          BY DEF HandlerTypes
    <1>4. code \in codes => Told(codes)' = Told(codes) \cup {r}
          BY <1>3 DEF Told
    <1>5. code \notin codes => Told(codes)' = Told(codes)
          BY <1>1, <1>3 DEF Told
    <1>6. Cardinality(Told(codes) \cup {r}) = Cardinality(Told(codes)) + 1
          BY <1>1, <1>2, FS_AddElement
    <1>7. QED
          BY <1>4, <1>5, <1>6

\* One response keeps the books: the middleware counts it unless it is a 500,
\* and the rejection counter goes up with a 429.
LEMMA ResponseCounted ==
    ASSUME DInv, NEW r \in Requests, NEW code \in StatusCodes, Respond(r, code),
           response[r] = 0,
           rejectedCount' = IF code = 429 THEN rejectedCount + 1 ELSE rejectedCount
    PROVE  Counted'
    <1>1. response' = [response EXCEPT ![r] = code] /\ HandlerTypes
          BY DEF Respond, DInv, AppIInv
    <1>2. Cardinality(Told(StatusCodes)') = Cardinality(Told(StatusCodes)) + 1
          BY <1>1, ToldOneMore
    <1>3. {429} \in SUBSET StatusCodes
          BY DEF StatusCodes
    <1>4. rejectedCount' = Cardinality(Told({429})')
          <2>1. /\ code \in {429} => Cardinality(Told({429})')
                                        = Cardinality(Told({429})) + 1
                /\ code \notin {429} => Told({429})' = Told({429})
                <3> DEFINE codes == {429}
                <3>1. codes \in SUBSET StatusCodes
                      BY <1>3
                <3> HIDE DEF codes
                <3>2. /\ code \in codes => Cardinality(Told(codes)')
                                              = Cardinality(Told(codes)) + 1
                      /\ code \notin codes => Told(codes)' = Told(codes)
                      BY <1>1, <3>1, ToldOneMore
                <3>3. QED
                      BY <3>2 DEF codes
          <2>2. rejectedCount = Cardinality(Told({429}))
                BY DEF DInv, Counted
          <2>3. CASE code = 429
                BY <2>1, <2>2, <2>3
          <2>4. CASE code # 429
                BY <2>1, <2>2, <2>4
          <2>5. QED
                BY <2>3, <2>4
    <1>5. Cardinality(Told(StatusCodes)) \in Nat
          <2>1. IsFiniteSet(Told(StatusCodes))
                BY FS_Subset, AppAssumption DEF Told
          <2>2. QED
                BY <2>1, FS_CardinalityType
    <1>6. requestCount' \in Nat /\ requestCount' <= Cardinality(Told(StatusCodes)')
          BY <1>2, <1>5 DEF Respond, DInv, Counted
    <1>7. draining' \in BOOLEAN
          BY DEF Respond, DInv, Counted
    <1>8. QED
          BY <1>4, <1>6, <1>7 DEF Counted

\* Every step preserves Counted.
LEMMA CountedStep == DInv /\ [AppNext]_allVars => Counted'
    <1> SUFFICES ASSUME DInv, [AppNext]_allVars
                 PROVE  Counted'
        OBVIOUS
    <1>1. ASSUME UNCHANGED <<response, requestCount, rejectedCount>>,
                 draining' \in BOOLEAN
          PROVE  Counted'
          BY <1>1 DEF DInv, Counted, Told
    <1>2. draining \in BOOLEAN
          BY DEF DInv, Counted
    <1>3. ASSUME NEW r \in Requests,
                 RefuseRequest(r) \/ RefuseNotReady(r) \/ ReadFails(r) \/ Resume(r)
                 \/ RefuseFull(r) \/ SubmitFull(r)
          PROVE  Counted'
          <2>1. response[r] = 0
                BY <1>3 DEF DInv, AppIInv, NotSubmitted, Waiting, RefuseRequest,
                   RefuseNotReady, RefuseFull, ReadFails, SubmitFull, Resume, Arriving
          <2>2. PICK code \in StatusCodes :
                   /\ Respond(r, code)
                   /\ rejectedCount' = IF code = 429 THEN rejectedCount + 1
                                                     ELSE rejectedCount
                <3>1. CASE RefuseFull(r) \/ SubmitFull(r)
                      BY <3>1 DEF RefuseFull, SubmitFull, StatusCodes
                <3>2. CASE RefuseRequest(r) \/ RefuseNotReady(r) \/ ReadFails(r)
                           \/ Resume(r)
                      <4>1. PICK code \in StatusCodes \ {429} : Respond(r, code)
                            BY <3>2 DEF RefuseRequest, RefuseNotReady, ReadFails,
                               Resume, StatusCodes
                      <4>2. rejectedCount' = rejectedCount
                            BY <3>2 DEF RefuseRequest, RefuseNotReady, ReadFails, Resume
                      <4>3. QED
                            BY <4>1, <4>2
                <3>3. QED
                      BY <1>3, <3>1, <3>2
          <2>3. QED
                BY <2>1, <2>2, ResponseCounted
    <1>4. CASE \/ \E r \in Requests :
                     Connect(r) \/ StartReading(r) \/ Submit(r) \/ TimerFires(r)
               \/ StartDraining \/ LifespanShutdown \/ LoopEnds \/ EngineStep
               \/ UNCHANGED allVars
          <2>1. UNCHANGED <<response, requestCount, rejectedCount>>
                BY <1>4 DEF Connect, StartReading, Submit, TimerFires, StartDraining,
                   LifespanShutdown, LoopEnds, EngineStep, allVars, appVars
          <2>2. draining' \in {draining, TRUE}
                BY <1>4 DEF Connect, StartReading, Submit, TimerFires, StartDraining,
                   LifespanShutdown, LoopEnds, EngineStep, allVars, appVars
          <2>3. QED
                BY <1>1, <1>2, <2>1, <2>2
    <1>5. QED
          BY <1>3, <1>4 DEF AppNext

-----------------------------------------------------------------------------
(* The theorems.                                                           *)

\* The invariant holds in all states of the application.
THEOREM DrainInductive == AppSpec => []DInv
    <1>1. AppInit => DrainPhase /\ Counted
          <2> SUFFICES ASSUME AppInit
                       PROVE  DrainPhase /\ Counted
              OBVIOUS
          <2>1. DrainPhase
                BY DEF AppInit, Init, DrainPhase
          <2>2. Told({429}) = {} /\ Told(StatusCodes) = {}
                BY DEF AppInit, Told, StatusCodes
          <2>3. requestCount = 0 /\ rejectedCount = 0
                BY DEF AppInit
          <2>4. draining \in BOOLEAN
                BY Zenon DEF AppInit
          <2>5. Cardinality({}) = 0
                BY FS_EmptySet, Zenon
          <2>6. Counted
                BY <2>2, <2>3, <2>4, <2>5 DEF Counted
          <2>7. QED
                BY <2>1, <2>6
    <1>2. AppInit => DInv
          BY <1>1, InitAppIInv, InitCInv DEF DInv, AppInit
    <1>3. DInv /\ [AppNext]_allVars => DInv'
          BY NextAppIInv, NextCInv, AppStepIsEngineStep, DrainStep, CountedStep DEF DInv
    <1>4. QED
          BY <1>2, <1>3, PTL DEF AppSpec

\* When the lifespan shuts the engine down, what is left in it belongs to clients
\* that got their 504.
THEOREM LeftToTimeouts == AppSpec => []NobodyLeftBehind
    <1>1. DInv => NobodyLeftBehind
          <2> SUFFICES ASSUME DInv, shut # "idle", NEW r \in Requests,
                              Custodians(r) # {}
                       PROVE  response[r] = 504
              BY DEF NobodyLeftBehind
          <2>1. InQueue(r) \/ InBatch(r) \/ InLoop(r)
                BY DEF Custodians, InQueue, InBatch, InLoop
          <2>2. future[r] \in {"pending", "cancelled"}
                BY <2>1 DEF DInv, CInv, Placed
          <2>3. /\ NotSubmitted(r) /\ Waiting(r) /\ Finished(r)
                /\ handler[r] \in HandlerStates
                BY DEF DInv, AppIInv, HandlerTypes
          <2>4. handler[r] = "responded"
                BY <2>2, <2>3 DEF DInv, DrainPhase, HandlerStates, NotSubmitted,
                   InFlight
          <2>5. future[r] = "cancelled" /\ expired[r]
                BY <2>2, <2>3, <2>4 DEF Finished, DInv, DrainPhase
          <2>6. QED
                BY <2>3, <2>4, <2>5 DEF Finished
    <1>2. QED
          BY <1>1, DrainInductive, PTL

\* Both places that answer 429 count, once each.
THEOREM RejectionsAreCounted == AppSpec => []RejectionsCounted
    <1>1. DInv => RejectionsCounted
          <2>1. Told({429}) = {r \in Requests : response[r] = 429}
                BY DEF Told
          <2>2. QED
                BY <2>1 DEF DInv, Counted, RejectionsCounted
    <1>2. QED
          BY <1>1, DrainInductive, PTL

\* The application's state has the types its variables have in the code, and no
\* counter exceeds the number of requests.
THEOREM AppTypeCorrect == AppSpec => []AppTypeOK
    <1>1. DInv => AppTypeOK
          <2> SUFFICES ASSUME DInv
                       PROVE  AppTypeOK
              OBVIOUS
          <2>1. \A codes : /\ Cardinality(Told(codes)) \in Nat
                           /\ Cardinality(Told(codes)) <= Cardinality(Requests)
                <3>1. SUFFICES ASSUME NEW codes
                               PROVE  /\ Cardinality(Told(codes)) \in Nat
                                      /\ Cardinality(Told(codes)) <= Cardinality(Requests)
                      OBVIOUS
                <3>2. Told(codes) \in SUBSET Requests
                      BY DEF Told
                <3>3. QED
                      BY <3>2, AppAssumption, FS_Subset, FS_CardinalityType
          <2>2. Cardinality(Requests) \in Nat
                BY AppAssumption, FS_CardinalityType
          <2>3. rejectedCount \in 0..Cardinality(Requests)
                BY <2>1, <2>2 DEF DInv, Counted
          <2>4. requestCount \in 0..Cardinality(Requests)
                BY <2>1, <2>2 DEF DInv, Counted
          <2>5. TypeOK /\ HandlerTypes /\ draining \in BOOLEAN
                BY DEF DInv, AppIInv, IInv, Counted
          <2>6. QED
                BY <2>3, <2>4, <2>5 DEF AppTypeOK, HandlerTypes
    <1>2. QED
          BY <1>1, DrainInductive, PTL

\* A failed liveness probe stays failed, and a service that had started stops
\* being so only when liveness fails as well.
THEOREM ProbesNeverFlap == AppSpec => ProbesMonotone
    <1>1. DInv /\ DInv' /\ [AppNext]_allVars =>
             [/\ Live = 500 => Live' = 500
              /\ Startup = 200 /\ Startup' = 503 => Live' = 500]_allVars
          <2> SUFFICES ASSUME DInv, DInv', AppNext
                       PROVE  /\ Live = 500 => Live' = 500
                              /\ Startup = 200 /\ Startup' = 503 => Live' = 500
              BY Zenon
          <2>1. Next \/ UNCHANGED vars
                BY AppStepIsEngineStep
          <2>2. /\ shutdownEvent => shutdownEvent'
                /\ ready => ready'
                /\ WorkerDead => WorkerDead'
                BY <2>1 DEF Next, Accept, Reject, CallerTimeout, RunCallback, CloseLoop,
                   Worker, WStart, WAnnounce, WPoll, WGetTimeout, WGetSentinel,
                   WRefuseFirst, WTakeFirst, WRefuseNext, WTakeNext, Refuse, Take,
                   WMeetSentinel, WRequeue, WDispatch, WPreprocess, WPreprocessFails,
                   WNothingValid, WPreprocessed, WPredict, WPredictFails, WDeliver,
                   WFail, WBatchEnd, Shutdown, ShutdownBegin, ShutdownPut,
                   ShutdownPutTimeout, ShutdownJoin, ShutdownJoinTimeout, Teardown,
                   ShutdownUnload, ShutdownCleanup, ShutdownRelease, ShutdownRaises,
                   Terminated, vars, flagVars, shutdownVars, WorkerDead
          \* The model is unloaded at the end of shutdown only.
          <2>3. ~modelLoaded' => shutdownEvent'
                BY DEF DInv, AppIInv, IInv, TeardownPhase
          <2>4. QED
                BY <2>2, <2>3 DEF Live, Startup, WorkerAlive
    <1>2. QED
          BY <1>1, DrainInductive, PTL DEF AppSpec, ProbesMonotone

-----------------------------------------------------------------------------
(* Who is in flight has a loop that runs.                                  *)

\* The loop is closed on nobody's handler: it aborts them.
Closed == ~loopOpen => \A r \in Requests : handler[r] \notin InFlight

LEMMA ClosedStep == DInv /\ Closed /\ [AppNext]_allVars => Closed'
    <1> SUFFICES ASSUME DInv, Closed, [AppNext]_allVars
                 PROVE  Closed'
        OBVIOUS
    <1> USE DEF Closed
    <1>1. CASE \E r \in Requests :
                  \/ Connect(r) \/ RefuseRequest(r) \/ RefuseNotReady(r)
                  \/ RefuseFull(r) \/ StartReading(r) \/ ReadFails(r) \/ Submit(r)
                  \/ SubmitFull(r) \/ TimerFires(r) \/ Resume(r)
          BY <1>1 DEF Connect, RefuseRequest, RefuseNotReady, RefuseFull, StartReading,
             ReadFails, Submit, SubmitFull, TimerFires, Resume, Arriving, Accept,
             Reject, CallerTimeout, LoopFree, vars, loopVars
    <1>2. CASE StartDraining \/ LifespanShutdown \/ UNCHANGED allVars
          BY <1>2 DEF StartDraining, LifespanShutdown, ShutdownBegin, allVars, appVars,
             vars, loopVars
    <1>3. CASE LoopEnds
          <2>1. \A r \in Requests : handler'[r] = IF handler[r] \in InFlight
                                                    THEN "aborted" ELSE handler[r]
                BY <1>3 DEF LoopEnds
          <2>2. QED
                BY <2>1 DEF InFlight
    <1>4. CASE EngineStep
          <2>1. UNCHANGED handler
                BY <1>4 DEF EngineStep, appVars
          <2>2. loopOpen' = loopOpen
                BY <1>4 DEF EngineStep, RunCallback, Worker, WStart, WAnnounce, WPoll,
                   WGetTimeout, WGetSentinel, WRefuseFirst, WTakeFirst, WRefuseNext,
                   WTakeNext, Refuse, Take, WMeetSentinel, WRequeue, WDispatch,
                   WPreprocess, WPreprocessFails, WNothingValid, WPreprocessed,
                   WPredict, WPredictFails, WDeliver, WFail, WBatchEnd, Shutdown,
                   ShutdownBegin, ShutdownPut, ShutdownPutTimeout, ShutdownJoin,
                   ShutdownJoinTimeout, Teardown, ShutdownUnload, ShutdownCleanup,
                   ShutdownRelease, ShutdownRaises, Terminated, vars, loopVars
          <2>3. QED
                BY <2>1, <2>2
    <1>5. QED
          BY <1>1, <1>2, <1>3, <1>4 DEF AppNext

\* While a handler is in flight the loop is there to run it.
LInv == DInv /\ Closed

LEMMA LoopInductive == AppSpec => []LInv
    <1>1. AppInit => Closed
          BY DEF AppInit, Init, Closed
    <1>2. DInv /\ Closed /\ [AppNext]_allVars => Closed'
          BY ClosedStep
    <1>3. QED
          BY <1>1, <1>2, DrainInductive, PTL DEF AppSpec, LInv

LEMMA InFlightLoopFree ==
    ASSUME LInv, NEW r \in Requests, handler[r] \in InFlight
    PROVE  LoopFree
    BY DEF LInv, DInv, DrainPhase, Closed, LoopFree

-----------------------------------------------------------------------------
(* No client is stuck.  As for the engine, that an action can be taken     *)
(* where its guard is true is a hypothesis.                                *)

Quiet == \A r \in Requests : handler[r] \notin InFlight

\* The guards of what the handler of r does next: RefuseRequest can always answer
\* 400, and so can ReadFails.
HandlerGuardSuffices(r) ==
    /\ LoopFree /\ handler[r] = "receiving" =>
          ENABLED <<RefuseRequest(r) \/ RefuseNotReady(r) \/ RefuseFull(r)
                       \/ StartReading(r)>>_allVars
    /\ LoopFree /\ handler[r] = "reading" =>
          ENABLED <<ReadFails(r) \/ Submit(r) \/ SubmitFull(r)>>_allVars
    /\ LoopFree /\ handler[r] = "awaiting" /\ ~expired[r] /\ future[r] = "pending" =>
          ENABLED <<TimerFires(r)>>_allVars
    /\ LoopFree /\ handler[r] = "awaiting" /\ future[r] # "pending" =>
          ENABLED <<Resume(r)>>_allVars

HandlerGuardsSuffice == \A r \in Requests : HandlerGuardSuffices(r)

\* The handler of a request in flight can go on: the loop is free and, unless the
\* future is done, the timer has not fired yet.
LEMMA HandlerGoesOn ==
    ASSUME LInv, NEW r \in Requests, HandlerGuardSuffices(r)
    PROVE  HandlerEnabled(r)
    <1>1. handler[r] \in InFlight => LoopFree
          BY InFlightLoopFree
    <1>2. handler[r] = "awaiting" /\ future[r] = "pending" => ~expired[r]
          BY DEF LInv, DInv, AppIInv, Waiting, Outcomes
    <1>3. QED
          BY <1>1, <1>2 DEF HandlerEnabled, HandlerGuardSuffices, InFlight

\* No client in flight waits for a timer that fired in vain or for a loop that is
\* closed or inside shutdown, for any number of requests (handle_predict_request).
THEOREM ClientsNeverStuck == AppSpec /\ []HandlerGuardsSuffice => []NoClientStuck
    <1>1. LInv /\ HandlerGuardsSuffice => NoClientStuck
          BY HandlerGoesOn DEF HandlerGuardsSuffice, NoClientStuck
    <1>2. QED
          BY <1>1, LoopInductive, PTL

-----------------------------------------------------------------------------
(* Every client is answered.                                               *)

\* The places of a handler.
Receiving(r) == handler[r] = "receiving"
Reading(r) == handler[r] = "reading"
AwaitingFuture(r) == handler[r] = "awaiting" /\ future[r] = "pending"
AwaitingTurn(r) == handler[r] = "awaiting" /\ future[r] # "pending"
Over(r) == handler[r] \in {"responded", "aborted"}

\* A future that is done, or was turned away, stays as it is.
LEMMA FutureFinal ==
    ASSUME IInv, NEW r \in Requests, future[r] \notin {"none", "pending"}, [Next]_vars
    PROVE  future'[r] = future[r]
    <1>1. future \in [Requests -> FutureStatus]
          BY DEF IInv, TypeOK
    <1>2. CASE \E q \in Requests : Accept(q) \/ Reject(q) \/ CallerTimeout(q)
          BY <1>1, <1>2 DEF Accept, Reject, CallerTimeout
    <1>3. CASE RunCallback
          BY <1>1, <1>3 DEF RunCallback
    <1>4. CASE CloseLoop
          BY <1>1, <1>4 DEF CloseLoop
    <1>5. CASE Worker \/ Shutdown \/ Terminated \/ UNCHANGED vars
          BY <1>5 DEF Worker, WStart, WAnnounce, WPoll, WGetTimeout, WGetSentinel,
             WRefuseFirst, WTakeFirst, WRefuseNext, WTakeNext, Refuse, Take,
             WMeetSentinel, WRequeue, WDispatch, WPreprocess, WPreprocessFails,
             WNothingValid, WPreprocessed, WPredict, WPredictFails, WDeliver, WFail,
             WBatchEnd, Shutdown, ShutdownBegin, ShutdownPut, ShutdownPutTimeout,
             ShutdownJoin, ShutdownJoinTimeout, Teardown, ShutdownUnload,
             ShutdownCleanup, ShutdownRelease, ShutdownRaises, Terminated, vars,
             loopVars
    <1>6. QED
          BY <1>2, <1>3, <1>4, <1>5 DEF Next

\* Where the handler of r can go in one step: never back.
LEMMA HandlerMoves ==
    ASSUME LInv, NEW r \in Requests, [AppNext]_allVars
    PROVE  /\ Receiving(r) => Receiving(r)' \/ Reading(r)' \/ Over(r)'
           /\ Reading(r) => \/ Reading(r)' \/ AwaitingFuture(r)' \/ AwaitingTurn(r)'
                            \/ Over(r)'
           /\ AwaitingFuture(r) => AwaitingFuture(r)' \/ AwaitingTurn(r)' \/ Over(r)'
           /\ AwaitingTurn(r) => AwaitingTurn(r)' \/ Over(r)'
    <1> USE DEF Receiving, Reading, AwaitingFuture, AwaitingTurn, Over
    <1>1. /\ handler \in [Requests -> HandlerStates]
          /\ Waiting(r)
          /\ IInv
          BY DEF LInv, DInv, AppIInv, HandlerTypes
    <1>2. [Next]_vars
          BY AppStepIsEngineStep
    <1>3. AwaitingTurn(r) => future'[r] # "pending"
          BY <1>1, <1>2, FutureFinal DEF Waiting, Outcomes
    <1>4. CASE handler'[r] \in {handler[r], "responded", "aborted"}
          BY <1>3, <1>4
    <1>5. CASE \E q \in Requests : Connect(q) \/ StartReading(q) \/ Submit(q)
          <2>1. PICK q \in Requests : Connect(q) \/ StartReading(q) \/ Submit(q)
                BY <1>5
          <2>2. CASE q # r
                BY <2>1, <2>2, <1>1, <1>4 DEF Connect, StartReading, Submit
          <2>3. CASE q = r
                BY <2>1, <2>3, <1>1 DEF Connect, StartReading, Submit, Arriving
          <2>4. QED
                BY <2>2, <2>3
    <1>6. CASE \E q \in Requests :
                  \/ RefuseRequest(q) \/ RefuseNotReady(q) \/ RefuseFull(q)
                  \/ ReadFails(q) \/ SubmitFull(q) \/ Resume(q)
          <2>1. PICK q \in Requests : handler' = [handler EXCEPT ![q] = "responded"]
                BY <1>6 DEF RefuseRequest, RefuseNotReady, RefuseFull, ReadFails,
                   SubmitFull, Resume, Respond
          <2>2. QED
                BY <2>1, <1>1, <1>4
    <1>7. CASE \/ \E q \in Requests : TimerFires(q)
               \/ StartDraining \/ LifespanShutdown \/ EngineStep \/ UNCHANGED allVars
          <2>1. handler' = handler
                BY <1>7 DEF TimerFires, StartDraining, LifespanShutdown, EngineStep,
                   allVars, appVars
          <2>2. QED
                BY <2>1, <1>4
    <1>8. CASE LoopEnds
          BY <1>8, <1>1, <1>4 DEF LoopEnds
    <1>9. QED
          BY <1>5, <1>6, <1>7, <1>8 DEF AppNext

\* What each of the fair actions of r does.
LEMMA HandlerProgress ==
    ASSUME LInv, NEW r \in Requests
    PROVE  /\ RefuseRequest(r) \/ RefuseNotReady(r) \/ RefuseFull(r) \/ StartReading(r)
                 => Reading(r)' \/ Over(r)'
           /\ ReadFails(r) \/ Submit(r) \/ SubmitFull(r)
                 => AwaitingFuture(r)' \/ AwaitingTurn(r)' \/ Over(r)'
           /\ TimerFires(r) => AwaitingTurn(r)'
           /\ Resume(r) => Over(r)'
    <1> USE DEF Reading, AwaitingFuture, AwaitingTurn, Over
    <1>1. /\ handler \in [Requests -> HandlerStates]
          /\ future \in [Requests -> FutureStatus]
          BY DEF LInv, DInv, AppIInv, HandlerTypes, IInv, TypeOK
    <1>2. ASSUME NEW code, Respond(r, code)
          PROVE  handler'[r] = "responded"
          BY <1>1, <1>2 DEF Respond
    <1>3. ASSUME TimerFires(r)
          PROVE  AwaitingTurn(r)'
          BY <1>1, <1>3 DEF TimerFires, CallerTimeout, Outcomes, vars, loopVars
    <1>4. QED
          BY <1>1, <1>2, <1>3 DEF RefuseRequest, RefuseNotReady, RefuseFull,
             StartReading, ReadFails, Submit, SubmitFull, Resume

\* Every client gets its response, from the application alone: its own timer answers
\* it when the engine does not, for any number of requests (handle_predict_request,
\* wait_for and the draining of uvicorn).
THEOREM ClientsAreAnswered ==
    AppFairSpec /\ []HandlerGuardsSuffice => EveryClientAnswered
    <1> SUFFICES ASSUME NEW r \in Requests
                 PROVE  AppFairSpec /\ []HandlerGuardsSuffice =>
                           (handler[r] \in InFlight
                              ~> handler[r] \in {"responded", "aborted"})
        BY DEF EveryClientAnswered
    <1> DEFINE Arrive == RefuseRequest(r) \/ RefuseNotReady(r) \/ RefuseFull(r)
                            \/ StartReading(r)
               Read == ReadFails(r) \/ Submit(r) \/ SubmitFull(r)
    <1>1. HandlersFair => HandlerFair(r)
          BY DEF HandlersFair
    <1>2. LInv /\ [AppNext]_allVars =>
             /\ Receiving(r) => Receiving(r)' \/ Reading(r)' \/ Over(r)'
             /\ Reading(r) => \/ Reading(r)' \/ AwaitingFuture(r)' \/ AwaitingTurn(r)'
                              \/ Over(r)'
             /\ AwaitingFuture(r) => AwaitingFuture(r)' \/ AwaitingTurn(r)' \/ Over(r)'
             /\ AwaitingTurn(r) => AwaitingTurn(r)' \/ Over(r)'
          BY HandlerMoves
    <1>3. LInv /\ <<Arrive>>_allVars => Reading(r)' \/ Over(r)'
          BY HandlerProgress
    <1>4. LInv /\ <<Read>>_allVars => AwaitingFuture(r)' \/ AwaitingTurn(r)' \/ Over(r)'
          BY HandlerProgress
    <1>5. LInv /\ <<TimerFires(r)>>_allVars => AwaitingTurn(r)'
          BY HandlerProgress
    <1>6. LInv /\ <<Resume(r)>>_allVars => Over(r)'
          BY HandlerProgress
    <1>7. LInv /\ HandlerGuardsSuffice =>
             /\ Receiving(r) => ENABLED <<Arrive>>_allVars
             /\ Reading(r) => ENABLED <<Read>>_allVars
             /\ AwaitingFuture(r) => ENABLED <<TimerFires(r)>>_allVars
             /\ AwaitingTurn(r) => ENABLED <<Resume(r)>>_allVars
          BY HandlerGoesOn DEF HandlerGuardsSuffice, HandlerEnabled, Receiving,
             Reading, AwaitingFuture, AwaitingTurn
    <1>8. handler[r] \in InFlight =>
             Receiving(r) \/ Reading(r) \/ AwaitingFuture(r) \/ AwaitingTurn(r)
          BY DEF InFlight, Receiving, Reading, AwaitingFuture, AwaitingTurn
    <1>9. Over(r) <=> handler[r] \in {"responded", "aborted"}
          BY DEF Over
    <1>10. QED
          BY <1>1, <1>2, <1>3, <1>4, <1>5, <1>6, <1>7, <1>8, <1>9, LoopInductive, PTL
          DEF AppFairSpec, AppSpec, HandlerFair

-----------------------------------------------------------------------------
(* Saturation passes.                                                      *)

\* The guards of the engine's steps, as the application takes them.
AppGuardsSuffice ==
    /\ HandlerGuardsSuffice
    /\ WorkerGuard => ENABLED <<Worker /\ UNCHANGED appVars>>_allVars
    /\ draining /\ Quiet /\ loopOpen /\ shut = "idle" =>
          ENABLED <<LifespanShutdown>>_allVars
    /\ PutGuard =>
          ENABLED <<(ShutdownPut \/ ShutdownPutTimeout) /\ UNCHANGED appVars>>_allVars
    /\ shut = "joining" /\ WorkerDead =>
          ENABLED <<ShutdownJoin /\ UNCHANGED appVars>>_allVars
    /\ shut \in {"cleaning", "unloading", "releasing"} =>
          ENABLED <<Teardown /\ UNCHANGED appVars>>_allVars

\* The thread sets ready before it does anything else, and nothing resets it.
Started == worker = "starting" \/ ready

LEMMA StartedStep == Started /\ [Next]_vars => Started'
    BY DEF Started, Next, Accept, Reject, CallerTimeout, RunCallback, CloseLoop,
       Worker, WStart, WAnnounce, WPoll, WGetTimeout, WGetSentinel, WRefuseFirst,
       WTakeFirst, WRefuseNext, WTakeNext, Refuse, Take, WMeetSentinel, WRequeue,
       WDispatch, WPreprocess, WPreprocessFails, WNothingValid, WPreprocessed, WPredict,
       WPredictFails, WDeliver, WFail, WBatchEnd, Shutdown, ShutdownBegin, ShutdownPut,
       ShutdownPutTimeout, ShutdownJoin, ShutdownJoinTimeout, Teardown, ShutdownUnload,
       ShutdownCleanup, ShutdownRelease, ShutdownRaises, Terminated, vars, flagVars

\* All that the liveness proofs need of a state.
WInv == LInv /\ Cursors /\ StillJoining /\ Started

LEMMA WInvInductive == AppSpec => []WInv
    <1>1. AppSpec => Spec
          BY AppImplementsEngine
    <1>2. Init => StillJoining /\ Started
          BY DEF Init, StillJoining, Started
    <1>3. Spec => [](StillJoining /\ Started)
          BY <1>2, StillJoiningStep, StartedStep, PTL DEF Spec
    <1>4. QED
          BY <1>1, <1>3, CursorsInductive, LoopInductive, PTL DEF WInv

\* What readiness waits for: the service is ready, beyond help or going down.
Passed == Readiness = 200 \/ Live = 500 \/ draining
Booting == ~Passed /\ worker = "starting"
FullAt(n) == ~Passed /\ worker # "starting" /\ Distance = n
FullBelow(n) == \E m \in 0..(n - 1) : FullAt(m)

\* A service that is neither has a live worker and a full queue or none yet.
LEMMA NotPassed ==
    ASSUME WInv, ~Passed
    PROVE  /\ Readiness = 503 /\ ~WorkerDead /\ ~shutdownEvent /\ shut = "idle"
           /\ ~draining
           /\ worker # "starting" => QueueFull
    <1>1. ~WorkerDead /\ ~shutdownEvent /\ ~draining /\ Readiness = 503
          BY DEF Passed, Live, WorkerAlive, Readiness
    <1>2. shut = "idle" /\ modelLoaded
          BY <1>1 DEF WInv, LInv, DInv, AppIInv, IInv, TeardownPhase
    <1>3. worker # "starting" => QueueFull
          BY <1>1, <1>2 DEF WInv, Started, Passed, Readiness, Startup, WorkerAlive
    <1>4. QED
          BY <1>1, <1>2, <1>3

\* The same after a step.
FullUnlessBooting == worker # "starting" => QueueFull

LEMMA NotPassedNext == WInv' /\ ~Passed' => FullUnlessBooting'
    <1>1. WInv /\ ~Passed => FullUnlessBooting
          BY NotPassed DEF FullUnlessBooting
    <1>2. QED
          BY <1>1, PTL

\* While the queue is full nothing joins it: only the worker's steps move it, and
\* each makes room or brings the worker nearer to where it makes room.
LEMMA SaturationStep ==
    ASSUME WInv, WInv', [AppNext]_allVars, NEW n \in Nat, FullAt(n)
    PROVE  /\ FullAt(n)' \/ FullBelow(n)' \/ Passed'
           /\ Worker => FullBelow(n)' \/ Passed'
    <1>1. /\ QueueFull /\ ~WorkerDead /\ ~shutdownEvent /\ shut = "idle" /\ ~draining
          /\ worker # "starting" /\ ~Passed
          BY NotPassed DEF FullAt
    <1>2. [Next]_vars
          BY AppStepIsEngineStep
    <1>3. /\ IInv /\ IInv' /\ Cursors /\ Cursors'
          BY DEF WInv, LInv, DInv, AppIInv
    <1>4. Distance \in Nat /\ Distance' \in Nat /\ Len(queue) <= Capacity
          BY <1>3, DistanceBound, DistanceBoundNext, Lengths DEF Bounded
    <1>5. worker' # "starting"
          BY <1>1, <1>2 DEF Next, Accept, Reject, CallerTimeout, RunCallback, CloseLoop,
             Worker, WStart, WAnnounce, WPoll, WGetTimeout, WGetSentinel, WRefuseFirst,
             WTakeFirst, WRefuseNext, WTakeNext, Refuse, Take, WMeetSentinel, WRequeue,
             WDispatch, WPreprocess, WPreprocessFails, WNothingValid, WPreprocessed,
             WPredict, WPredictFails, WDeliver, WFail, WBatchEnd, Shutdown,
             ShutdownBegin, ShutdownPut, ShutdownPutTimeout, ShutdownJoin,
             ShutdownJoinTimeout, Teardown, ShutdownUnload, ShutdownCleanup,
             ShutdownRelease, ShutdownRaises, Terminated, vars
    <1>6. CASE Worker
          <2>1. CASE Distance' < Distance
                BY <1>4, <1>5, <2>1 DEF FullAt, FullBelow
          <2>2. CASE ItemTaken
                <3>1. queue \in Seq(Requests \cup {None}) /\ queue # <<>>
                      BY <1>1, <1>3, EmptySeq, EngineAssumption
                      DEF QueueFull, IInv, TypeOK
                <3>2. Len(queue') < Capacity
                      BY <1>4, <2>2, <3>1, HeadTail, LenProperties, EngineAssumption
                      DEF ItemTaken
                <3>3. ~QueueFull'
                      BY <3>2, <1>3, LenProperties, EngineAssumption
                      DEF QueueFull, IInv, TypeOK
                <3>4. Passed'
                      BY <1>5, <3>3, NotPassedNext DEF FullUnlessBooting
                <3>5. QED
                      BY <3>4
          <2>3. queue # <<>>
                BY <1>1, EmptySeq, EngineAssumption DEF QueueFull
          <2>4. QED
                BY <1>3, <1>6, <2>1, <2>2, <2>3, WorkerCloser DEF EmptyWait
    <1>7. CASE ~Worker
          <2>1. UNCHANGED <<queue, worker, batchVars, shutdownEvent>>
                <3>1. ~LoopEnds /\ ~LifespanShutdown
                      BY <1>1 DEF LoopEnds, LifespanShutdown
                <3>2. \A r \in Requests : ~Accept(r)
                      BY <1>1, <1>3, Lengths DEF QueueFull, Accept
                <3>3. QED
                      BY <1>1, <1>7, <3>1, <3>2 DEF AppNext, Connect, RefuseRequest,
                         RefuseNotReady, RefuseFull, StartReading, ReadFails, Submit,
                         SubmitFull, TimerFires, Resume, StartDraining, EngineStep,
                         Reject, CallerTimeout, RunCallback, Shutdown, ShutdownBegin,
                         ShutdownPut, ShutdownPutTimeout, ShutdownJoin,
                         ShutdownJoinTimeout, Teardown, ShutdownUnload,
                         ShutdownCleanup, ShutdownRelease, ShutdownRaises, Terminated,
                         vars, allVars, shutdownVars
          <2>2. Distance' = Distance
                BY <2>1 DEF Distance, StepsLeft, WorkerDead, batchVars
          <2>3. QED
                BY <1>5, <1>7, <2>2 DEF FullAt
    <1>8. QED
          BY <1>6, <1>7

\* Readiness lost to a full queue or not yet reached comes back by itself, for any
\* capacity and any batch size (readyness_check, batch_processing_loop).
THEOREM SaturationAlwaysPasses ==
    AppFairSpec /\ []AppGuardsSuffice /\ LatticeRule(FullAt, Passed) => SaturationPasses
    <1> DEFINE Premise == \A n \in Nat :
                             FullAt(n) ~> Passed \/ \E m \in 0..(n - 1) : FullAt(m)
               Saturated == \E n \in Nat : FullAt(n)
               Unready == Readiness = 503
               WorkerRuns == Worker /\ UNCHANGED appVars
    <1>1. ASSUME NEW n \in Nat
          PROVE  AppFairSpec /\ []AppGuardsSuffice =>
                    (FullAt(n) ~> Passed \/ \E m \in 0..(n - 1) : FullAt(m))
          <2>1. WInv /\ WInv' /\ [AppNext]_allVars /\ FullAt(n)
                   => FullAt(n)' \/ FullBelow(n)' \/ Passed'
                BY SaturationStep
          <2>2. WInv /\ WInv' /\ [AppNext]_allVars /\ FullAt(n) /\ <<WorkerRuns>>_allVars
                   => FullBelow(n)' \/ Passed'
                BY SaturationStep
          <2>3. WInv /\ AppGuardsSuffice /\ FullAt(n) => ENABLED <<WorkerRuns>>_allVars
                BY NotPassed, SomeGuard
                DEF AppGuardsSuffice, FullAt, WInv, LInv, DInv, AppIInv
          <2>4. AppFairSpec /\ []AppGuardsSuffice =>
                   (FullAt(n) ~> Passed \/ FullBelow(n))
                BY <2>1, <2>2, <2>3, WInvInductive, PTL DEF AppFairSpec, AppSpec
          <2>5. QED
                BY <2>4, PTL DEF FullBelow
    <1>2. AppFairSpec /\ []AppGuardsSuffice => Premise
          BY <1>1
    <1>3. LatticeRule(FullAt, Passed) => (Premise => (Saturated ~> Passed))
          BY DEF LatticeRule
    <1>4. WInv => (Unready => Passed \/ Booting \/ Saturated)
          BY DistanceBound DEF Booting, FullAt, Bounded, WInv, LInv, DInv, AppIInv
    <1>5. WInv /\ WInv' /\ [AppNext]_allVars /\ Booting
             => Booting' \/ Passed' \/ Saturated'
          BY DistanceBoundNext DEF Booting, FullAt, Bounded, WInv, LInv, DInv, AppIInv
    <1>6. WInv /\ WInv' /\ Booting /\ <<WorkerRuns>>_allVars => Passed' \/ Saturated'
          <2> SUFFICES ASSUME WInv, WInv', Booting, Worker
                       PROVE  Passed' \/ Saturated'
              OBVIOUS
          <2>1. worker' # "starting"
                BY DEF Booting, Worker, WStart, WAnnounce, WPoll, WGetTimeout,
                   WGetSentinel, WRefuseFirst, WTakeFirst, WRefuseNext, WTakeNext,
                   Refuse, Take, WMeetSentinel, WRequeue, WDispatch, WPreprocess,
                   WPreprocessFails, WNothingValid, WPreprocessed, WPredict,
                   WPredictFails, WDeliver, WFail, WBatchEnd
          <2>2. QED
                BY <2>1, DistanceBoundNext DEF FullAt, Bounded, WInv, LInv, DInv,
                   AppIInv
    <1>7. WInv /\ AppGuardsSuffice /\ Booting => ENABLED <<WorkerRuns>>_allVars
          BY DEF AppGuardsSuffice, Booting, WorkerGuard
    <1>8. SaturationPasses <=> (Unready ~> Passed)
          BY PTL DEF SaturationPasses, Passed
    <1> HIDE DEF Premise, Saturated, Unready
    <1>9. AppFairSpec /\ []AppGuardsSuffice => (Booting ~> Passed \/ Saturated)
          BY <1>5, <1>6, <1>7, WInvInductive, PTL DEF AppFairSpec, AppSpec
    <1>10. QED
          BY <1>2, <1>3, <1>4, <1>8, <1>9, WInvInductive, PTL DEF AppFairSpec

-----------------------------------------------------------------------------
(* Draining ends.                                                          *)

\* What every one of finitely many requests comes to for good, all of them come to
\* together.  The rule is valid as Requests is finite, but needs an induction over
\* temporal formulas, as the lattice rule does.
TogetherRule(P, Q(_)) ==
    (\A r \in Requests : P ~> []Q(r)) => (P ~> [](\A r \in Requests : Q(r)))

Settled(r) == handler[r] \notin InFlight

\* What a step can do to the draining: it goes on, and nobody new is let in; the
\* loop stays closed; shutdown moves on.
LEMMA DrainingMoves ==
    ASSUME WInv, [AppNext]_allVars
    PROVE  /\ draining => draining'
           /\ ~loopOpen => ~loopOpen'
           /\ shut = "idle" => shut' \in {"idle", "putting"}
           /\ \A r \in Requests : draining /\ Settled(r) => Settled(r)'
    <1>1. handler \in [Requests -> HandlerStates]
          BY DEF WInv, LInv, DInv, AppIInv, HandlerTypes
    <1>2. draining => draining'
          <2>1. CASE \E r \in Requests :
                        \/ Connect(r) \/ RefuseRequest(r) \/ RefuseNotReady(r)
                        \/ RefuseFull(r) \/ StartReading(r) \/ ReadFails(r)
                        \/ Submit(r) \/ SubmitFull(r) \/ TimerFires(r) \/ Resume(r)
                <3>1. PICK r \in Requests :
                         \/ Connect(r) \/ RefuseRequest(r) \/ RefuseNotReady(r)
                         \/ RefuseFull(r) \/ StartReading(r) \/ ReadFails(r)
                         \/ Submit(r) \/ SubmitFull(r) \/ TimerFires(r) \/ Resume(r)
                      BY <2>1
                <3>2. CASE \/ Connect(r) \/ StartReading(r) \/ Submit(r)
                           \/ TimerFires(r)
                      BY <3>2 DEF Connect, StartReading, Submit, TimerFires
                <3>3. CASE \/ RefuseRequest(r) \/ RefuseNotReady(r) \/ RefuseFull(r)
                           \/ ReadFails(r) \/ SubmitFull(r) \/ Resume(r)
                      BY <3>3 DEF RefuseRequest, RefuseNotReady, RefuseFull, ReadFails,
                         SubmitFull, Resume, Respond
                <3>4. QED
                      BY <3>1, <3>2, <3>3
          <2>2. CASE StartDraining \/ LifespanShutdown \/ LoopEnds \/ EngineStep
                     \/ UNCHANGED allVars
                BY <2>2 DEF StartDraining, LifespanShutdown, LoopEnds, EngineStep,
                   allVars, appVars
          <2>3. QED
                BY <2>1, <2>2 DEF AppNext
    <1>3. ~loopOpen => ~loopOpen'
          BY AppStepIsEngineStep DEF Next, Accept, Reject, CallerTimeout, RunCallback,
             CloseLoop, Worker, WStart, WAnnounce, WPoll, WGetTimeout, WGetSentinel,
             WRefuseFirst, WTakeFirst, WRefuseNext, WTakeNext, Refuse, Take,
             WMeetSentinel, WRequeue, WDispatch, WPreprocess, WPreprocessFails,
             WNothingValid, WPreprocessed, WPredict, WPredictFails, WDeliver, WFail,
             WBatchEnd, Shutdown, ShutdownBegin, ShutdownPut, ShutdownPutTimeout,
             ShutdownJoin, ShutdownJoinTimeout, Teardown, ShutdownUnload,
             ShutdownCleanup, ShutdownRelease, ShutdownRaises, Terminated, vars,
             loopVars
    <1>4. shut = "idle" => shut' \in {"idle", "putting"}
          BY AppStepIsEngineStep DEF Next, Accept, Reject, CallerTimeout, RunCallback,
             CloseLoop, Worker, WStart, WAnnounce, WPoll, WGetTimeout, WGetSentinel,
             WRefuseFirst, WTakeFirst, WRefuseNext, WTakeNext, Refuse, Take,
             WMeetSentinel, WRequeue, WDispatch, WPreprocess, WPreprocessFails,
             WNothingValid, WPreprocessed, WPredict, WPredictFails, WDeliver, WFail,
             WBatchEnd, Shutdown, ShutdownBegin, ShutdownPut, ShutdownPutTimeout,
             ShutdownJoin, ShutdownJoinTimeout, Teardown, ShutdownUnload,
             ShutdownCleanup, ShutdownRelease, ShutdownRaises, Terminated, vars,
             shutdownVars
    <1>5. ASSUME draining, NEW r \in Requests, Settled(r)
          PROVE  Settled(r)'
          <2> USE DEF Settled, InFlight
          <2>1. CASE \E q \in Requests : StartReading(q) \/ Submit(q) \/ TimerFires(q)
                BY <1>1, <1>5, <2>1 DEF StartReading, Arriving, Submit, TimerFires
          <2>2. CASE \E q \in Requests :
                        \/ RefuseRequest(q) \/ RefuseNotReady(q) \/ RefuseFull(q)
                        \/ ReadFails(q) \/ SubmitFull(q) \/ Resume(q)
                <3>1. PICK q \in Requests : handler' = [handler EXCEPT ![q] = "responded"]
                      BY <2>2 DEF RefuseRequest, RefuseNotReady, RefuseFull, ReadFails,
                         SubmitFull, Resume, Respond
                <3>2. QED
                      BY <1>1, <1>5, <3>1
          <2>3. CASE StartDraining \/ LifespanShutdown \/ EngineStep
                     \/ UNCHANGED allVars
                BY <1>5, <2>3 DEF StartDraining, LifespanShutdown, EngineStep, allVars,
                   appVars
          <2>4. CASE LoopEnds
                BY <1>1, <1>5, <2>4 DEF LoopEnds
          <2>5. QED
                BY <1>5, <2>1, <2>2, <2>3, <2>4 DEF AppNext, Connect
    <1>6. QED
          BY <1>2, <1>3, <1>4, <1>5

\* The handlers in flight all finish.
LEMMA DrainQuiet ==
    AppFairSpec /\ []AppGuardsSuffice /\ TogetherRule(draining, Settled)
        => (draining ~> []Quiet)
    <1> DEFINE Premise == \A r \in Requests : draining ~> []Settled(r)
    <1>1. ASSUME NEW r \in Requests
          PROVE  AppFairSpec /\ []AppGuardsSuffice => (draining ~> []Settled(r))
          <2>1. AppFairSpec /\ []AppGuardsSuffice => EveryClientAnswered
                BY ClientsAreAnswered, PTL DEF AppGuardsSuffice
          <2>2. EveryClientAnswered =>
                   (handler[r] \in InFlight ~> handler[r] \in {"responded", "aborted"})
                BY DEF EveryClientAnswered
          <2>3. handler[r] \in {"responded", "aborted"} => Settled(r)
                BY DEF Settled, InFlight
          <2>4. handler[r] \in InFlight \/ Settled(r)
                BY DEF Settled
          <2>5. WInv /\ [AppNext]_allVars => (draining /\ Settled(r) => Settled(r)')
                BY DrainingMoves
          <2>6. WInv /\ [AppNext]_allVars => (draining => draining')
                BY DrainingMoves
          <2>7. QED
                BY <2>1, <2>2, <2>3, <2>4, <2>5, <2>6, WInvInductive, PTL
                DEF AppFairSpec, AppSpec
    <1>2. AppFairSpec /\ []AppGuardsSuffice => Premise
          BY <1>1
    <1>3. TogetherRule(draining, Settled) => (Premise => (draining ~> []Quiet))
          BY DEF TogetherRule, Settled, Quiet
    <1> HIDE DEF Premise
    <1>4. QED
          BY <1>2, <1>3, PTL

\* The worker that shutdown joins stops, in the application too.
LEMMA JoinedStops ==
    AppFairSpec /\ []AppGuardsSuffice /\ LatticeRule(StopsIn, Stopped)
        => (shut = "joining" ~> Stopped)
    <1> DEFINE Premise == \A n \in Nat :
                             StopsIn(n) ~> Stopped \/ \E m \in 0..(n - 1) : StopsIn(m)
               Stopping == \E n \in Nat : StopsIn(n)
               Joining  == shut = "joining"
               WorkerRuns == Worker /\ UNCHANGED appVars
    <1>1. ASSUME NEW n \in Nat
          PROVE  AppFairSpec /\ []AppGuardsSuffice =>
                    (StopsIn(n) ~> Stopped \/ \E m \in 0..(n - 1) : StopsIn(m))
          <2>1. WInv => IInv /\ Cursors
                BY DEF WInv, LInv, DInv, AppIInv
          <2>2. IInv /\ Cursors /\ IInv' /\ Cursors' /\ [AppNext]_allVars /\ StopsIn(n)
                   => StopsIn(n)' \/ StopsSooner(n)' \/ Stopped'
                BY StoppingStep, AppStepIsEngineStep
          <2>3. IInv /\ Cursors /\ IInv' /\ Cursors' /\ StopsIn(n)
                   /\ [AppNext]_allVars /\ <<WorkerRuns>>_allVars
                   => StopsSooner(n)' \/ Stopped'
                BY StoppingStep, AppStepIsEngineStep
          <2>4. IInv /\ AppGuardsSuffice /\ StopsIn(n) => ENABLED <<WorkerRuns>>_allVars
                BY SomeGuard DEF AppGuardsSuffice, StopsIn
          <2>5. AppFairSpec /\ []AppGuardsSuffice =>
                   (StopsIn(n) ~> Stopped \/ StopsSooner(n))
                BY <2>1, <2>2, <2>3, <2>4, WInvInductive, PTL DEF AppFairSpec, AppSpec
          <2>6. QED
                BY <2>5, PTL DEF StopsSooner
    <1>2. AppFairSpec /\ []AppGuardsSuffice => Premise
          BY <1>1
    <1>3. LatticeRule(StopsIn, Stopped) => (Premise => (Stopping ~> Stopped))
          BY DEF LatticeRule
    <1>4. WInv => (Joining => Stopping \/ Stopped)
          BY DistanceBound DEF StopsIn, Stopped, Bounded, WInv, LInv, DInv, AppIInv
    <1>5. (shut = "joining" ~> Stopped) <=> (Joining ~> Stopped)
          BY PTL
    <1> HIDE DEF Premise, Stopping, Joining
    <1>6. QED
          BY <1>2, <1>3, <1>4, <1>5, WInvInductive, PTL DEF AppFairSpec

\* Draining ends, whatever is in flight: the handlers finish, the lifespan calls
\* shutdown, which returns, or a forced exit has closed the loop.
THEOREM DrainingEnds ==
    /\ AppFairSpec
    /\ []AppGuardsSuffice
    /\ LatticeRule(StopsIn, Stopped)
    /\ TogetherRule(draining, Settled)
    => DrainCompletes
    <1> DEFINE Draining  == draining
               Open      == loopOpen
               Idle      == shut = "idle"
               Putting   == shut = "putting"
               Joining   == shut = "joining"
               Cleaning  == shut = "cleaning"
               Unloading == shut = "unloading"
               Releasing == shut = "releasing"
               Done      == shut = "done"
               Dead      == WorkerDead
               GaveUp    == joinTimedOut
               Put == (ShutdownPut \/ ShutdownPutTimeout) /\ UNCHANGED appVars
               Join == ShutdownJoin /\ UNCHANGED appVars
               Clean == Teardown /\ UNCHANGED appVars
               Liveness == /\ AppFairSpec
                           /\ []AppGuardsSuffice
                           /\ LatticeRule(StopsIn, Stopped)
                           /\ TogetherRule(draining, Settled)
    <1>1. WInv => /\ \/ Idle \/ Putting \/ Joining \/ Cleaning \/ Unloading
                     \/ Releasing \/ Done
                  /\ Putting => ~Idle
                  /\ Joining => ~GaveUp
          BY DEF WInv, LInv, DInv, AppIInv, IInv, TypeOK, ShutdownStates, StillJoining
    <1>2. WInv /\ [AppNext]_allVars =>
             /\ Draining => Draining'
             /\ ~Open => ~Open'
             /\ Idle => Idle' \/ Putting'
             /\ Putting => Putting' \/ Joining'
             /\ Joining => Joining' \/ Cleaning'
             /\ Cleaning => Cleaning' \/ Unloading'
             /\ Unloading => Unloading' \/ Releasing'
             /\ Releasing => Releasing' \/ Done'
             /\ Dead => Dead'
          BY DrainingMoves, ShutdownStages, AppStepIsEngineStep
    <1>3. /\ <<LifespanShutdown>>_allVars => Putting'
          /\ <<Put>>_allVars => Joining'
          /\ <<Join>>_allVars => Cleaning'
          /\ Cleaning /\ <<Clean>>_allVars => Unloading'
          /\ Unloading /\ <<Clean>>_allVars => Releasing'
          /\ Releasing /\ <<Clean>>_allVars => Done'
          BY DEF LifespanShutdown, ShutdownBegin, ShutdownPut, ShutdownPutTimeout,
             ShutdownJoin, Teardown, ShutdownUnload, ShutdownCleanup, ShutdownRelease,
             ShutdownRaises
    <1>4. WInv /\ AppGuardsSuffice =>
             /\ Draining /\ Quiet /\ Open /\ Idle => ENABLED <<LifespanShutdown>>_allVars
             /\ Putting => ENABLED <<Put>>_allVars
             /\ Joining /\ Dead => ENABLED <<Join>>_allVars
             /\ Cleaning \/ Unloading \/ Releasing => ENABLED <<Clean>>_allVars
          BY SomeGuard DEF AppGuardsSuffice, WInv, LInv, DInv, AppIInv
    <1>5. Liveness => (Draining ~> []Quiet)
          BY DrainQuiet
    <1>6. Liveness => (Joining ~> Stopped)
          BY JoinedStops
    <1>7. Stopped <=> Dead \/ GaveUp
          BY DEF Stopped
    <1>8. DrainCompletes <=> (Draining ~> Done \/ ~Open)
          BY PTL DEF DrainCompletes
    <1>9. Liveness => [](WInv /\ AppGuardsSuffice) /\ [][AppNext]_allVars
          BY WInvInductive, PTL DEF AppFairSpec, AppSpec
    <1>10. Liveness => /\ WF_allVars(LifespanShutdown)
                       /\ WF_allVars(Put)
                       /\ WF_allVars(Join)
                       /\ WF_allVars(Clean)
          BY PTL DEF AppFairSpec
    <1> HIDE DEF Draining, Open, Idle, Putting, Joining, Cleaning, Unloading,
                 Releasing, Done, Dead, GaveUp, Put, Join, Clean, Liveness
    <1>11. Liveness => (Draining ~> ~Open \/ ~Idle)
          BY <1>1, <1>2, <1>3, <1>4, <1>5, <1>9, <1>10, PTL
    <1>12. Liveness => (Putting ~> Joining)
          BY <1>2, <1>3, <1>4, <1>9, <1>10, PTL
    <1>13. Liveness => (Joining ~> Cleaning)
          <2>1. Liveness => (Joining ~> Cleaning \/ (Joining /\ Dead))
                BY <1>1, <1>2, <1>6, <1>7, <1>9, PTL
          <2>2. Liveness => ((Joining /\ Dead) ~> Cleaning)
                BY <1>2, <1>3, <1>4, <1>9, <1>10, PTL
          <2>3. QED
                BY <2>1, <2>2, PTL
    <1>14. Liveness => (Cleaning ~> Unloading)
          BY <1>2, <1>3, <1>4, <1>9, <1>10, PTL
    <1>15. Liveness => (Unloading ~> Releasing)
          BY <1>2, <1>3, <1>4, <1>9, <1>10, PTL
    <1>16. Liveness => (Releasing ~> Done)
          BY <1>2, <1>3, <1>4, <1>9, <1>10, PTL
    <1>17. Liveness => (Cleaning \/ Unloading \/ Releasing ~> Done)
          BY <1>14, <1>15, <1>16, PTL
    <1>18. Liveness => DrainCompletes
          BY <1>1, <1>8, <1>9, <1>11, <1>12, <1>13, <1>17, PTL
    <1>19. QED
          BY <1>18 DEF Liveness
=============================================================================
