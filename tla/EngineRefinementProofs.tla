----------------------- MODULE EngineRefinementProofs -----------------------
(***************************************************************************)
(* InferenceEngine implements InferenceService, for any set of requests,   *)
(* any capacity and any batch size.  CustodyProofs says how requests move; *)
(* what is left is to count them: the service turns a request away only    *)
(* when it holds Capacity of them, and the engine when its queue is full,  *)
(* the sentinel of shutdown included.  Towards the model manager the       *)
(* engine keeps to ModelGate.                                              *)
(***************************************************************************)
EXTENDS CustodyProofs, EngineRefinement, FiniteSetTheorems

\* There is one sentinel, in the queue or in the hands of the worker that is
\* about to put it back.
OneSentinel ==
    /\ \A i, j \in 1..Len(queue) : queue[i] = None /\ queue[j] = None => i = j
    /\ worker = "requeuing" => \A i \in 1..Len(queue) : queue[i] # None

RInv == CInv /\ OneSentinel

-----------------------------------------------------------------------------
(* The invariant.                                                          *)

\* A sentinel is only put into a queue that has none.
LEMMA SentinelAlone ==
    ASSUME CInv, queue' = Append(queue, None),
           \A i \in 1..Len(queue) : queue[i] # None
    PROVE  \A i, j \in 1..Len(queue') : queue'[i] = None /\ queue'[j] = None => i = j
    <1>1. queue \in Seq(Requests \cup {None})
          BY DEF CInv, IInv, TypeOK
    <1>2. \A i \in 1..Len(queue') :
             \/ i \in 1..Len(queue) /\ queue'[i] = queue[i]
             \/ i = Len(queue) + 1 /\ queue'[i] = None
          BY <1>1, AppendOnce
    <1>3. QED
          BY <1>2

\* Every step preserves OneSentinel.
LEMMA OneSentinelStep == RInv /\ [Next]_vars => OneSentinel'
    <1> SUFFICES ASSUME RInv, [Next]_vars
                 PROVE  OneSentinel'
        OBVIOUS
    <1> USE DEF RInv
    <1>1. queue \in Seq(Requests \cup {None})
          BY DEF CInv, IInv, TypeOK
    <1>2. CASE \E r \in Requests : Accept(r)
          <2>1. PICK r \in Requests : queue' = Append(queue, r) /\ worker' = worker
                BY <1>2 DEF Accept
          <2>2. \A i \in 1..Len(queue') :
                   \/ i \in 1..Len(queue) /\ queue'[i] = queue[i]
                   \/ i = Len(queue) + 1 /\ queue'[i] = r
                BY <1>1, <2>1, AppendOnce
          <2>3. r # None
                BY EngineAssumption
          <2>4. QED
                BY <2>1, <2>2, <2>3 DEF OneSentinel
    <1>3. CASE WGetSentinel \/ WRefuseFirst \/ WTakeFirst \/ WRefuseNext \/ WTakeNext
               \/ WMeetSentinel
          <2>1. queue # <<>> /\ queue' = Tail(queue)
                BY <1>3 DEF WGetSentinel, WRefuseFirst, WTakeFirst, WRefuseNext,
                   WTakeNext, WMeetSentinel, Refuse, Take
          <2>2. /\ Head(queue) = queue[1] /\ 1 \in 1..Len(queue)
                /\ \A i \in 1..Len(queue') :
                      i + 1 \in 1..Len(queue) /\ queue'[i] = queue[i + 1]
                BY <1>1, <2>1, HeadTail
          <2>3. worker' = "requeuing" => Head(queue) = None
                BY <1>3 DEF WGetSentinel, WRefuseFirst, WTakeFirst, WRefuseNext,
                   WTakeNext, WMeetSentinel, Refuse, Take
          <2>4. \A i, j \in 1..Len(queue') :
                   queue'[i] = None /\ queue'[j] = None => i = j
                BY <2>2 DEF OneSentinel
          <2>5. ASSUME worker' = "requeuing", NEW i \in 1..Len(queue')
                PROVE  queue'[i] # None
                <3>1. /\ i + 1 \in 1..Len(queue) /\ i + 1 # 1
                      /\ queue'[i] = queue[i + 1]
                      BY <2>2
                <3>2. 1 \in 1..Len(queue) /\ queue[1] = None
                      BY <2>2, <2>3, <2>5
                <3>3. QED
                      BY <3>1, <3>2 DEF OneSentinel
          <2>6. QED
                BY <2>4, <2>5 DEF OneSentinel
    <1>4. CASE WRequeue
          <2>1. /\ queue' = Append(queue, None) /\ worker' = "preprocessing"
                /\ \A i \in 1..Len(queue) : queue[i] # None
                BY <1>4 DEF WRequeue, OneSentinel
          <2>2. QED
                BY <2>1, SentinelAlone DEF OneSentinel
    <1>5. CASE ShutdownPut
          <2>1. /\ queue' = Append(queue, None) /\ worker' # "requeuing"
                /\ \A i \in 1..Len(queue) : queue[i] # None
                BY <1>5 DEF ShutdownPut, CInv, IInv, SentinelPhase
          <2>2. QED
                BY <2>1, SentinelAlone DEF OneSentinel
    <1>6. CASE \/ \E r \in Requests : Reject(r) \/ CallerTimeout(r)
               \/ RunCallback \/ CloseLoop \/ UNCHANGED vars
               \/ ShutdownBegin \/ ShutdownPutTimeout \/ ShutdownJoin
               \/ ShutdownJoinTimeout \/ Teardown
          BY <1>6 DEF Reject, CallerTimeout, RunCallback, CloseLoop, vars,
             ShutdownBegin, ShutdownPutTimeout, ShutdownJoin, ShutdownJoinTimeout,
             Teardown, ShutdownUnload, ShutdownCleanup, ShutdownRelease,
             ShutdownRaises, OneSentinel
    <1>7. CASE WStart \/ WAnnounce \/ WPoll \/ WGetTimeout \/ WDispatch \/ WPreprocess
               \/ WPreprocessFails \/ WNothingValid \/ WPreprocessed \/ WPredict
               \/ WPredictFails \/ WDeliver \/ WFail \/ WBatchEnd
          <2>1. queue' = queue /\ worker' # "requeuing"
                BY <1>7 DEF WStart, WAnnounce, WPoll, WGetTimeout, WDispatch,
                   WPreprocess, WPreprocessFails, WNothingValid, WPreprocessed,
                   WPredict, WPredictFails, WDeliver, WFail, WBatchEnd
          <2>2. QED
                BY <2>1 DEF OneSentinel
    <1>8. QED
          BY <1>2, <1>3, <1>4, <1>5, <1>6, <1>7 DEF Next, Worker, Shutdown, Terminated

\* Every state satisfies the invariant.
LEMMA RefinementInductive == Spec => []RInv
    <1>1. Init => OneSentinel
          BY EmptySeq DEF Init, OneSentinel
    <1>2. Init => RInv
          BY <1>1, InitCInv DEF RInv
    <1>3. RInv /\ [Next]_vars => RInv'
          BY NextCInv, OneSentinelStep DEF RInv
    <1>4. QED
          BY <1>2, <1>3, PTL DEF Spec

-----------------------------------------------------------------------------
(* The variables of the service are the sets of CustodyProofs.             *)

\* The requests of a queue.
LEMMA QueueView ==
    ASSUME NEW q \in Seq(Requests \cup {None})
    PROVE  {r \in Requests : \E i \in 1..Len(q) : q[i] = r}
              = {q[i] : i \in 1..Len(q)} \ {None}
    BY ElementOfSeq, EngineAssumption

\* The requests that a worker's batch still holds.
LEMMA UndeliveredInBatch ==
    ASSUME IInv
    PROVE  \A i \in Undelivered : batch[i] \in Requests
    <1>1. /\ batch \in Seq(Requests) /\ Len(batch) \in Nat
          /\ cursor \in Nat \ {0} /\ Len(validPositions) \in Nat
          BY LenProperties DEF IInv, TypeOK
    <1>2. \A k \in 1..Len(validPositions) : validPositions[k] \in 1..Len(batch)
          BY DEF IInv, BatchShape
    <1>3. cursor..Len(batch) \subseteq 1..Len(batch)
          BY <1>1
    <1>4. cursor..Len(validPositions) \subseteq 1..Len(validPositions)
          BY <1>1
    <1>5. Undelivered \subseteq 1..Len(batch)
          BY <1>2, <1>3, <1>4 DEF Undelivered
    <1>6. QED
          BY <1>1, <1>5, ElementOfSeq

Mapping ==
    /\ {queue[i] : i \in 1..Len(queue)} \ {None} = Held
    /\ {batch[i] : i \in Undelivered} = Working
    /\ {callbacks[i].req : i \in 1..Len(callbacks)} = Decided

\* The refinement mapping names the sets that the moves are about, before ...
LEMMA View == CInv => Mapping
    <1> SUFFICES ASSUME CInv
                 PROVE  Mapping
        OBVIOUS
    <1>1. /\ queue \in Seq(Requests \cup {None})
          /\ \A i \in 1..Len(callbacks) : callbacks[i].req \in Requests
          <2>1. callbacks \in Seq(Callback) /\ queue \in Seq(Requests \cup {None})
                BY DEF CInv, IInv, TypeOK
          <2>2. \A i \in 1..Len(callbacks) : callbacks[i] \in Callback
                BY <2>1, ElementOfSeq
          <2>3. QED
                BY <2>1, <2>2 DEF Callback
    <1>2. {queue[i] : i \in 1..Len(queue)} \ {None} = Held
          BY <1>1, QueueView DEF Held, InQueue
    <1>3. {batch[i] : i \in Undelivered} = Working
          BY UndeliveredInBatch DEF CInv, Working, InBatch
    <1>4. {callbacks[i].req : i \in 1..Len(callbacks)} = Decided
          BY <1>1 DEF Decided, InLoop
    <1>5. QED
          BY <1>2, <1>3, <1>4 DEF Mapping

\* ... and after a step.
LEMMA ViewNext == CInv' => Mapping'
    BY View, PTL

-----------------------------------------------------------------------------
(* Counting.                                                               *)

\* A sequence without repetitions has as many elements as it is long.
LEMMA DistinctItems ==
    ASSUME NEW S, NEW s \in Seq(S),
           \A i, j \in 1..Len(s) : s[i] = s[j] => i = j
    PROVE  /\ IsFiniteSet({s[i] : i \in 1..Len(s)})
           /\ Cardinality({s[i] : i \in 1..Len(s)}) = Len(s)
    <1> DEFINE f == [i \in 1..Len(s) |-> s[i]]
               T == {s[i] : i \in 1..Len(s)}
    <1>1. Len(s) \in Nat
          BY LenProperties
    <1>2. f \in Bijection(1..Len(s), T)
          BY DEF Bijection, Injection, Surjection, IsInjective
    <1>3. ExistsBijection(1..Len(s), T)
          BY <1>2 DEF ExistsBijection
    <1>4. IsFiniteSet(1..Len(s)) /\ Cardinality(1..Len(s)) = Len(s)
          <2>1. \A n \in Nat : (IF 1 > n THEN 0 ELSE n - 1 + 1) = n
                OBVIOUS
          <2>2. \A n \in Nat : n \in Int /\ 1 \in Int
                OBVIOUS
          <2>3. \A n \in Nat : IsFiniteSet(1..n) /\ Cardinality(1..n) = n
                BY <2>1, <2>2, FS_Interval, Zenon
          <2>4. QED
                BY <1>1, <2>3, Zenon
    <1> HIDE DEF f, T
    <1>5. IsFiniteSet(T) /\ Cardinality(T) = Len(s)
          BY <1>3, <1>4, FS_Bijection
    <1>6. QED
          BY <1>5 DEF T

\* The queue holds its requests and perhaps the sentinel, each once.
LEMMA QueueCount ==
    ASSUME RInv
    PROVE  /\ Cardinality(Held) \in Nat
           /\ Cardinality(Held) <= Len(queue)
           /\ Len(queue) <= Cardinality(Held) + (IF shutdownEvent THEN 1 ELSE 0)
    <1> DEFINE T == {queue[i] : i \in 1..Len(queue)}
    <1>1. queue \in Seq(Requests \cup {None}) /\ Len(queue) \in Nat
          BY LenProperties DEF RInv, CInv, IInv, TypeOK
    <1>2. \A i, j \in 1..Len(queue) : queue[i] = queue[j] => i = j
          BY DEF RInv, CInv, Once, OneSentinel
    <1>3. IsFiniteSet(T) /\ Cardinality(T) = Len(queue)
          BY <1>1, <1>2, DistinctItems
    <1>4. Held = T \ {None}
          BY <1>1, QueueView DEF Held, InQueue
    <1> HIDE DEF T
    <1>5. /\ Cardinality(Held) = IF None \in T THEN Len(queue) - 1 ELSE Len(queue)
          /\ IsFiniteSet(Held)
          BY <1>3, <1>4, FS_RemoveElement
    <1>6. Cardinality(Held) \in Nat
          BY <1>5, FS_CardinalityType
    <1>7. None \in T => shutdownEvent
          BY DEF T, RInv, CInv, IInv, SentinelPhase, TeardownPhase
    <1>8. \A n \in Nat : /\ n - 1 <= n /\ n <= n
                         /\ n <= (n - 1) + 1 /\ n <= n + 0 /\ n <= n + 1
          OBVIOUS
    <1>9. CASE None \in T
          BY <1>1, <1>5, <1>6, <1>7, <1>8, <1>9, Zenon
    <1>10. CASE None \notin T
          <2>1. Cardinality(Held) = Len(queue)
                BY <1>5, <1>10
          <2>2. QED
                BY <1>1, <1>6, <1>8, <2>1, Zenon
    <1>11. QED
          BY <1>9, <1>10

\* A batch being formed has as many requests at work as it is long.
LEMMA BatchCount ==
    ASSUME RInv, worker \in {"waiting", "collecting"},
           worker = "collecting" => Len(batch) < BatchMax
    PROVE  Cardinality(Working) < BatchMax
    <1>1. batch \in Seq(Requests) /\ Len(batch) \in Nat
          BY LenProperties DEF RInv, CInv, IInv, TypeOK
    <1>2. CASE worker = "waiting"
          <2>1. Working = {}
                BY <1>2 DEF Working, InBatch, Undelivered
          <2>2. QED
                BY <2>1, FS_EmptySet, EngineAssumption
    <1>3. CASE worker = "collecting"
          <2>1. Undelivered = 1..Len(batch)
                BY <1>3 DEF Undelivered
          <2>2. Working = {batch[i] : i \in 1..Len(batch)}
                BY <1>1, <2>1, ElementOfSeq DEF Working, InBatch
          <2>3. \A i, j \in 1..Len(batch) : batch[i] = batch[j] => i = j
                BY <2>1 DEF RInv, CInv, Once
          <2>4. Cardinality(Working) = Len(batch)
                BY <1>1, <2>2, <2>3, DistinctItems
          <2>5. QED
                BY <1>3, <2>4
    <1>4. QED
          BY <1>2, <1>3

\* The service counts as the engine does.
LEMMA SameCardinality == \A S : Service!Cardinality(S) = Cardinality(S)
    BY Zenon DEF Service!Cardinality, Cardinality

-----------------------------------------------------------------------------
(* The steps.                                                              *)

\* What the event loop does is what the service's callers see.
LEMMA LoopImplements ==
    ASSUME RInv, Mapping, Mapping',
           \/ \E r \in Requests : Accept(r) \/ Reject(r) \/ CallerTimeout(r)
           \/ RunCallback \/ CloseLoop
    PROVE  Service!Next
    <1> USE DEF Mapping
    <1>1. CASE \E r \in Requests : Accept(r)
          <2>1. PICK r \in Requests : Accept(r)
                BY <1>1
          <2>2. Held' = Held \cup {r} /\ Working' = Working /\ Decided' = Decided
                BY <2>1, MoveAccept DEF RInv
          <2>3. /\ loopOpen /\ future[r] = "none" /\ Len(queue) < Capacity
                /\ future' = [future EXCEPT ![r] = "pending"]
                /\ UNCHANGED <<shutdownEvent, loopOpen>>
                BY <2>1 DEF Accept, LoopFree, shutdownVars
          <2>4. Cardinality(Held) < Capacity
                <3>1. Len(queue) \in Nat /\ Capacity \in Nat
                      BY LenProperties, EngineAssumption DEF RInv, CInv, IInv, TypeOK
                <3>2. QED
                      BY <2>3, <3>1, QueueCount
          <2>5. Service!Accept(r)
                BY <2>2, <2>3, <2>4, SameCardinality DEF Service!Accept
          <2>6. QED
                BY <2>5 DEF Service!Next
    <1>2. CASE \E r \in Requests : Reject(r)
          <2>1. PICK r \in Requests : Reject(r)
                BY <1>2
          <2>2. /\ loopOpen /\ future[r] = "none" /\ Len(queue) >= Capacity
                /\ future' = [future EXCEPT ![r] = "rejected"]
                /\ UNCHANGED <<queue, callbacks, worker, batchVars, shutdownEvent,
                               loopOpen>>
                BY <2>1 DEF Reject, LoopFree, shutdownVars
          <2>3. Undelivered' = Undelivered /\ batch' = batch
                BY <2>2, SameBatch
          <2>4. \A q \in Requests :
                   \/ future'[q] = future[q]
                   \/ future[q] = "none" /\ future'[q] = "rejected"
                BY <2>2 DEF RInv, CInv, IInv, TypeOK
          <2>5. Still
                BY <2>2, <2>3, <2>4, MoveNothing DEF RInv
          <2>6. Cardinality(Held) + (IF shutdownEvent THEN 1 ELSE 0) >= Capacity
                <3>1. Len(queue) \in Nat /\ Capacity \in Nat
                      BY LenProperties, EngineAssumption DEF RInv, CInv, IInv, TypeOK
                <3>2. QED
                      BY <2>2, <3>1, QueueCount
          <2>7. Service!Reject(r)
                BY <2>2, <2>5, <2>6, SameCardinality DEF Service!Reject, Still
          <2>8. QED
                BY <2>7 DEF Service!Next
    <1>3. CASE \E r \in Requests : CallerTimeout(r)
          <2>1. PICK r \in Requests : CallerTimeout(r)
                BY <1>3
          <2>2. /\ loopOpen /\ future[r] = "pending"
                /\ future' = [future EXCEPT ![r] = "cancelled"]
                /\ UNCHANGED <<queue, callbacks, worker, batchVars, shutdownEvent,
                               loopOpen>>
                BY <2>1 DEF CallerTimeout, LoopFree, shutdownVars
          <2>3. Undelivered' = Undelivered /\ batch' = batch
                BY <2>2, SameBatch
          <2>4. \A q \in Requests :
                   \/ future'[q] = future[q]
                   \/ future[q] = "pending" /\ future'[q] = "cancelled"
                BY <2>2 DEF RInv, CInv, IInv, TypeOK
          <2>5. Still
                BY <2>2, <2>3, <2>4, MoveNothing DEF RInv
          <2>6. Service!Cancel(r)
                BY <2>2, <2>5 DEF Service!Cancel, Still
          <2>7. QED
                BY <2>6 DEF Service!Next
    <1>4. CASE RunCallback
          <2> DEFINE cb == Head(callbacks)
          <2>1. /\ Held' = Held /\ Working' = Working
                /\ cb.req \in Decided /\ Decided' = Decided \ {cb.req}
                BY <1>4, MoveResolve DEF RInv
          <2>2. PICK r \in Requests : r = cb.req
                BY <2>1 DEF Decided
          <2>3. /\ UNCHANGED <<shutdownEvent, loopOpen>>
                /\ IF future[r] = "pending"
                     THEN future' = [future EXCEPT ![r] = cb.status]
                     ELSE future' = future
                BY <1>4, <2>2 DEF RunCallback, shutdownVars
          <2>4. /\ callbacks \in Seq(Callback) /\ callbacks # <<>>
                BY <1>4 DEF RunCallback, RInv, CInv, IInv, TypeOK
          <2>5. /\ cb \in Callback /\ cb = callbacks[1] /\ 1 \in 1..Len(callbacks)
                BY <2>4, HeadTail
          <2>6. cb.status \in Outcomes /\ Proper(r, cb.status, cb.row)
                BY <2>2, <2>5 DEF Callback, RInv, CInv, IInv, OutcomesProper
          <2>7. joinTimedOut => shutdownEvent
                BY DEF RInv, CInv, IInv, TeardownPhase
          <2>8. cb.status \in Service!Verdicts(r)
                BY <2>6, <2>7 DEF Outcomes, Proper, Service!Verdicts
          <2>9. Service!Tell(r)
                BY <2>1, <2>2, <2>3, <2>8 DEF Service!Tell
          <2>10. QED
                BY <2>9 DEF Service!Next
    <1>5. CASE CloseLoop
          <2>1. Held' = Held /\ Working' = Working /\ Decided' = {}
                BY <1>5, MoveClose DEF RInv
          <2>2. Service!Abandon
                BY <1>5, <2>1 DEF CloseLoop, LoopFree, shutdownVars, Service!Abandon
          <2>3. QED
                BY <2>2 DEF Service!Next
    <1>6. QED
          BY <1>1, <1>2, <1>3, <1>4, <1>5

\* The worker begins and decides, unseen by the callers.
LEMMA WorkerImplements ==
    ASSUME RInv, Mapping, Mapping', Worker
    PROVE  [Service!Next]_(Service!vars)
    <1> USE DEF Mapping
    <1>1. UNCHANGED <<future, shutdownEvent, loopOpen>>
          BY DEF Worker, WStart, WAnnounce, WPoll, WGetTimeout, WGetSentinel,
             WRefuseFirst, WTakeFirst, WRefuseNext, WTakeNext, Refuse, Take,
             WMeetSentinel, WRequeue, WDispatch, WPreprocess, WPreprocessFails,
             WNothingValid, WPreprocessed, WPredict, WPredictFails, WDeliver, WFail,
             WBatchEnd, loopVars, shutdownVars
    <1>2. WorkerMove
          BY CollectingCustody, PreprocessingCustody, DeliveringCustody DEF Worker, RInv
    <1>3. CASE Still
          BY <1>1, <1>3 DEF Still, Service!vars
    <1>4. CASE \E r \in Requests : Begun(r)
          <2>1. PICK r \in Requests : Begun(r)
                BY <1>4
          <2>2. Cardinality(Working) < BatchMax
                BY <2>1, BatchCount DEF Begun
          <2>3. Service!Begin(r)
                BY <1>1, <2>1, <2>2, SameCardinality DEF Begun, Service!Begin
          <2>4. QED
                BY <2>3 DEF Service!Next
    <1>5. CASE \E r \in Requests : Judged(r)
          <2>1. PICK r \in Requests : Judged(r)
                BY <1>5
          <2>2. Service!Decide(r)
                BY <1>1, <2>1 DEF Judged, Service!Decide
          <2>3. QED
                BY <2>2 DEF Service!Next
    <1>6. QED
          BY <1>2, <1>3, <1>4, <1>5 DEF WorkerMove

\* Shutdown closes the service and is otherwise unseen.
LEMMA ShutdownImplements ==
    ASSUME RInv, Mapping, Mapping', Shutdown
    PROVE  [Service!Next]_(Service!vars)
    <1> USE DEF Mapping
    <1>1. Still
          BY ShutdownCustody DEF RInv
    <1>2. CASE ShutdownBegin
          <2>1. ~shutdownEvent
                BY <1>2 DEF ShutdownBegin, RInv, CInv, IInv, TeardownPhase
          <2>2. Service!Close
                BY <1>1, <1>2, <2>1 DEF ShutdownBegin, loopVars, Still, Service!Close
          <2>3. QED
                BY <2>2 DEF Service!Next
    <1>3. CASE ~ShutdownBegin
          <2>1. UNCHANGED <<future, shutdownEvent, loopOpen>>
                BY <1>3 DEF Shutdown, ShutdownPut, ShutdownPutTimeout, ShutdownJoin,
                   ShutdownJoinTimeout, Teardown, ShutdownUnload, ShutdownCleanup,
                   ShutdownRelease, ShutdownRaises, loopVars
          <2>2. QED
                BY <1>1, <2>1 DEF Still, Service!vars
    <1>4. QED
          BY <1>2, <1>3

\* The engine implements the service: whatever its threads do, a request is
\* turned away only when Capacity of them are held, and each accepted one gets
\* a single verdict, one of its own.
THEOREM EngineImplements == Spec => ImplementsService
    <1>1. Init => Service!Init
          <2> SUFFICES ASSUME Init
                       PROVE  Service!Init
              OBVIOUS
          <2>1. /\ queue = <<>> /\ callbacks = <<>> /\ worker = "starting"
                /\ future = [r \in Requests |-> "none"]
                /\ shutdownEvent = FALSE /\ loopOpen
                BY Zenon DEF Init
          <2>2. 1..Len(queue) = {} /\ 1..Len(callbacks) = {}
                BY <2>1, EmptySeq
          <2>3. Undelivered = {}
                BY <2>1 DEF Undelivered
          <2>4. QED
                BY <2>1, <2>2, <2>3 DEF Service!Init
    <1>2. RInv /\ RInv' /\ [Next]_vars => [Service!Next]_(Service!vars)
          <2> SUFFICES ASSUME RInv, RInv', [Next]_vars
                       PROVE  [Service!Next]_(Service!vars)
              OBVIOUS
          <2>1. Mapping /\ Mapping'
                BY View, ViewNext DEF RInv
          <2>2. CASE UNCHANGED vars
                BY <2>2 DEF vars, loopVars, batchVars, shutdownVars, Service!vars,
                   Undelivered
          <2>3. CASE \/ \E r \in Requests : Accept(r) \/ Reject(r) \/ CallerTimeout(r)
                     \/ RunCallback \/ CloseLoop
                BY <2>1, <2>3, LoopImplements
          <2>4. CASE Worker
                BY <2>1, <2>4, WorkerImplements
          <2>5. CASE Shutdown
                BY <2>1, <2>5, ShutdownImplements
          <2>6. QED
                BY <2>2, <2>3, <2>4, <2>5 DEF Next, Terminated
    <1>3. QED
          BY <1>1, <1>2, RefinementInductive, PTL
          DEF Spec, Service!Spec, ImplementsService

-----------------------------------------------------------------------------
(* The model manager's gate.                                               *)

\* The items of a batch are distinct, those already judged included.
Distinct == \A i, j \in 1..Len(batch) : batch[i] = batch[j] => i = j

GInv == CInv /\ Distinct

\* Every step keeps the items of the batch distinct: what the worker takes from
\* the queue is in no other place.
LEMMA DistinctStep == GInv /\ [Next]_vars => Distinct'
    <1> SUFFICES ASSUME GInv, [Next]_vars
                 PROVE  Distinct'
        OBVIOUS
    <1>1. CASE batch' = batch
          BY <1>1 DEF GInv, Distinct
    <1>2. CASE WNothingValid \/ WBatchEnd
          BY <1>2, EmptySeq DEF WNothingValid, WBatchEnd, ForgetBatch, Distinct
    <1>3. CASE WTakeFirst \/ WTakeNext
          <2>1. /\ queue # <<>> /\ Head(queue) \in Requests
                /\ batch' = Append(batch, Head(queue))
                /\ worker \in {"waiting", "collecting"}
                BY <1>3 DEF WTakeFirst, WTakeNext, Take
          <2>2. InQueue(Head(queue))
                BY <2>1, HeadTail DEF InQueue, GInv, CInv, IInv, TypeOK
          <2>3. \A i \in 1..Len(batch) : batch[i] # Head(queue)
                <3>1. CASE worker = "waiting"
                      BY <3>1, EmptySeq DEF GInv, CInv, IInv, BatchPhase, Between
                <3>2. CASE worker = "collecting"
                      <4>1. Undelivered = 1..Len(batch)
                            BY <3>2 DEF Undelivered
                      <4>2. ~InBatch(Head(queue))
                            BY <2>1, <2>2 DEF GInv, CInv, Placed
                      <4>3. QED
                            BY <4>1, <4>2 DEF InBatch
                <3>3. QED
                      BY <2>1, <3>1, <3>2
          <2>4. batch \in Seq(Requests) /\ Len(batch) \in Nat
                BY LenProperties DEF GInv, CInv, IInv, TypeOK
          <2>5. QED
                BY <2>1, <2>3, <2>4, Appended DEF GInv, Distinct
    <1>4. CASE \/ \E r \in Requests : Accept(r) \/ Reject(r) \/ CallerTimeout(r)
               \/ RunCallback \/ CloseLoop \/ Shutdown \/ UNCHANGED vars
          BY <1>1, <1>4 DEF Accept, Reject, CallerTimeout, RunCallback, CloseLoop,
             Shutdown, ShutdownBegin, ShutdownPut, ShutdownPutTimeout, ShutdownJoin,
             ShutdownJoinTimeout, Teardown, ShutdownUnload, ShutdownCleanup,
             ShutdownRelease, ShutdownRaises, vars, batchVars
    <1>5. CASE WStart \/ WAnnounce \/ WPoll \/ WGetTimeout \/ WGetSentinel
               \/ WRefuseFirst \/ WRefuseNext \/ WMeetSentinel \/ WRequeue
               \/ WDispatch \/ WPreprocess \/ WPreprocessFails \/ WPreprocessed
               \/ WPredict \/ WPredictFails \/ WDeliver \/ WFail
          BY <1>1, <1>5 DEF WStart, WAnnounce, WPoll, WGetTimeout, WGetSentinel,
             WRefuseFirst, WRefuseNext, Refuse, WMeetSentinel, WRequeue, WDispatch,
             WPreprocess, WPreprocessFails, WPreprocessed, WPredict, WPredictFails,
             WDeliver, WFail, batchVars
    <1>6. QED
          BY <1>2, <1>3, <1>4, <1>5 DEF Next, Worker, Terminated

\* Every state satisfies the invariant.
LEMMA GateInductive == Spec => []GInv
    <1>1. Init => Distinct
          BY EmptySeq DEF Init, Distinct
    <1>2. Init => GInv
          BY <1>1, InitCInv DEF GInv
    <1>3. GInv /\ [Next]_vars => GInv'
          BY NextCInv, DistinctStep DEF GInv
    <1>4. QED
          BY <1>2, <1>3, PTL DEF Spec

\* The steps that nothing in the gate corresponds to, or that move its phase.
LEMMA PhaseKeepsToGate ==
    ASSUME GInv, NEW r \in Requests,
           \/ \E q \in Requests : Accept(q) \/ Reject(q) \/ CallerTimeout(q)
           \/ RunCallback \/ CloseLoop \/ Shutdown \/ UNCHANGED vars
    PROVE  Gate(r)!Next \/ UNCHANGED <<GatePhase, GateStage(r)>>
    <1>1. UNCHANGED <<worker, batchVars>>
          BY DEF Accept, Reject, CallerTimeout, RunCallback, CloseLoop,
             Shutdown, ShutdownBegin, ShutdownPut, ShutdownPutTimeout, ShutdownJoin,
             ShutdownJoinTimeout, Teardown, ShutdownUnload, ShutdownCleanup,
             ShutdownRelease, ShutdownRaises, vars
    <1>2. GateStage(r)' = GateStage(r)
          BY <1>1 DEF GateStage, Attempted, Preprocessed, batchVars
    <1>3. CASE ~Shutdown
          <2>1. UNCHANGED <<modelLoaded, shut>>
                BY <1>3 DEF Accept, Reject, CallerTimeout, RunCallback, CloseLoop,
                   vars, flagVars, shutdownVars
          <2>2. QED
                BY <1>2, <2>1 DEF GatePhase
    <1>4. CASE ShutdownUnload
          <2>1. GatePhase = "loaded" /\ GatePhase' = "unloading"
                BY <1>4 DEF ShutdownUnload, GatePhase, flagVars, GInv, CInv, IInv,
                   TeardownPhase
          <2>2. QED
                BY <1>2, <2>1 DEF Gate!Next, Gate!Unload
    <1>5. CASE ShutdownCleanup
          <2>1. GatePhase = "unloading" /\ GatePhase' = "unloaded"
                BY <1>5 DEF ShutdownCleanup, GatePhase, GInv, CInv, IInv, TeardownPhase
          <2>2. QED
                BY <1>2, <2>1 DEF Gate!Next, Gate!Unloaded
    <1>6. CASE Shutdown /\ ~ShutdownUnload /\ ~ShutdownCleanup
          <2>1. GatePhase' = GatePhase
                BY <1>6 DEF Shutdown, ShutdownBegin, ShutdownPut, ShutdownPutTimeout,
                   ShutdownJoin, ShutdownJoinTimeout, Teardown, ShutdownRelease,
                   ShutdownRaises, GatePhase, flagVars, GInv, CInv, IInv, TeardownPhase
          <2>2. QED
                BY <1>2, <2>1
    <1>7. QED
          BY <1>3, <1>4, <1>5, <1>6

\* Steps of the worker between two batches, and until one is complete: the
\* manager has not been called for any item of it.
LEMMA CollectingKeepsToGate ==
    ASSUME GInv, NEW r \in Requests,
           \/ WStart \/ WAnnounce \/ WPoll \/ WGetTimeout \/ WGetSentinel
           \/ WRefuseFirst \/ WTakeFirst \/ WRefuseNext \/ WTakeNext
           \/ WMeetSentinel \/ WRequeue \/ WDispatch
    PROVE  GateStage(r)' = GateStage(r)
    <1>1. ~Attempted(r)
          <2>1. \/ worker \in Between /\ batch = <<>>
                \/ worker \in {"collecting", "requeuing"}
                BY DEF WStart, WAnnounce, WPoll, WGetTimeout, WGetSentinel,
                   WRefuseFirst, WTakeFirst, WRefuseNext, WTakeNext, WMeetSentinel,
                   WRequeue, WDispatch, GInv, CInv, IInv, BatchPhase, Between
          <2>2. QED
                BY <2>1, EmptySeq DEF Attempted
    <1>2. ~Attempted(r)'
          <2>1. CASE WTakeFirst \/ WRefuseNext \/ WTakeNext \/ WMeetSentinel
                BY <2>1 DEF WTakeFirst, WRefuseNext, WTakeNext, Refuse, Take,
                   WMeetSentinel, Attempted
          <2>2. CASE WRequeue \/ WDispatch
                <3>1. cursor' = 1 /\ worker' = "preprocessing" /\ batch' = batch
                      BY <2>2 DEF WRequeue, WDispatch, batchVars, GInv, CInv, IInv,
                         BatchPhase, Between
                <3>2. QED
                      BY <3>1 DEF Attempted
          <2>3. CASE WStart \/ WAnnounce \/ WPoll \/ WGetTimeout \/ WGetSentinel
                     \/ WRefuseFirst
                <3>1. batch' = <<>>
                      BY <2>3 DEF WStart, WAnnounce, WPoll, WGetTimeout, WGetSentinel,
                         WRefuseFirst, Refuse, batchVars, GInv, CInv, IInv, BatchPhase,
                         Between
                <3>2. QED
                      BY <3>1, EmptySeq DEF Attempted
          <2>4. QED
                BY <2>1, <2>2, <2>3
    <1>3. QED
          BY <1>1, <1>2 DEF GateStage

\* preprocess_inputs of the item at the cursor: of the whole batch, the gate of
\* that item alone moves.
LEMMA PreprocessingKeepsToGate ==
    ASSUME GInv, NEW r \in Requests \ Corrupt, WPreprocess \/ WPreprocessFails
    PROVE  Gate(r)!Next \/ UNCHANGED <<GatePhase, GateStage(r)>>
    <1> DEFINE item == batch[cursor]
    <1>1. /\ worker = "preprocessing" /\ worker' = "preprocessing"
          /\ cursor \in 1..Len(batch) /\ batch' = batch /\ cursor' = cursor + 1
          /\ Len(batch) \in Nat
          BY LenProperties DEF WPreprocess, WPreprocessFails, GInv, CInv, IInv, TypeOK
    <1>2. GatePhase' = GatePhase
          BY DEF WPreprocess, WPreprocessFails, GatePhase, flagVars, shutdownVars
    \* An item is judged once.
    <1>3. item = r => ~Attempted(r) /\ Attempted(r)'
          BY <1>1 DEF GInv, Distinct, Attempted
    <1>4. item # r => (Attempted(r)' <=> Attempted(r))
          BY <1>1 DEF Attempted
    <1>5. /\ Len(tensors) = Len(validPositions) /\ Len(tensors) \in Nat
          /\ tensors \in Seq(Requests) /\ item \in Requests
          /\ \A k \in 1..Len(tensors) : \E i \in 1..Len(batch) :
                i < cursor /\ tensors[k] = batch[i]
          BY <1>1, LenProperties, ElementOfSeq
          DEF GInv, CInv, IInv, TypeOK, BatchShape, Positions
    <1>6. ~Preprocessed(item)
          BY <1>1, <1>5 DEF GInv, Distinct, Preprocessed
    <1>7. CASE WPreprocess
          <2>1. tensors' = Append(tensors, item)
                BY <1>7 DEF WPreprocess
          <2>2. Preprocessed(r)' <=> Preprocessed(r) \/ item = r
                <3>1. /\ Len(tensors') = Len(tensors) + 1
                      /\ \A k \in 1..Len(tensors) : tensors'[k] = tensors[k]
                      /\ tensors'[Len(tensors) + 1] = item
                      BY <1>5, <2>1, Appended
                <3>2. ASSUME NEW k \in 1..Len(tensors'), tensors'[k] = r
                      PROVE  Preprocessed(r) \/ item = r
                      <4>1. k \in 1..Len(tensors) \/ k = Len(tensors) + 1
                            BY <1>5, <3>1
                      <4>2. QED
                            BY <3>1, <3>2, <4>1 DEF Preprocessed
                <3>3. /\ Len(tensors) + 1 \in 1..Len(tensors')
                      /\ \A k \in 1..Len(tensors) : k \in 1..Len(tensors')
                      BY <1>5, <3>1
                <3>4. Preprocessed(r) => Preprocessed(r)'
                      BY <3>1, <3>3 DEF Preprocessed
                <3>5. item = r => Preprocessed(r)'
                      BY <3>1, <3>3 DEF Preprocessed
                <3>6. QED
                      BY <3>2, <3>4, <3>5 DEF Preprocessed
          <2>3. CASE item = r
                <3>1. GateStage(r) = "idle" /\ GateStage(r)' = "prepared"
                      BY <1>1, <1>3, <2>2, <2>3 DEF GateStage
                <3>2. GatePhase = "loaded"
                      BY <1>7 DEF WPreprocess, CanPreprocess, GatePhase
                <3>3. QED
                      BY <1>2, <3>1, <3>2 DEF Gate!Next, Gate!Preprocess
          <2>4. CASE item # r
                BY <1>1, <1>2, <1>4, <2>2, <2>4 DEF GateStage
          <2>5. QED
                BY <2>3, <2>4
    <1>8. CASE WPreprocessFails
          <2>1. Preprocessed(r)' <=> Preprocessed(r)
                BY <1>8 DEF WPreprocessFails, Preprocessed
          <2>2. CASE item = r
                <3>1. GateStage(r) = "idle" /\ GateStage(r)' = "failed"
                      BY <1>1, <1>3, <1>6, <2>1, <2>2 DEF GateStage
                <3>2. GatePhase # "loaded"
                      BY <1>8, <2>2 DEF WPreprocessFails, CanPreprocess, GatePhase
                <3>3. QED
                      BY <1>2, <3>1, <3>2 DEF Gate!Next, Gate!PreprocessFails
          <2>3. CASE item # r
                BY <1>1, <1>2, <1>4, <2>1, <2>3 DEF GateStage
          <2>4. QED
                BY <2>2, <2>3
    <1>9. QED
          BY <1>7, <1>8

\* The rest of perform_inference: the batch is predicted for, its outcomes are
\* handed over one by one, and it is forgotten.
LEMMA PredictingKeepsToGate ==
    ASSUME GInv, NEW r \in Requests,
           \/ WNothingValid \/ WPreprocessed \/ WPredict \/ WPredictFails
           \/ WDeliver \/ WFail \/ WBatchEnd
    PROVE  Gate(r)!Next \/ UNCHANGED <<GatePhase, GateStage(r)>>
    <1>1. GatePhase' = GatePhase
          BY DEF WNothingValid, WPreprocessed, WPredict, WPredictFails, WDeliver,
             WFail, WBatchEnd, GatePhase, flagVars, shutdownVars
    <1>2. CASE WPreprocessed \/ WDeliver \/ WFail
          <2>1. UNCHANGED <<batch, tensors>>
                /\ \/ WPreprocessed /\ worker = "preprocessing" /\ worker' = "predicting"
                   \/ worker \in {"delivering", "failing"} /\ worker' = worker
                BY <1>2 DEF WPreprocessed, WDeliver, WFail
          <2>2. Attempted(r)' <=> Attempted(r)
                <3>1. CASE WPreprocessed
                      <4>1. \A i \in 1..Len(batch) : i < cursor
                            BY <3>1, LenProperties
                            DEF WPreprocessed, GInv, CInv, IInv, TypeOK
                      <4>2. QED
                            BY <2>1, <3>1, <4>1 DEF WPreprocessed, Attempted
                <3>2. CASE worker \in {"delivering", "failing"} /\ worker' = worker
                      BY <2>1, <3>2 DEF Attempted
                <3>3. QED
                      BY <2>1, <3>1, <3>2
          <2>3. QED
                BY <1>1, <2>1, <2>2 DEF GateStage, Preprocessed
    <1>3. CASE WPredict \/ WPredictFails
          <2>1. /\ worker = "predicting" /\ worker' \in {"delivering", "failing"}
                /\ UNCHANGED <<batch, tensors>>
                BY <1>3 DEF WPredict, WPredictFails, batchVars
          <2>2. /\ Attempted(r)' <=> Attempted(r)
                /\ Preprocessed(r)' <=> Preprocessed(r)
                BY <2>1 DEF Attempted, Preprocessed
          <2>3. CASE GateStage(r) = "prepared"
                <3>1. CASE WPredict
                      <4>1. GateStage(r)' = "answered" /\ GatePhase # "unloaded"
                            BY <2>2, <2>3, <3>1 DEF WPredict, GateStage, GatePhase
                      <4>2. QED
                            BY <1>1, <2>3, <4>1 DEF Gate!Next, Gate!Predict
                <3>2. CASE WPredictFails
                      <4>1. GateStage(r)' = "failed"
                            BY <2>2, <2>3, <3>2 DEF WPredictFails, GateStage
                      <4>2. QED
                            BY <1>1, <2>3, <4>1 DEF Gate!Next, Gate!PredictFails
                <3>3. QED
                      BY <1>3, <3>1, <3>2
          <2>4. CASE GateStage(r) # "prepared"
                BY <1>1, <2>1, <2>2, <2>4 DEF GateStage
          <2>5. QED
                BY <2>3, <2>4
    <1>4. CASE WNothingValid \/ WBatchEnd
          <2>1. GateStage(r)' = "idle"
                <3>1. batch' = <<>>
                      BY <1>4 DEF WNothingValid, WBatchEnd, ForgetBatch
                <3>2. QED
                      BY <3>1, EmptySeq DEF GateStage, Attempted
          <2>2. GateStage(r) # "prepared"
                <3>1. CASE WNothingValid
                      <4>1. Len(tensors) = 0
                            BY <3>1, EmptySeq
                            DEF WNothingValid, GInv, CInv, IInv, BatchShape
                      <4>2. QED
                            BY <4>1 DEF GateStage, Preprocessed
                <3>2. CASE WBatchEnd
                      BY <3>2 DEF WBatchEnd, GateStage
                <3>3. QED
                      BY <1>4, <3>1, <3>2
          <2>3. QED
                BY <1>1, <2>1, <2>2 DEF Gate!Next, Gate!NextBatch, GateStage
    <1>5. QED
          BY <1>2, <1>3, <1>4

\* Of the model manager the engine asks only what ModelGate grants: together with
\* ManagerImplementsGate of ModelManagerProofs, what the two components take from and
\* give to each other fits, for every batch and every order of the threads.
THEOREM EngineKeepsToGate == Spec => KeepsToGate
    <1>1. Init => GateOpen
          <2> SUFFICES ASSUME Init, NEW r \in Requests
                       PROVE  GatePhase = "loaded" /\ GateStage(r) = "idle"
              BY DEF GateOpen
          <2>1. modelLoaded /\ shut = "idle" /\ batch = <<>>
                BY Zenon DEF Init
          <2>2. ~Attempted(r)
                BY <2>1, EmptySeq DEF Attempted
          <2>3. QED
                BY <2>1, <2>2 DEF GatePhase, GateStage
    <1>2. ASSUME GInv, [Next]_vars, NEW r \in Requests \ Corrupt
          PROVE  Gate(r)!Next \/ UNCHANGED <<GatePhase, GateStage(r)>>
          <2>1. CASE \/ WStart \/ WAnnounce \/ WPoll \/ WGetTimeout \/ WGetSentinel
                     \/ WRefuseFirst \/ WTakeFirst \/ WRefuseNext \/ WTakeNext
                     \/ WMeetSentinel \/ WRequeue \/ WDispatch
                <3>1. GatePhase' = GatePhase
                      BY <2>1 DEF WStart, WAnnounce, WPoll, WGetTimeout, WGetSentinel,
                         WRefuseFirst, WTakeFirst, WRefuseNext, WTakeNext, Refuse, Take,
                         WMeetSentinel, WRequeue, WDispatch, GatePhase, flagVars,
                         shutdownVars
                <3>2. QED
                      BY <1>2, <2>1, <3>1, CollectingKeepsToGate
          <2>2. CASE WPreprocess \/ WPreprocessFails
                BY <1>2, <2>2, PreprocessingKeepsToGate
          <2>3. CASE \/ WNothingValid \/ WPreprocessed \/ WPredict \/ WPredictFails
                     \/ WDeliver \/ WFail \/ WBatchEnd
                BY <1>2, <2>3, PredictingKeepsToGate
          <2>4. CASE \/ \E q \in Requests : Accept(q) \/ Reject(q) \/ CallerTimeout(q)
                     \/ RunCallback \/ CloseLoop \/ Shutdown \/ UNCHANGED vars
                BY <1>2, <2>4, PhaseKeepsToGate
          <2>5. QED
                BY <1>2, <2>1, <2>2, <2>3, <2>4 DEF Next, Worker, Terminated
    <1>3. GInv /\ [Next]_vars => Granted
          BY <1>2 DEF Granted
    <1>4. QED
          BY <1>1, <1>3, GateInductive, PTL DEF Spec, KeepsToGate
=============================================================================
