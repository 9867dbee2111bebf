---------------------------- MODULE CustodyProofs ----------------------------
(***************************************************************************)
(* No request of the engine is lost and none is answered twice: the        *)
(* invariant Custody of InferenceEngine, for any set of requests.  A       *)
(* request moves from the queue to the batch, from the batch to the        *)
(* callbacks and from there to its future; every action is one of a few    *)
(* such moves, and each move keeps every request in one place.  Counting   *)
(* the steps to the next place, every accepted request is served.          *)
(***************************************************************************)
EXTENDS InferenceEngineProofs, FiniteSetTheorems

InQueue(r) == \E i \in 1..Len(queue) : queue[i] = r
InBatch(r) == \E i \in Undelivered : batch[i] = r
InLoop(r)  == \E i \in 1..Len(callbacks) : callbacks[i].req = r

\* The requests that are in each place.
Held    == {r \in Requests : InQueue(r)}
Working == {r \in Requests : InBatch(r)}
Decided == {r \in Requests : InLoop(r)}
Still == Held' = Held /\ Working' = Working /\ Decided' = Decided

\* The worker takes a request into its batch, and settles one of the batch or
\* one that it refuses; nobody hears of it once the loop is closed.
Begun(r) ==
    /\ worker \in {"waiting", "collecting"}
    /\ worker = "collecting" => Len(batch) < BatchMax
    /\ r \in Held \ BadDims
    /\ Held' = Held \ {r}
    /\ Working' = Working \cup {r}
    /\ Decided' = Decided

Judged(r) ==
    /\ r \in Working \cup (Held \cap BadDims)
    /\ Held' = Held \ {r}
    /\ Working' = Working \ {r}
    /\ Decided' = IF loopOpen THEN Decided \cup {r} ELSE Decided

WorkerMove == Still \/ \E r \in Requests : Begun(r) \/ Judged(r)

\* No request is twice in the same place.
Once ==
    /\ \A i, j \in 1..Len(queue) : queue[i] = queue[j] /\ queue[i] # None => i = j
    /\ \A i, j \in Undelivered : batch[i] = batch[j] => i = j
    /\ \A i, j \in 1..Len(callbacks) : callbacks[i].req = callbacks[j].req => i = j

\* No request is in two places, only unresolved ones are anywhere, and the
\* pending ones are somewhere.
Placed ==
    \A r \in Requests :
        /\ ~(InQueue(r) /\ InBatch(r))
        /\ ~(InQueue(r) /\ InLoop(r))
        /\ ~(InBatch(r) /\ InLoop(r))
        /\ InQueue(r) \/ InBatch(r) \/ InLoop(r) =>
              future[r] \in {"pending", "cancelled"}
        /\ future[r] = "pending" => InQueue(r) \/ InBatch(r) \/ InLoop(r)

\* The valid positions are distinct and lie behind the cursor that found them;
\* the loop over them starts at the first one.
Positions ==
    /\ \A k, l \in 1..Len(validPositions) :
          validPositions[k] = validPositions[l] => k = l
    /\ worker = "preprocessing" =>
          \A k \in 1..Len(validPositions) : validPositions[k] < cursor
    /\ worker = "predicting" => cursor = 1
    /\ ~loopOpen => callbacks = <<>> /\ \A r \in Requests : future[r] # "pending"

CInv == IInv /\ Positions /\ Once /\ Placed

-----------------------------------------------------------------------------

\* Every step preserves Positions.
LEMMA PositionsStep == CInv /\ [Next]_vars => Positions'
    <1> SUFFICES ASSUME CInv, [Next]_vars
                 PROVE  Positions'
        OBVIOUS
    <1> USE DEF CInv, IInv
    <1>1. CASE \E r \in Requests : Accept(r) \/ Reject(r) \/ CallerTimeout(r)
          BY <1>1 DEF Accept, Reject, CallerTimeout, LoopFree, Positions, TypeOK,
             batchVars
    <1>2. CASE RunCallback
          BY <1>2 DEF RunCallback, LoopFree, Positions, batchVars
    <1>3. CASE CloseLoop
          BY <1>3 DEF CloseLoop, Positions, batchVars
    <1>4. CASE Shutdown \/ UNCHANGED vars
          BY <1>4 DEF Shutdown, ShutdownBegin, ShutdownPut, ShutdownPutTimeout,
             ShutdownJoin, ShutdownJoinTimeout, Teardown, ShutdownUnload,
             ShutdownCleanup, ShutdownRelease, ShutdownRaises, Positions, vars,
             loopVars, batchVars
    \* Batch collection: there are no valid positions yet.
    <1>5. CASE WStart \/ WAnnounce \/ WPoll \/ WGetTimeout \/ WGetSentinel \/ WTakeFirst
               \/ WTakeNext \/ WMeetSentinel \/ WRequeue \/ WDispatch
          <2>1. validPositions' = <<>> /\ worker' # "predicting"
                /\ UNCHANGED <<loopOpen, callbacks, future>>
                BY <1>5 DEF WStart, WAnnounce, WPoll, WGetTimeout, WGetSentinel,
                   WTakeFirst, WTakeNext, Take, WMeetSentinel, WRequeue, WDispatch,
                   BatchPhase, Between, loopVars, batchVars
          <2>2. QED
                BY <2>1, EmptySeq DEF Positions
    <1>6. CASE WRefuseFirst \/ WRefuseNext
          <2>1. PICK next \in {"polling", "collecting"} : Refuse(next)
                BY <1>6 DEF WRefuseFirst, WRefuseNext
          <2>2. validPositions' = <<>>
                BY <1>6, <2>1 DEF WRefuseFirst, WRefuseNext, Refuse, BatchPhase,
                   Between, batchVars
          <2>3. worker' \in {"polling", "collecting"} /\ UNCHANGED <<loopOpen, future>>
                /\ (~loopOpen => callbacks' = callbacks)
                BY <2>1 DEF Refuse, Schedule
          <2>4. QED
                BY <2>2, <2>3, EmptySeq DEF Positions
    <1>7. CASE WPreprocess
          <2>1. validPositions \in Seq(Nat \ {0}) /\ cursor \in Nat \ {0}
                /\ validPositions' = Append(validPositions, cursor)
                /\ cursor' = cursor + 1 /\ worker = "preprocessing"
                /\ UNCHANGED <<worker, loopOpen, callbacks, future>>
                BY <1>7 DEF WPreprocess, TypeOK, loopVars
          <2>2. /\ Len(validPositions') = Len(validPositions) + 1
                /\ \A k \in 1..Len(validPositions) :
                      validPositions'[k] = validPositions[k]
                /\ validPositions'[Len(validPositions) + 1] = cursor
                BY <2>1, Appended
          <2>3. /\ Len(validPositions) \in Nat
                /\ \A k \in 1..Len(validPositions) : validPositions[k] \in Nat
                BY <2>1, LenProperties, ElementOfSeq
          <2>4. QED
                BY <2>1, <2>2, <2>3 DEF Positions
    <1>8. CASE WPreprocessFails
          <2>1. \A k \in 1..Len(validPositions) : validPositions[k] \in Nat
                BY ElementOfSeq DEF TypeOK
          <2>2. QED
                BY <1>8, <2>1 DEF WPreprocessFails, Schedule, Positions, TypeOK
    <1>9. CASE WNothingValid \/ WBatchEnd
          BY <1>9, EmptySeq DEF WNothingValid, WBatchEnd, ForgetBatch, Positions,
             loopVars
    <1>10. CASE WPreprocessed \/ WPredict \/ WPredictFails
          BY <1>10 DEF WPreprocessed, WPredict, WPredictFails, Positions, loopVars,
             batchVars
    <1>11. CASE WDeliver \/ WFail
          BY <1>11 DEF WDeliver, WFail, Schedule, Positions
    <1>12. QED
          BY <1>1, <1>2, <1>3, <1>4, <1>5, <1>6, <1>7, <1>8, <1>9, <1>10, <1>11
          DEF Next, Worker, Terminated

-----------------------------------------------------------------------------
(* The moves.                                                              *)

\* A request is appended to a place it was not in: nothing there is duplicated.
LEMMA AppendOnce ==
    ASSUME NEW S, NEW s \in Seq(S), NEW e \in S,
           NEW i \in 1..Len(Append(s, e))
    PROVE  \/ i \in 1..Len(s) /\ Append(s, e)[i] = s[i]
           \/ i = Len(s) + 1 /\ Append(s, e)[i] = e
    BY Appended, LenProperties

\* Nothing moves: at most futures change, in a way that suits where they are.
LEMMA MoveNothing ==
    ASSUME CInv, UNCHANGED <<queue, callbacks>>,
           Undelivered' = Undelivered,
           \A i \in Undelivered : batch'[i] = batch[i],
           \A r \in Requests :
              \/ future'[r] = future[r]
              \/ future[r] = "none" /\ future'[r] = "rejected"
              \/ future[r] = "pending" /\ future'[r] = "cancelled"
    PROVE  Once' /\ Placed' /\ Still
    <1>1. Once'
          BY DEF CInv, Once
    <1>2. \A r \in Requests : /\ InQueue(r)' <=> InQueue(r)
                              /\ InBatch(r)' <=> InBatch(r)
                              /\ InLoop(r)' <=> InLoop(r)
          BY DEF InQueue, InBatch, InLoop
    <1>3. Still
          BY <1>2 DEF Still, Held, Working, Decided
    <1>4. QED
          BY <1>1, <1>2, <1>3 DEF CInv, Placed

\* A request that is nowhere is accepted.
LEMMA MoveAccept ==
    ASSUME CInv, NEW r \in Requests, Accept(r)
    PROVE  /\ Once' /\ Placed'
           /\ Held' = Held \cup {r} /\ Working' = Working /\ Decided' = Decided
    <1>1. /\ queue \in Seq(Requests \cup {None})
          /\ future \in [Requests -> FutureStatus]
          BY DEF CInv, IInv, TypeOK
    <1>2. /\ queue' = Append(queue, r)
          /\ future' = [future EXCEPT ![r] = "pending"]
          /\ UNCHANGED <<callbacks, worker, batchVars>>
          /\ future[r] = "none"
          BY DEF Accept
    <1>3. ~InQueue(r) /\ ~InBatch(r) /\ ~InLoop(r)
          BY <1>2 DEF CInv, Placed
    <1>4. \A i \in 1..Len(queue') :
             \/ i \in 1..Len(queue) /\ queue'[i] = queue[i]
             \/ i = Len(queue) + 1 /\ queue'[i] = r
          BY <1>1, <1>2, AppendOnce
    <1>5. /\ Len(queue) + 1 \in 1..Len(queue') /\ queue'[Len(queue) + 1] = r
          /\ \A i \in 1..Len(queue) : i \in 1..Len(queue') /\ queue'[i] = queue[i]
          BY <1>1, <1>2, Appended, LenProperties
    <1>6. Undelivered' = Undelivered /\ batch' = batch
          BY <1>2 DEF Undelivered, batchVars
    <1>7. /\ \A q \in Requests : InQueue(q)' <=> (InQueue(q) \/ q = r)
          /\ \A q \in Requests : InBatch(q)' <=> InBatch(q)
          /\ \A q \in Requests : InLoop(q)' <=> InLoop(q)
          BY <1>2, <1>4, <1>5, <1>6 DEF InQueue, InBatch, InLoop
    <1>8. Once'
          <2>1. \A i, j \in 1..Len(queue') :
                   queue'[i] = queue'[j] /\ queue'[i] # None => i = j
                BY <1>3, <1>4 DEF InQueue, CInv, Once
          <2>2. QED
                BY <1>2, <1>6, <2>1 DEF CInv, Once
    <1>9. \A q \in Requests : future'[q] = IF q = r THEN "pending" ELSE future[q]
          BY <1>1, <1>2
    <1>10. Held' = Held \cup {r} /\ Working' = Working /\ Decided' = Decided
           BY <1>7 DEF Held, Working, Decided
    <1>11. QED
           BY <1>3, <1>7, <1>8, <1>9, <1>10 DEF CInv, Placed

\* The oldest callback is run: its future is resolved, or was cancelled.
LEMMA MoveResolve ==
    ASSUME CInv, RunCallback
    PROVE  /\ Once' /\ Placed'
           /\ Held' = Held /\ Working' = Working
           /\ Head(callbacks).req \in Decided
           /\ Decided' = Decided \ {Head(callbacks).req}
    <1>1. /\ callbacks \in Seq(Callback) /\ callbacks # <<>>
          /\ future \in [Requests -> FutureStatus]
          BY DEF CInv, IInv, TypeOK, RunCallback
    <1>2. /\ Head(callbacks) \in Callback
          /\ Head(callbacks) = callbacks[1]
          /\ 1 \in 1..Len(callbacks)
          /\ Len(Tail(callbacks)) = Len(callbacks) - 1
          /\ \A i \in 1..Len(Tail(callbacks)) :
                i + 1 \in 1..Len(callbacks) /\ Tail(callbacks)[i] = callbacks[i + 1]
          BY <1>1, HeadTail
    <1>3. PICK r \in Requests : r = Head(callbacks).req
          BY <1>2 DEF Callback
    <1>4. /\ callbacks' = Tail(callbacks)
          /\ UNCHANGED <<queue, worker, batchVars>>
          BY DEF RunCallback
    <1>5. Undelivered' = Undelivered /\ batch' = batch
          BY <1>4 DEF Undelivered, batchVars
    <1>6. \A i \in 1..Len(callbacks) :
             i = 1 \/ (i - 1 \in 1..Len(callbacks') /\ callbacks'[i - 1] = callbacks[i])
          BY <1>1, <1>2, <1>4, LenProperties
    <1>7. /\ \A q \in Requests : InQueue(q)' <=> InQueue(q)
          /\ \A q \in Requests : InBatch(q)' <=> InBatch(q)
          BY <1>4, <1>5 DEF InQueue, InBatch
    <1>8. Once'
          BY <1>2, <1>4, <1>5 DEF CInv, Once
    <1>9. InLoop(r) /\ ~InLoop(r)'
          BY <1>2, <1>3, <1>4 DEF InLoop, CInv, Once
    <1>10. \A q \in Requests \ {r} : InLoop(q)' <=> InLoop(q)
          <2> SUFFICES ASSUME NEW q \in Requests \ {r}
                       PROVE  InLoop(q)' <=> InLoop(q)
              OBVIOUS
          <2>1. ASSUME NEW i \in 1..Len(callbacks), callbacks[i].req = q
                PROVE  InLoop(q)'
                <3>1. i # 1
                      BY <1>2, <1>3, <2>1
                <3>2. QED
                      BY <1>6, <2>1, <3>1 DEF InLoop
          <2>2. ASSUME NEW i \in 1..Len(callbacks'), callbacks'[i].req = q
                PROVE  InLoop(q)
                BY <1>2, <1>4, <2>2 DEF InLoop
          <2>3. QED
                BY <2>1, <2>2 DEF InLoop
    <1>11. \/ future[r] = "pending" /\ future'[r] \in Outcomes
           \/ future[r] # "pending" /\ future'[r] = future[r]
          <2>1. Head(callbacks).status \in Outcomes
                BY <1>2 DEF Callback
          <2>2. QED
                BY <1>1, <1>3, <2>1 DEF RunCallback
    <1>12. \A q \in Requests \ {r} : future'[q] = future[q]
          BY <1>1, <1>3 DEF RunCallback
    <1>13. /\ Held' = Held /\ Working' = Working
           /\ r \in Decided /\ Decided' = Decided \ {r}
           BY <1>7, <1>9, <1>10 DEF Held, Working, Decided
    <1>14. QED
          <2>1. ASSUME NEW q \in Requests \ {r}
                PROVE  /\ ~(InQueue(q) /\ InBatch(q))'
                       /\ ~(InQueue(q) /\ InLoop(q))'
                       /\ ~(InBatch(q) /\ InLoop(q))'
                       /\ (InQueue(q) \/ InBatch(q) \/ InLoop(q))' =>
                             future'[q] \in {"pending", "cancelled"}
                       /\ future'[q] = "pending" =>
                             (InQueue(q) \/ InBatch(q) \/ InLoop(q))'
                BY <1>7, <1>10, <1>12 DEF CInv, Placed
          <2>2. ~InQueue(r) /\ ~InBatch(r)
                BY <1>3, <1>9 DEF CInv, Placed
          <2>3. future'[r] # "pending" /\ ~InQueue(r)' /\ ~InBatch(r)'
                BY <1>3, <1>7, <1>11, <2>2 DEF Outcomes
          <2>4. QED
                BY <1>3, <1>8, <1>9, <1>13, <2>1, <2>3 DEF Placed

\* The loop is closed: what it had to run and whoever waited is gone.
LEMMA MoveClose ==
    ASSUME CInv, CloseLoop
    PROVE  /\ Once' /\ Placed'
           /\ Held' = Held /\ Working' = Working /\ Decided' = {}
    <1>1. /\ callbacks' = <<>>
          /\ UNCHANGED <<queue, worker, batchVars>>
          /\ \A q \in Requests :
                future'[q] = IF future[q] = "pending" THEN "cancelled" ELSE future[q]
          BY DEF CloseLoop
    <1>2. Len(callbacks') = 0 /\ Undelivered' = Undelivered /\ batch' = batch
          BY <1>1, EmptySeq DEF Undelivered, batchVars
    <1>3. /\ \A q \in Requests : InQueue(q)' <=> InQueue(q)
          /\ \A q \in Requests : InBatch(q)' <=> InBatch(q)
          /\ \A q \in Requests : ~InLoop(q)'
          BY <1>1, <1>2 DEF InQueue, InBatch, InLoop
    <1>4. Once'
          BY <1>1, <1>2 DEF CInv, Once
    <1>5. Held' = Held /\ Working' = Working /\ Decided' = {}
          BY <1>3 DEF Held, Working, Decided
    <1>6. QED
          BY <1>1, <1>3, <1>4, <1>5 DEF CInv, Placed

\* The sentinel is put into the queue, by shutdown or by the worker.
LEMMA MoveSentinelIn ==
    ASSUME CInv, queue' = Append(queue, None), UNCHANGED <<future, callbacks>>,
           Undelivered' = Undelivered, batch' = batch
    PROVE  Once' /\ Placed' /\ Still
    <1>1. queue \in Seq(Requests \cup {None})
          BY DEF CInv, IInv, TypeOK
    <1>2. \A i \in 1..Len(queue') :
             \/ i \in 1..Len(queue) /\ queue'[i] = queue[i]
             \/ i = Len(queue) + 1 /\ queue'[i] = None
          BY <1>1, AppendOnce
    <1>3. \A i \in 1..Len(queue) : i \in 1..Len(queue') /\ queue'[i] = queue[i]
          BY <1>1, Appended, LenProperties
    <1>4. /\ \A q \in Requests : InQueue(q)' <=> InQueue(q)
          /\ \A q \in Requests : InBatch(q)' <=> InBatch(q)
          /\ \A q \in Requests : InLoop(q)' <=> InLoop(q)
          BY <1>2, <1>3, EngineAssumption DEF InQueue, InBatch, InLoop
    <1>5. Once'
          BY <1>2 DEF CInv, Once
    <1>6. Still
          BY <1>4 DEF Still, Held, Working, Decided
    <1>7. QED
          BY <1>4, <1>5, <1>6 DEF CInv, Placed

\* What the queue holds after its head was taken.
LEMMA QueueTail ==
    ASSUME CInv, queue # <<>>, queue' = Tail(queue)
    PROVE  /\ \A q \in Requests : InQueue(q)' <=> InQueue(q) /\ q # Head(queue)
           /\ \A i, j \in 1..Len(queue') :
                 queue'[i] = queue'[j] /\ queue'[i] # None => i = j
           /\ Head(queue) \in Requests => InQueue(Head(queue))
    <1>1. queue \in Seq(Requests \cup {None})
          BY DEF CInv, IInv, TypeOK
    <1>2. /\ Head(queue) = queue[1] /\ 1 \in 1..Len(queue)
          /\ Len(queue') = Len(queue) - 1
          /\ \A i \in 1..Len(queue') :
                i + 1 \in 1..Len(queue) /\ queue'[i] = queue[i + 1]
          BY <1>1, HeadTail
    <1>3. \A i \in 1..Len(queue) :
             i = 1 \/ (i - 1 \in 1..Len(queue') /\ queue'[i - 1] = queue[i])
          BY <1>1, <1>2, LenProperties
    <1>4. \A i, j \in 1..Len(queue') :
             queue'[i] = queue'[j] /\ queue'[i] # None => i = j
          BY <1>2 DEF CInv, Once
    <1>5. ASSUME NEW q \in Requests
          PROVE  InQueue(q)' <=> InQueue(q) /\ q # Head(queue)
          <2>1. ASSUME InQueue(q)'
                PROVE  InQueue(q) /\ q # Head(queue)
                <3>1. PICK i \in 1..Len(queue') : queue'[i] = q
                      BY <2>1 DEF InQueue
                <3>2. i + 1 \in 1..Len(queue) /\ queue[i + 1] = q /\ i + 1 # 1
                      BY <1>2, <3>1
                <3>3. q # None
                      BY EngineAssumption
                <3>4. QED
                      BY <1>2, <3>2, <3>3 DEF InQueue, CInv, Once
          <2>2. ASSUME InQueue(q), q # Head(queue)
                PROVE  InQueue(q)'
                BY <1>2, <1>3, <2>2 DEF InQueue
          <2>3. QED
                BY <2>1, <2>2
    <1>6. QED
          BY <1>2, <1>4, <1>5 DEF InQueue

\* The worker takes the sentinel out of the queue.
LEMMA MoveSentinelOut ==
    ASSUME CInv, queue # <<>>, Head(queue) = None, queue' = Tail(queue),
           UNCHANGED <<future, callbacks>>, Undelivered' = Undelivered, batch' = batch
    PROVE  Once' /\ Placed' /\ Still
    <1>1. /\ \A q \in Requests : InQueue(q)' <=> InQueue(q)
          /\ \A q \in Requests : InBatch(q)' <=> InBatch(q)
          /\ \A q \in Requests : InLoop(q)' <=> InLoop(q)
          BY QueueTail, EngineAssumption DEF InBatch, InLoop
    <1>2. Once'
          BY QueueTail DEF CInv, Once
    <1>3. Still
          BY <1>1 DEF Still, Held, Working, Decided
    <1>4. QED
          BY <1>1, <1>2, <1>3 DEF CInv, Placed

\* The worker takes a request from the queue into the batch.
LEMMA MoveTake ==
    ASSUME CInv, Take, worker \in {"waiting", "collecting"},
           worker = "collecting" => Len(batch) < BatchMax
    PROVE  Once' /\ Placed' /\ Begun(Head(queue))
    <1> DEFINE r == Head(queue)
    <1>1. /\ queue # <<>> /\ r \in Requests
          /\ queue' = Tail(queue) /\ batch' = Append(batch, r)
          /\ UNCHANGED <<future, callbacks>> /\ worker' = "collecting"
          BY DEF Take, loopVars
    <1>2. batch \in Seq(Requests)
          BY DEF CInv, IInv, TypeOK
    <1>3. Undelivered = 1..Len(batch)
          <2>1. CASE worker = "collecting"
                BY <2>1 DEF Undelivered
          <2>2. CASE worker = "waiting"
                <3>1. batch = <<>>
                      BY <2>2 DEF CInv, IInv, BatchPhase, Between
                <3>2. Undelivered = {}
                      BY <2>2 DEF Undelivered
                <3>3. QED
                      BY <3>1, <3>2, EmptySeq
          <2>3. QED
                BY <2>1, <2>2
    <1>4. Undelivered' = 1..Len(batch')
          BY <1>1 DEF Undelivered
    <1>5. \A i \in 1..Len(batch') :
             \/ i \in 1..Len(batch) /\ batch'[i] = batch[i]
             \/ i = Len(batch) + 1 /\ batch'[i] = r
          BY <1>1, <1>2, AppendOnce
    <1>6. /\ Len(batch) + 1 \in 1..Len(batch') /\ batch'[Len(batch) + 1] = r
          /\ \A i \in 1..Len(batch) : i \in 1..Len(batch') /\ batch'[i] = batch[i]
          BY <1>1, <1>2, Appended, LenProperties
    <1>7. InQueue(r) /\ ~InBatch(r) /\ ~InLoop(r)
          BY <1>1, QueueTail DEF CInv, Placed
    <1>8. /\ \A q \in Requests : InQueue(q)' <=> InQueue(q) /\ q # r
          /\ \A q \in Requests : InBatch(q)' <=> InBatch(q) \/ q = r
          /\ \A q \in Requests : InLoop(q)' <=> InLoop(q)
          BY <1>1, <1>3, <1>4, <1>5, <1>6, QueueTail DEF InBatch, InLoop
    <1>9. Once'
          <2>1. \A i, j \in Undelivered' : batch'[i] = batch'[j] => i = j
                BY <1>3, <1>4, <1>5, <1>7 DEF InBatch, CInv, Once
          <2>2. QED
                BY <1>1, <2>1, QueueTail DEF CInv, Once
    <1>10. Begun(r)
          <2>1. r \notin BadDims
                BY DEF Take
          <2>2. QED
                BY <1>1, <1>7, <1>8, <2>1 DEF Begun, Held, Working, Decided
    <1>11. QED
          BY <1>1, <1>7, <1>8, <1>9, <1>10 DEF CInv, Placed

\* What call_soon_threadsafe adds to the callbacks, if the loop is open.
LEMMA Scheduled ==
    ASSUME CInv, NEW r \in Requests, NEW status \in Outcomes,
           NEW result \in Requests \cup {None}, Schedule(r, status, result),
           ~InLoop(r)
    PROVE  /\ \A q \in Requests : InLoop(q)' <=> InLoop(q) \/ (q = r /\ loopOpen)
           /\ \A i, j \in 1..Len(callbacks') :
                 callbacks'[i].req = callbacks'[j].req => i = j
    <1> DEFINE cb == [req |-> r, status |-> status, row |-> result]
    <1>1. callbacks \in Seq(Callback) /\ cb \in Callback /\ cb.req = r
          BY DEF CInv, IInv, TypeOK, Callback
    <1>2. CASE ~loopOpen
          BY <1>2 DEF Schedule, InLoop, CInv, Once
    <1>3. CASE loopOpen
          <2>1. callbacks' = Append(callbacks, cb)
                BY <1>3 DEF Schedule
          <2> HIDE DEF cb
          <2>2. \A i \in 1..Len(callbacks') :
                   \/ i \in 1..Len(callbacks) /\ callbacks'[i] = callbacks[i]
                   \/ i = Len(callbacks) + 1 /\ callbacks'[i] = cb
                BY <1>1, <2>1, AppendOnce
          <2>3. /\ Len(callbacks) + 1 \in 1..Len(callbacks')
                /\ callbacks'[Len(callbacks) + 1] = cb
                /\ \A i \in 1..Len(callbacks) :
                      i \in 1..Len(callbacks') /\ callbacks'[i] = callbacks[i]
                BY <1>1, <2>1, Appended, LenProperties
          <2>4. \A q \in Requests : InLoop(q)' <=> InLoop(q) \/ q = r
                BY <1>1, <2>2, <2>3 DEF InLoop
          <2>5. \A i, j \in 1..Len(callbacks') :
                   callbacks'[i].req = callbacks'[j].req => i = j
                BY <1>1, <2>2 DEF InLoop, CInv, Once
          <2>6. QED
                BY <1>3, <2>4, <2>5
    <1>4. QED
          BY <1>2, <1>3

\* A request of the queue is refused: from the queue to the callbacks.
LEMMA MoveRefuse ==
    ASSUME CInv, NEW next, Refuse(next), Undelivered' = Undelivered
    PROVE  Once' /\ Placed' /\ Judged(Head(queue))
    <1> DEFINE r == Head(queue)
    <1>1. /\ queue # <<>> /\ r \in Requests /\ queue' = Tail(queue)
          /\ Schedule(r, "invalid", None) /\ future' = future /\ batch' = batch
          BY EngineAssumption DEF Refuse, batchVars
    <1>2. InQueue(r) /\ ~InBatch(r) /\ ~InLoop(r)
          BY <1>1, QueueTail DEF CInv, Placed
    <1>3. /\ \A q \in Requests : InLoop(q)' <=> InLoop(q) \/ (q = r /\ loopOpen)
          /\ \A i, j \in 1..Len(callbacks') :
                callbacks'[i].req = callbacks'[j].req => i = j
          BY <1>1, <1>2, Scheduled DEF Outcomes
    <1>4. /\ \A q \in Requests : InQueue(q)' <=> InQueue(q) /\ q # r
          /\ \A q \in Requests : InBatch(q)' <=> InBatch(q)
          BY <1>1, QueueTail DEF InBatch
    <1>5. Once'
          BY <1>1, <1>3, QueueTail DEF CInv, Once
    <1>6. ~loopOpen => future[r] # "pending"
          BY <1>1 DEF CInv, Positions
    <1>7. Judged(r)
          <2>1. r \in BadDims
                BY DEF Refuse
          <2>2. QED
                BY <1>1, <1>2, <1>3, <1>4, <2>1 DEF Judged, Held, Working, Decided
    <1>8. QED
          BY <1>1, <1>2, <1>3, <1>4, <1>5, <1>6, <1>7 DEF CInv, Placed

\* An item of the batch is settled: from the batch to the callbacks.
LEMMA MoveSettle ==
    ASSUME CInv, NEW p \in Undelivered, NEW r \in Requests, r = batch[p],
           NEW status \in Outcomes,
           NEW result \in Requests \cup {None}, Schedule(r, status, result),
           Undelivered' = Undelivered \ {p}, UNCHANGED <<queue, future, batch>>
    PROVE  Once' /\ Placed' /\ Judged(r)
    <1>1. InBatch(r) /\ ~InQueue(r) /\ ~InLoop(r)
          BY DEF InBatch, CInv, Placed
    <1>2. /\ \A q \in Requests : InLoop(q)' <=> InLoop(q) \/ (q = r /\ loopOpen)
          /\ \A i, j \in 1..Len(callbacks') :
                callbacks'[i].req = callbacks'[j].req => i = j
          BY <1>1, Scheduled
    <1>3. /\ \A q \in Requests : InQueue(q)' <=> InQueue(q)
          /\ \A q \in Requests : InBatch(q)' <=> InBatch(q) /\ q # r
          BY DEF InQueue, InBatch, CInv, Once
    <1>4. Once'
          BY <1>2 DEF CInv, Once
    <1>5. ~loopOpen => future[r] # "pending"
          BY DEF CInv, Positions
    <1>6. Judged(r)
          BY <1>1, <1>2, <1>3 DEF Judged, Held, Working, Decided
    <1>7. QED
          BY <1>1, <1>2, <1>3, <1>4, <1>5, <1>6 DEF CInv, Placed

-----------------------------------------------------------------------------
(* Every step is one of these moves.                                       *)

\* What the worker has yet to deliver is a matter of its own variables.
LEMMA SameBatch ==
    ASSUME UNCHANGED <<worker, batchVars>>
    PROVE  Undelivered' = Undelivered /\ batch' = batch
    BY DEF Undelivered, batchVars

\* The event loop accepts, cancels and resolves requests.
LEMMA LoopCustody ==
    ASSUME CInv,
           \/ \E r \in Requests : Accept(r) \/ Reject(r) \/ CallerTimeout(r)
           \/ RunCallback \/ CloseLoop
    PROVE  Once' /\ Placed'
    <1>1. CASE \E r \in Requests : Reject(r) \/ CallerTimeout(r)
          <2>1. PICK r \in Requests :
                   /\ \/ /\ future[r] = "none"
                         /\ future' = [future EXCEPT ![r] = "rejected"]
                      \/ /\ future[r] = "pending"
                         /\ future' = [future EXCEPT ![r] = "cancelled"]
                   /\ UNCHANGED <<queue, callbacks, worker, batchVars>>
                BY <1>1 DEF Reject, CallerTimeout
          <2>2. \A q \in Requests :
                   \/ future'[q] = future[q]
                   \/ future[q] = "none" /\ future'[q] = "rejected"
                   \/ future[q] = "pending" /\ future'[q] = "cancelled"
                BY <2>1 DEF CInv, IInv, TypeOK
          <2>3. QED
                BY <2>1, <2>2, SameBatch, MoveNothing
    <1>2. QED
          BY <1>1, MoveAccept, MoveResolve, MoveClose

\* Shutdown at most adds the sentinel to the queue.
LEMMA ShutdownCustody ==
    ASSUME CInv, Shutdown
    PROVE  Once' /\ Placed' /\ Still
    <1>1. UNCHANGED <<future, callbacks, worker, batchVars>>
          BY DEF Shutdown, ShutdownBegin, ShutdownPut, ShutdownPutTimeout,
             ShutdownJoin, ShutdownJoinTimeout, Teardown, ShutdownUnload,
             ShutdownCleanup, ShutdownRelease, ShutdownRaises, loopVars
    <1>2. queue' = Append(queue, None) \/ queue' = queue
          BY DEF Shutdown, ShutdownBegin, ShutdownPut, ShutdownPutTimeout,
             ShutdownJoin, ShutdownJoinTimeout, Teardown, ShutdownUnload,
             ShutdownCleanup, ShutdownRelease, ShutdownRaises
    <1>3. QED
          BY <1>1, <1>2, SameBatch, MoveSentinelIn, MoveNothing

\* Until it is dispatched the whole batch is undelivered.
LEMMA CollectingCustody ==
    ASSUME CInv,
           \/ WStart \/ WAnnounce \/ WPoll \/ WGetTimeout \/ WGetSentinel
           \/ WRefuseFirst \/ WTakeFirst \/ WRefuseNext \/ WTakeNext
           \/ WMeetSentinel \/ WRequeue \/ WDispatch
    PROVE  Once' /\ Placed' /\ WorkerMove
    <1>1. CASE WStart \/ WAnnounce \/ WPoll \/ WGetTimeout
          <2>1. Undelivered = {} /\ Undelivered' = {}
                BY <1>1 DEF WStart, WAnnounce, WPoll, WGetTimeout, Undelivered
          <2>2. UNCHANGED <<queue, callbacks, future, batch>>
                BY <1>1 DEF WStart, WAnnounce, WPoll, WGetTimeout, loopVars, batchVars
          <2>3. QED
                BY <2>1, <2>2, MoveNothing DEF WorkerMove
    <1>2. CASE WGetSentinel \/ WMeetSentinel
          <2>1. /\ queue # <<>> /\ Head(queue) = None /\ queue' = Tail(queue)
                /\ UNCHANGED <<callbacks, future, batch>>
                BY <1>2 DEF WGetSentinel, WMeetSentinel, loopVars, batchVars
          <2>2. Undelivered' = Undelivered
                BY <1>2, <2>1 DEF WGetSentinel, WMeetSentinel, Undelivered
          <2>3. QED
                BY <2>1, <2>2, MoveSentinelOut DEF WorkerMove
    <1>3. CASE WRefuseFirst \/ WRefuseNext
          <2>1. PICK next \in {"polling", "collecting"} :
                   /\ Refuse(next)
                   /\ worker = IF next = "polling" THEN "waiting" ELSE "collecting"
                BY <1>3 DEF WRefuseFirst, WRefuseNext
          <2>2. worker' = next /\ batch' = batch
                BY <2>1 DEF Refuse, batchVars
          <2>3. Undelivered' = Undelivered
                BY <2>1, <2>2 DEF Undelivered
          <2>5. Head(queue) \in Requests
                BY <2>1, EngineAssumption DEF Refuse
          <2>6. QED
                BY <2>1, <2>3, <2>5, MoveRefuse DEF WorkerMove
    <1>4. CASE WTakeFirst \/ WTakeNext
          <2>1. /\ Take /\ worker \in {"waiting", "collecting"}
                /\ worker = "collecting" => Len(batch) < BatchMax
                BY <1>4 DEF WTakeFirst, WTakeNext
          <2>2. Head(queue) \in Requests
                BY <2>1 DEF Take
          <2>3. QED
                BY <2>1, <2>2, MoveTake DEF WorkerMove
    <1>5. CASE WRequeue \/ WDispatch
          <2>1. /\ worker \in {"collecting", "requeuing"} /\ worker' = "preprocessing"
                /\ UNCHANGED <<callbacks, future, batch, cursor, validPositions>>
                BY <1>5 DEF WRequeue, WDispatch, loopVars, batchVars
          <2>2. cursor = 1 /\ validPositions = <<>>
                BY <2>1 DEF CInv, IInv, BatchPhase
          <2>3. Undelivered = 1..Len(batch)
                BY <2>1 DEF Undelivered
          <2>4. {validPositions'[k] : k \in 1..Len(validPositions')} = {}
                BY <2>1, <2>2, EmptySeq
          <2>5. Undelivered' = 1..Len(batch)
                BY <2>1, <2>2, <2>4 DEF Undelivered
          <2>6. queue' = queue \/ queue' = Append(queue, None)
                BY <1>5 DEF WRequeue, WDispatch
          <2>7. QED
                BY <2>1, <2>3, <2>5, <2>6, MoveNothing, MoveSentinelIn DEF WorkerMove
    <1>6. QED
          BY <1>1, <1>2, <1>3, <1>4, <1>5

ValidSet == {validPositions[k] : k \in 1..Len(validPositions)}

\* Preprocessing keeps the item in the batch or settles it.
LEMMA PreprocessingCustody ==
    ASSUME CInv,
           WPreprocess \/ WPreprocessFails \/ WNothingValid \/ WPreprocessed
    PROVE  Once' /\ Placed' /\ WorkerMove
    <1>1. /\ worker = "preprocessing"
          /\ Undelivered = cursor..Len(batch) \cup ValidSet
          BY DEF WPreprocess, WPreprocessFails, WNothingValid, WPreprocessed,
             Undelivered, ValidSet
    <1>2. /\ batch \in Seq(Requests) /\ validPositions \in Seq(Nat \ {0})
          /\ Len(batch) \in Nat /\ Len(validPositions) \in Nat
          /\ cursor \in Nat \ {0}
          BY LenProperties DEF CInv, IInv, TypeOK
    <1>3. CASE WPreprocess
          <2>1. /\ UNCHANGED <<queue, callbacks, future, batch, worker>>
                /\ validPositions' = Append(validPositions, cursor)
                /\ cursor' = cursor + 1 /\ cursor <= Len(batch)
                BY <1>3 DEF WPreprocess, loopVars
          <2>2. /\ Len(validPositions') = Len(validPositions) + 1
                /\ \A k \in 1..Len(validPositions) :
                      validPositions'[k] = validPositions[k]
                /\ validPositions'[Len(validPositions) + 1] = cursor
                BY <1>2, <2>1, Appended
          <2>3. ValidSet' = ValidSet \cup {cursor}
                <3>1. 1..Len(validPositions') =
                         1..Len(validPositions) \cup {Len(validPositions) + 1}
                      BY <1>2, <2>2
                <3>2. ValidSet' = {validPositions'[k] : k \in 1..Len(validPositions')}
                      BY DEF ValidSet
                <3>3. ValidSet' = {validPositions'[k] : k \in 1..Len(validPositions)}
                                  \cup {cursor}
                      BY <2>2, <3>1, <3>2, Zenon
                <3>4. {validPositions'[k] : k \in 1..Len(validPositions)} = ValidSet
                      BY <2>2, Zenon DEF ValidSet
                <3>5. QED
                      BY <3>3, <3>4
          <2>4. cursor..Len(batch) = {cursor} \cup (cursor + 1)..Len(batch)
                BY <1>2, <2>1
          <2>5. Undelivered' = (cursor + 1)..Len(batch) \cup ValidSet'
                BY <1>1, <2>1 DEF Undelivered, ValidSet
          <2>6. Undelivered' = Undelivered
                BY <1>1, <2>3, <2>4, <2>5
          <2>7. QED
                BY <2>1, <2>6, MoveNothing DEF WorkerMove
    <1>4. CASE WPreprocessFails
          <2>1. /\ UNCHANGED <<queue, future, batch, worker, validPositions>>
                /\ Schedule(batch[cursor], "unreadable", None)
                /\ cursor' = cursor + 1 /\ cursor <= Len(batch)
                BY <1>4 DEF WPreprocessFails
          <2>2. cursor \in Undelivered /\ batch[cursor] \in Requests
                BY <1>1, <1>2, <2>1, ElementOfSeq
          <2>3. cursor \notin ValidSet
                BY <1>1, <1>2, ElementOfSeq DEF ValidSet, CInv, Positions
          <2>4. cursor..Len(batch) = {cursor} \cup (cursor + 1)..Len(batch)
                /\ cursor \notin (cursor + 1)..Len(batch)
                BY <1>2, <2>1
          <2>5. Undelivered' = (cursor + 1)..Len(batch) \cup ValidSet
                BY <1>1, <2>1 DEF Undelivered, ValidSet
          <2>6. Undelivered' = Undelivered \ {cursor}
                BY <1>1, <2>3, <2>4, <2>5
          <2>7. QED
                BY <2>1, <2>2, <2>6, MoveSettle DEF Outcomes, WorkerMove
    <1>5. CASE WNothingValid
          <2>1. /\ UNCHANGED <<queue, callbacks, future>>
                /\ worker' \in {"polling", "crashed"}
                /\ cursor > Len(batch) /\ validPositions = <<>>
                BY <1>5 DEF WNothingValid, loopVars
          <2>2. ValidSet = {}
                BY <2>1, EmptySeq DEF ValidSet
          <2>3. Undelivered = {}
                BY <1>1, <1>2, <2>1, <2>2
          <2>4. Undelivered' = {}
                BY <2>1 DEF Undelivered
          <2>5. QED
                BY <2>1, <2>3, <2>4, MoveNothing DEF WorkerMove
    <1>6. CASE WPreprocessed
          <2>1. /\ UNCHANGED <<queue, callbacks, future, batch, validPositions>>
                /\ worker' = "predicting" /\ cursor > Len(batch)
                BY <1>6 DEF WPreprocessed, loopVars
          <2>2. Undelivered' = ValidSet
                BY <2>1 DEF Undelivered, ValidSet
          <2>3. cursor..Len(batch) = {}
                BY <1>2, <2>1
          <2>4. QED
                BY <1>1, <2>1, <2>2, <2>3, MoveNothing DEF WorkerMove
    <1>7. QED
          BY <1>3, <1>4, <1>5, <1>6

\* The loops over the valid positions settle one item after the other.
LEMMA DeliveringCustody ==
    ASSUME CInv,
           WPredict \/ WPredictFails \/ WDeliver \/ WFail \/ WBatchEnd
    PROVE  Once' /\ Placed' /\ WorkerMove
    <1>1. /\ validPositions \in Seq(Nat \ {0})
          /\ Len(validPositions) \in Nat
          /\ cursor \in Nat \ {0}
          BY LenProperties DEF CInv, IInv, TypeOK
    <1>2. CASE WPredict \/ WPredictFails
          <2>1. /\ UNCHANGED <<queue, callbacks, future, batch, validPositions, cursor>>
                /\ worker = "predicting" /\ worker' \in {"delivering", "failing"}
                BY <1>2 DEF WPredict, WPredictFails, loopVars, batchVars
          <2>2. cursor = 1
                BY <2>1 DEF CInv, Positions
          <2>3. Undelivered' = Undelivered
                BY <2>1, <2>2 DEF Undelivered
          <2>4. QED
                BY <2>1, <2>3, MoveNothing DEF WorkerMove
    <1>3. CASE WDeliver \/ WFail
          <2> DEFINE p == validPositions[cursor]
                     r == batch[p]
          <2>1. /\ worker \in {"delivering", "failing"} /\ worker' = worker
                /\ cursor <= Len(validPositions) /\ cursor' = cursor + 1
                /\ UNCHANGED <<queue, future, batch, validPositions>>
                BY <1>3 DEF WDeliver, WFail
          <2>2. Undelivered = {validPositions[k] : k \in cursor..Len(validPositions)}
                BY <2>1 DEF Undelivered
          <2>3. Undelivered' =
                   {validPositions[k] : k \in (cursor + 1)..Len(validPositions)}
                BY <2>1 DEF Undelivered
          <2>4. cursor..Len(validPositions)
                   = {cursor} \cup (cursor + 1)..Len(validPositions)
                BY <1>1, <2>1
          <2>5. \A k \in (cursor + 1)..Len(validPositions) : validPositions[k] # p
                BY <1>1, <2>1 DEF CInv, Positions
          <2>6. p \in Undelivered /\ Undelivered' = Undelivered \ {p}
                BY <2>2, <2>3, <2>4, <2>5
          <2>7. cursor \in 1..Len(validPositions)
                BY <1>1, <2>1
          <2>8. r \in Requests /\ tensors[cursor] \in Requests
                BY <2>7, ElementOfSeq DEF CInv, IInv, BatchShape, TypeOK
          <2>9. CASE WDeliver
                <3>1. Schedule(r, "answered", tensors[cursor])
                      BY <2>9 DEF WDeliver
                <3>2. QED
                      BY <2>1, <2>6, <2>8, <3>1, MoveSettle DEF Outcomes, WorkerMove
          <2>10. CASE WFail
                <3>1. Schedule(r, "failed", None)
                      BY <2>10 DEF WFail
                <3>2. QED
                      BY <2>1, <2>6, <2>8, <3>1, MoveSettle DEF Outcomes, WorkerMove
          <2>11. QED
                BY <1>3, <2>9, <2>10
    <1>4. CASE WBatchEnd
          <2>1. /\ worker \in {"delivering", "failing"} /\ worker' = "polling"
                /\ cursor > Len(validPositions)
                /\ UNCHANGED <<queue, callbacks, future>>
                BY <1>4 DEF WBatchEnd, loopVars
          <2>2. Undelivered = {validPositions[k] : k \in cursor..Len(validPositions)}
                BY <2>1 DEF Undelivered
          <2>3. Undelivered = {} /\ Undelivered' = {}
                BY <1>1, <2>1, <2>2 DEF Undelivered
          <2>4. QED
                BY <2>1, <2>3, MoveNothing DEF WorkerMove
    <1>5. QED
          BY <1>2, <1>3, <1>4

\* The initial state satisfies the invariant.
LEMMA InitCInv == Init => CInv
    <1> SUFFICES ASSUME Init
                 PROVE  CInv
        OBVIOUS
    <1>1. queue = <<>> /\ callbacks = <<>> /\ validPositions = <<>>
          /\ Undelivered = {} /\ loopOpen /\ worker = "starting"
          BY DEF Init, Undelivered
    <1>2. Len(<<>>) = 0
          BY EmptySeq
    <1>3. Positions /\ Once
          BY <1>1, <1>2 DEF Positions, Once
    <1>4. \A r \in Requests : ~InQueue(r) /\ ~InBatch(r) /\ ~InLoop(r)
          <2>1. 1..Len(queue) = {} /\ 1..Len(callbacks) = {}
                BY <1>1, <1>2
          <2>2. QED
                BY <1>1, <2>1 DEF InQueue, InBatch, InLoop
    <1>5. \A r \in Requests : future[r] = "none"
          BY DEF Init
    <1>6. Placed
          BY <1>4, <1>5 DEF Placed
    <1>7. QED
          BY <1>3, <1>6, InitIInv DEF CInv

\* Every step preserves the invariant.
LEMMA NextCInv == CInv /\ [Next]_vars => CInv'
    <1> SUFFICES ASSUME CInv, [Next]_vars
                 PROVE  CInv'
        OBVIOUS
    <1>1. IInv' /\ Positions'
          BY NextIInv, PositionsStep DEF CInv
    <1>2. CASE UNCHANGED vars
          <2>1. UNCHANGED <<queue, callbacks, future, worker, batchVars>>
                BY <1>2 DEF vars, loopVars
          <2>2. QED
                BY <1>1, <2>1, SameBatch, MoveNothing DEF CInv
    <1>3. CASE Next
          <2>1. Once' /\ Placed'
                BY <1>2, <1>3, LoopCustody, ShutdownCustody, CollectingCustody,
                   PreprocessingCustody, DeliveringCustody
                DEF Next, Worker, Terminated, CInv
          <2>2. QED
                BY <1>1, <2>1 DEF CInv
    <1>4. QED
          BY <1>2, <1>3

\* Every accepted request is in exactly one place on its way to its future, and
\* none is left behind in one after its future was resolved.
THEOREM CustodyHolds == Spec => []Custody
    <1>1. CInv => Custody
          <2> SUFFICES ASSUME CInv, NEW r \in Requests
                       PROVE  /\ \A c, d \in Custodians(r) : c = d
                              /\ future[r] = "pending" => Custodians(r) # {}
                              /\ future[r] \in Outcomes => Custodians(r) = {}
              BY DEF Custody
          <2>1. \A c \in Custodians(r) :
                   \/ \E i \in 1..Len(queue) : queue[i] = r /\ c = <<"queue", i>>
                   \/ \E i \in Undelivered : batch[i] = r /\ c = <<"batch", i>>
                   \/ \E i \in 1..Len(callbacks) :
                         callbacks[i].req = r /\ c = <<"loop", i>>
                BY DEF Custodians
          <2>2. Custodians(r) # {} <=> InQueue(r) \/ InBatch(r) \/ InLoop(r)
                BY DEF Custodians, InQueue, InBatch, InLoop
          <2>3. r # None
                BY EngineAssumption
          <2>4. \A c, d \in Custodians(r) : c = d
                BY <2>1, <2>3 DEF CInv, Once, Placed, InQueue, InBatch, InLoop
          <2>5. QED
                BY <2>2, <2>4 DEF CInv, Placed, Outcomes
    <1>2. QED
          BY <1>1, InitCInv, NextCInv, PTL DEF Spec

-----------------------------------------------------------------------------
(* Every accepted request is served: a lattice of two parts.  While the    *)
(* request is in the queue or the batch, the worker has finitely much work *)
(* before it, whoever joins the queue meanwhile, as each request joins it  *)
(* once; while its outcome waits for the event loop, so many callbacks.    *)

\* The worker ends by itself only after a request for shutdown.
Alive == worker = "exited" => shutdownEvent

SInv == CInv /\ Cursors /\ Alive

LEMMA AliveStep == IInv /\ Alive /\ [Next]_vars => Alive'
    <1> SUFFICES ASSUME IInv, Alive, [Next]_vars
                 PROVE  Alive'
        OBVIOUS
    <1> USE DEF Alive
    <1>1. CASE WGetSentinel
          <2>1. queue \in Seq(Requests \cup {None}) /\ queue # <<>> /\ Head(queue) = None
                BY <1>1 DEF WGetSentinel, IInv, TypeOK
          <2>2. 1 \in 1..Len(queue) /\ queue[1] = None
                BY <2>1, HeadTail
          <2>3. shut # "idle"
                BY <2>2 DEF IInv, SentinelPhase
          <2>4. QED
                BY <1>1, <2>3 DEF IInv, TeardownPhase, WGetSentinel, shutdownVars
    <1>2. CASE ~WGetSentinel
          BY <1>2 DEF Next, Accept, Reject, CallerTimeout, RunCallback, CloseLoop,
             Worker, WStart, WAnnounce, WPoll, WGetTimeout, WRefuseFirst, WTakeFirst,
             WRefuseNext, WTakeNext, Refuse, Take, WMeetSentinel, WRequeue, WDispatch,
             WPreprocess, WPreprocessFails, WNothingValid, WPreprocessed, WPredict,
             WPredictFails, WDeliver, WFail, WBatchEnd, Shutdown, ShutdownBegin,
             ShutdownPut, ShutdownPutTimeout, ShutdownJoin, ShutdownJoinTimeout,
             Teardown, ShutdownUnload, ShutdownCleanup, ShutdownRelease,
             ShutdownRaises, Terminated, vars, shutdownVars
    <1>3. QED
          BY <1>1, <1>2

LEMMA ServingInductive == Spec => []SInv
    <1>1. Spec => []CInv
          BY InitCInv, NextCInv, PTL DEF Spec
    <1>2. Init => Alive
          BY DEF Init, Alive
    <1>3. Spec => []Alive
          BY <1>2, AliveStep, Inductive, PTL DEF Spec
    <1>4. QED
          BY <1>1, <1>3, CursorsInductive, PTL DEF SInv

\* What Served lets a pending request end with.
Resolved(r) ==
    \/ future[r] # "pending"
    \/ worker = "crashed" \/ shutdownEvent \/ ~loopOpen

\* Its outcome is with the event loop, n callbacks from its turn.
Turn(r) == ~Resolved(r) /\ InLoop(r)
TurnIn(r, n) == ~Resolved(r) /\ n \in 1..Len(callbacks) /\ callbacks[n].req = r

\* A request that joins the queue brings at most a round of the worker's loop, and
\* two of them are set aside for each that may still join.
Unsubmitted == {q \in Requests : future[q] = "none"}
Backlog == Len(queue) + 2 * Cardinality(Unsubmitted)
Round == 3 * BatchMax + 8
Work == Round * Backlog + StepsLeft

WorkedIn(r, n) == ~Resolved(r) /\ ~InLoop(r) /\ Work = n

\* A shorter backlog outweighs the steps of a round.
LEMMA LessWork ==
    ASSUME NEW round \in Nat, NEW a \in Nat, NEW b \in Nat, NEW s \in Nat,
           NEW t \in Nat, s < round, t < round, b < a \/ (b = a /\ t < s)
    PROVE  round * b + t < round * a + s
    <1>1. CASE b = a
          BY <1>1
    <1>2. CASE b < a
          <2>1. PICK d \in Nat : a = b + 1 + d
                <3>1. a - b - 1 \in Nat /\ a = b + 1 + (a - b - 1)
                      BY <1>2
                <3>2. QED
                      BY <3>1
          <2>2. round * a = round * b + round + round * d
                BY <2>1
          <2>3. round * d \in Nat /\ round * b \in Nat
                OBVIOUS
          <2>4. QED
                BY <2>2, <2>3
    <1>3. QED
          BY <1>1, <1>2

\* While a request waits for its result nothing of shutdown is going on, the worker
\* lives and the loop is free.
LEMMA WhileServed ==
    ASSUME SInv, NEW r \in Requests, ~Resolved(r)
    PROVE  /\ LoopFree /\ shut = "idle" /\ ~shutdownEvent
           /\ ~WorkerDead /\ worker # "requeuing"
           /\ future[r] = "pending"
    BY DEF SInv, CInv, Alive, Resolved, IInv, TeardownPhase, SentinelPhase, LoopFree,
       WorkerDead

\* The work is a number, and so it is after a step.
Measured ==
    /\ Cardinality(Unsubmitted) \in Nat
    /\ Backlog \in Nat
    /\ StepsLeft \in Nat /\ StepsLeft < Round
    /\ Round \in Nat
    /\ Work \in Nat

LEMMA WorkMeasured == IsFiniteSet(Requests) /\ SInv => Measured
    <1> SUFFICES ASSUME IsFiniteSet(Requests), SInv
                 PROVE  Measured
        OBVIOUS
    <1>1. IsFiniteSet(Unsubmitted)
          BY FS_Subset DEF Unsubmitted
    <1>2. Cardinality(Unsubmitted) \in Nat
          BY <1>1, FS_CardinalityType
    <1>3. /\ Len(queue) \in Nat
          /\ StepsLeft \in Nat /\ StepsLeft <= 3 * BatchMax + 7
          BY DistanceBound DEF SInv, CInv, Bounded
    <1>4. Round \in Nat
          BY EngineAssumption DEF Round
    <1>5. Backlog \in Nat
          BY <1>2, <1>3 DEF Backlog
    <1>6. Round * Backlog \in Nat
          BY <1>4, <1>5
    <1>7. QED
          BY <1>2, <1>3, <1>4, <1>5, <1>6, EngineAssumption DEF Work, Measured, Round

LEMMA WorkMeasuredNext ==
    ASSUME IsFiniteSet(Requests)
    PROVE  SInv' => Measured'
    <1>1. SInv => Measured
          BY WorkMeasured
    <1>2. QED
          BY <1>1, PTL

\* A request that is submitted, or turned away, is set aside no more.
LEMMA OneSubmitted ==
    ASSUME IsFiniteSet(Requests), SInv, NEW q \in Requests, Accept(q) \/ Reject(q)
    PROVE  Cardinality(Unsubmitted') = Cardinality(Unsubmitted) - 1
    <1>1. future \in [Requests -> FutureStatus] /\ future[q] = "none"
          BY DEF SInv, CInv, IInv, TypeOK, Accept, Reject
    <1>2. Unsubmitted' = Unsubmitted \ {q} /\ q \in Unsubmitted
          BY <1>1 DEF Unsubmitted, Accept, Reject
    <1>3. IsFiniteSet(Unsubmitted)
          BY FS_Subset DEF Unsubmitted
    <1>4. QED
          BY <1>2, <1>3, FS_RemoveElement

\* Nothing else changes who has been submitted.
LEMMA NoneSubmitted ==
    ASSUME SInv, [Next]_vars,
           Worker \/ \A q \in Requests : ~Accept(q) /\ ~Reject(q)
    PROVE  Unsubmitted' = Unsubmitted
    <1>1. future \in [Requests -> FutureStatus]
          BY DEF SInv, CInv, IInv, TypeOK
    <1>2. CASE \E q \in Requests : CallerTimeout(q)
          BY <1>1, <1>2 DEF CallerTimeout, Unsubmitted
    <1>3. CASE RunCallback
          <2>1. Head(callbacks) \in Callback
                BY <1>3, HeadTail DEF RunCallback, SInv, CInv, IInv, TypeOK
          <2>2. QED
                BY <1>1, <1>3, <2>1 DEF RunCallback, Callback, Outcomes, Unsubmitted
    <1>4. CASE CloseLoop
          BY <1>1, <1>4 DEF CloseLoop, Unsubmitted
    <1>5. CASE Worker \/ Shutdown \/ Terminated \/ UNCHANGED vars
          <2>1. future' = future
                BY <1>5 DEF Worker, WStart, WAnnounce, WPoll, WGetTimeout, WGetSentinel,
                   WRefuseFirst, WTakeFirst, WRefuseNext, WTakeNext, Refuse, Take,
                   WMeetSentinel, WRequeue, WDispatch, WPreprocess, WPreprocessFails,
                   WNothingValid, WPreprocessed, WPredict, WPredictFails, WDeliver,
                   WFail, WBatchEnd, Shutdown, ShutdownBegin, ShutdownPut,
                   ShutdownPutTimeout, ShutdownJoin, ShutdownJoinTimeout,
                   Teardown, ShutdownUnload, ShutdownCleanup, ShutdownRelease,
                   ShutdownRaises, Terminated, vars, loopVars
          <2>2. QED
                BY <2>1 DEF Unsubmitted
    <1>6. QED
          BY <1>2, <1>3, <1>4, <1>5 DEF Next

\* A worker whose queue or batch holds a pending request does not find the queue
\* empty: each of its steps frees a slot or is one of a round.
LEMMA WorkerWorks ==
    ASSUME SInv, Worker, NEW r \in Requests, ~Resolved(r), ~InLoop(r)
    PROVE  \/ StepsLeft' < StepsLeft /\ queue' = queue
           \/ Len(queue') = Len(queue) - 1
    <1>1. ~WRequeue /\ ~shutdownEvent
          BY WhileServed DEF WRequeue
    <1>2. ~WGetTimeout
          <2> SUFFICES ASSUME WGetTimeout
                       PROVE  FALSE
              OBVIOUS
          <2>1. queue = <<>> /\ Undelivered = {}
                BY DEF WGetTimeout, Undelivered
          <2>2. ~InQueue(r) /\ ~InBatch(r)
                BY <2>1, EmptySeq DEF InQueue, InBatch
          <2>3. QED
                BY <2>2, WhileServed DEF SInv, CInv, Placed
    <1>3. IInv /\ Cursors
          BY DEF SInv, CInv
    <1>4. \/ StepsLeft' < StepsLeft
          \/ queue # <<>> /\ queue' = Tail(queue)
          BY <1>2, <1>3, CollectingCloser, InferringCloser DEF Worker
    <1>5. queue # <<>> /\ queue' = Tail(queue) => Len(queue') = Len(queue) - 1
          BY <1>3, HeadTail DEF IInv, TypeOK
    <1>6. queue' = queue \/ Len(queue') = Len(queue) - 1
          BY <1>1, <1>3, WorkerOnQueue
    <1>7. QED
          BY <1>4, <1>5, <1>6

\* As long as the request is served, no step adds to the work before it and those
\* of the worker reduce it.
LEMMA WorkFalls ==
    ASSUME IsFiniteSet(Requests), SInv, SInv', [Next]_vars, NEW r \in Requests,
           ~Resolved(r), ~InLoop(r), ~Resolved(r)'
    PROVE  /\ Work' <= Work
           /\ Worker => Work' < Work
    <1>1. Measured /\ Measured'
          BY WorkMeasured, WorkMeasuredNext
    <1>2. /\ shut = "idle" /\ ~shutdownEvent /\ loopOpen
          /\ ~shutdownEvent' /\ loopOpen'
          BY WhileServed DEF Resolved
    <1>3. Len(queue) \in Nat /\ Len(queue') \in Nat /\ Round' = Round
          BY DistanceBound, DistanceBoundNext DEF SInv, CInv, Bounded, Round
    <1>4. ASSUME Backlog' < Backlog \/ (Backlog' = Backlog /\ StepsLeft' < StepsLeft)
          PROVE  Work' < Work
          BY <1>1, <1>3, <1>4, LessWork DEF Measured, Work
    <1>5. CASE \E q \in Requests : Accept(q) \/ Reject(q)
          <2>1. PICK q \in Requests : Accept(q) \/ Reject(q)
                BY <1>5
          <2>2. Cardinality(Unsubmitted') = Cardinality(Unsubmitted) - 1
                BY <2>1, OneSubmitted
          <2>3. Len(queue') <= Len(queue) + 1
                BY <2>1, <1>3, Appended DEF Accept, Reject, SInv, CInv, IInv, TypeOK
          <2>4. Backlog' < Backlog
                BY <1>1, <1>3, <2>2, <2>3 DEF Backlog, Measured
          <2>5. QED
                BY <1>1, <1>4, <2>4 DEF Measured
    <1>6. CASE Worker
          <2>1. Unsubmitted' = Unsubmitted
                BY <1>6, NoneSubmitted
          <2>2. \/ StepsLeft' < StepsLeft /\ queue' = queue
                \/ Len(queue') = Len(queue) - 1
                BY <1>6, WorkerWorks
          <2>3. Backlog' < Backlog \/ (Backlog' = Backlog /\ StepsLeft' < StepsLeft)
                BY <1>1, <1>3, <2>1, <2>2 DEF Backlog, Measured
          <2>4. QED
                BY <1>1, <1>4, <2>3 DEF Measured
    <1>7. CASE ~Worker /\ \A q \in Requests : ~Accept(q) /\ ~Reject(q)
          <2>1. Unsubmitted' = Unsubmitted
                BY <1>7, NoneSubmitted
          <2>2. UNCHANGED <<queue, worker, batchVars, shutdownEvent>>
                BY <1>2, <1>7 DEF Next, CallerTimeout, RunCallback, CloseLoop, Shutdown,
                   ShutdownBegin, ShutdownPut, ShutdownPutTimeout, ShutdownJoin,
                   ShutdownJoinTimeout, Teardown, ShutdownUnload, ShutdownCleanup,
                   ShutdownRelease, ShutdownRaises, Terminated, vars, shutdownVars
          <2>3. Work' = Work
                BY <2>1, <2>2 DEF Work, Backlog, Round, StepsLeft, WorkerDead, batchVars
          <2>4. QED
                BY <1>1, <1>7, <2>3 DEF Measured
    <1>8. QED
          BY <1>5, <1>6, <1>7

WorkedSooner(r, n) == \E m \in 0..(n - 1) : WorkedIn(r, m)
TurnSooner(r, n) == \E m \in 0..(n - 1) : TurnIn(r, m)
Settling(r) == Turn(r) \/ Resolved(r)

LEMMA WorkStep ==
    ASSUME IsFiniteSet(Requests), SInv, SInv', [Next]_vars, NEW r \in Requests,
           NEW n \in Nat, WorkedIn(r, n)
    PROVE  /\ WorkedIn(r, n)' \/ WorkedSooner(r, n)' \/ Settling(r)'
           /\ Worker => WorkedSooner(r, n)' \/ Settling(r)'
    <1>1. CASE Settling(r)'
          BY <1>1
    <1>2. CASE ~Settling(r)'
          <2>1. ~Resolved(r)' /\ ~InLoop(r)' /\ ~Resolved(r) /\ ~InLoop(r) /\ Work = n
                BY <1>2 DEF Settling, Turn, WorkedIn
          <2>2. Work' \in Nat /\ Work' <= n /\ (Worker => Work' < n)
                BY <2>1, WorkFalls, WorkMeasuredNext DEF Measured
          <2>3. Work' = n \/ Work' \in 0..(n - 1)
                BY <2>2
          <2>4. Worker => Work' \in 0..(n - 1)
                BY <2>2
          <2>5. QED
                BY <2>1, <2>3, <2>4 DEF WorkedIn, WorkedSooner
    <1>3. QED
          BY <1>1, <1>2

\* The worker hands the event loop one outcome at a time.
LEMMA WorkerSchedules ==
    ASSUME IInv, Worker
    PROVE  \/ callbacks' = callbacks
           \/ \E c \in Callback : callbacks' = Append(callbacks, c)
    <1>1. ASSUME NEW q \in Requests, NEW status \in Outcomes,
                 NEW result \in Requests \cup {None}, Schedule(q, status, result)
          PROVE  \/ callbacks' = callbacks
                 \/ \E c \in Callback : callbacks' = Append(callbacks, c)
          <2>1. [req |-> q, status |-> status, row |-> result] \in Callback
                BY DEF Callback
          <2>2. QED
                BY <1>1, <2>1 DEF Schedule
    <1>2. CASE WRefuseFirst \/ WRefuseNext
          <2>1. Head(queue) \in Requests /\ Schedule(Head(queue), "invalid", None)
                BY <1>2, EngineAssumption DEF WRefuseFirst, WRefuseNext, Refuse
          <2>2. QED
                BY <1>1, <2>1 DEF Outcomes
    <1>3. CASE WPreprocessFails
          <2>1. batch[cursor] \in Requests /\ Schedule(batch[cursor], "unreadable",
             None)
                BY <1>3, ElementOfSeq DEF WPreprocessFails, IInv, TypeOK
          <2>2. QED
                BY <1>1, <2>1 DEF Outcomes
    <1>4. CASE WDeliver \/ WFail
          <2>1. /\ cursor \in 1..Len(validPositions)
                /\ validPositions[cursor] \in 1..Len(batch)
                /\ tensors[cursor] = batch[validPositions[cursor]]
                BY <1>4, Lengths DEF WDeliver, WFail, IInv, BatchShape
          <2>2. batch[validPositions[cursor]] \in Requests
                BY <2>1, ElementOfSeq DEF IInv, TypeOK
          <2>3. QED
                BY <1>1, <1>4, <2>1, <2>2 DEF WDeliver, WFail, Outcomes
    <1>5. CASE ~(WRefuseFirst \/ WRefuseNext \/ WPreprocessFails \/ WDeliver \/ WFail)
          BY <1>5 DEF Worker, WStart, WAnnounce, WPoll, WGetTimeout, WGetSentinel,
             WTakeFirst, WTakeNext, Take, WMeetSentinel, WRequeue, WDispatch,
             WPreprocess, WNothingValid, WPreprocessed, WPredict, WPredictFails,
             WBatchEnd, loopVars
    <1>6. QED
          BY <1>2, <1>3, <1>4, <1>5

\* Callbacks run in the order they were handed over, and the one of a request that
\* is still pending resolves its future.
LEMMA TurnStep ==
    ASSUME SInv, [Next]_vars, NEW r \in Requests, NEW n \in Nat, TurnIn(r, n)
    PROVE  /\ TurnIn(r, n)' \/ TurnSooner(r, n)' \/ Resolved(r)'
           /\ RunCallback => TurnSooner(r, n)' \/ Resolved(r)'
    <1>1. /\ callbacks \in Seq(Callback) /\ future \in [Requests -> FutureStatus]
          /\ n \in 1..Len(callbacks) /\ callbacks[n].req = r /\ ~Resolved(r)
          /\ Len(callbacks) \in Nat
          BY LenProperties DEF SInv, CInv, IInv, TypeOK, TurnIn
    <1>2. CASE Resolved(r)'
          BY <1>2
    <1>3. CASE ~Resolved(r)' /\ RunCallback
          <2>1. callbacks # <<>> /\ callbacks' = Tail(callbacks)
                BY <1>3 DEF RunCallback
          <2>2. /\ Head(callbacks) = callbacks[1] /\ Head(callbacks) \in Callback
                /\ Len(callbacks') = Len(callbacks) - 1
                /\ \A i \in 1..Len(callbacks') : callbacks'[i] = callbacks[i + 1]
                BY <1>1, <2>1, HeadTail
          <2>3. n # 1
                <3>1. SUFFICES ASSUME n = 1
                               PROVE  FALSE
                      OBVIOUS
                <3>2. future[r] = "pending"
                      BY <1>1 DEF Resolved
                <3>3. future'[r] = Head(callbacks).status
                      BY <1>1, <1>3, <2>2, <3>1, <3>2 DEF RunCallback
                <3>4. QED
                      BY <1>3, <2>2, <3>3 DEF Callback, Outcomes, Resolved
          <2>4. n - 1 \in 1..Len(callbacks') /\ n - 1 \in 0..(n - 1)
                /\ callbacks'[n - 1].req = r
                BY <1>1, <2>2, <2>3
          <2>5. QED
                BY <1>3, <2>4 DEF TurnIn, TurnSooner
    <1>4. CASE ~Resolved(r)' /\ ~RunCallback
          <2>1. \/ callbacks' = callbacks
                \/ \E c \in Callback : callbacks' = Append(callbacks, c)
                <3>1. CASE Worker
                      BY <3>1, WorkerSchedules DEF SInv, CInv
                <3>2. CASE ~Worker
                      BY <1>4, <3>2 DEF Next, Accept, Reject, CallerTimeout, CloseLoop,
                         Resolved, Shutdown, ShutdownBegin, ShutdownPut,
                         ShutdownPutTimeout, ShutdownJoin, ShutdownJoinTimeout,
                         Teardown, ShutdownUnload, ShutdownCleanup, ShutdownRelease,
                         ShutdownRaises, Terminated, vars, loopVars
                <3>3. QED
                      BY <3>1, <3>2
          <2>2. n \in 1..Len(callbacks') /\ callbacks'[n].req = r
                BY <1>1, <2>1, Appended
          <2>3. QED
                BY <1>4, <2>2 DEF TurnIn
    <1>5. QED
          BY <1>2, <1>3, <1>4

\* The lattice rule for the two parts of each request's way.
ServingRules ==
    \A r \in Requests :
        /\ LatticeRule(LAMBDA n : WorkedIn(r, n), Settling(r))
        /\ LatticeRule(LAMBDA n : TurnIn(r, n), Resolved(r))

\* Without any timeout firing, every accepted request is resolved, unless the worker
\* crashes, shutdown is requested or the loop is closed: for any capacity and batch
\* size and however many requests compete (batch_processing_loop, call_soon_threadsafe).
THEOREM RequestsAreServed ==
    ASSUME IsFiniteSet(Requests)
    PROVE  FairSpec /\ []EngineGuardsSuffice /\ ServingRules => Served
    <1> SUFFICES ASSUME NEW r \in Requests
                 PROVE  FairSpec /\ []EngineGuardsSuffice /\ ServingRules =>
                           (future[r] = "pending" ~> Resolved(r))
        BY DEF Served, Resolved
    <1> DEFINE WorkPremise == \A n \in Nat :
                   WorkedIn(r, n) ~> Settling(r) \/ \E m \in 0..(n - 1) : WorkedIn(r, m)
               TurnPremise == \A n \in Nat :
                   TurnIn(r, n) ~> Resolved(r) \/ \E m \in 0..(n - 1) : TurnIn(r, m)
               Worked == \E n \in Nat : WorkedIn(r, n)
               InTurn == \E n \in Nat : TurnIn(r, n)
               Asked == future[r] = "pending"
    <1>1. SInv => IInv
          BY DEF SInv, CInv
    <1>2. ASSUME NEW n \in Nat
          PROVE  FairSpec /\ []EngineGuardsSuffice =>
                    (WorkedIn(r, n) ~>
                        Settling(r) \/ \E m \in 0..(n - 1) : WorkedIn(r, m))
          <2>1. SInv /\ SInv' /\ [Next]_vars /\ WorkedIn(r, n)
                   => WorkedIn(r, n)' \/ WorkedSooner(r, n)' \/ Settling(r)'
                BY WorkStep
          <2>2. SInv /\ SInv' /\ [Next]_vars /\ <<Worker>>_vars /\ WorkedIn(r, n)
                   => WorkedSooner(r, n)' \/ Settling(r)'
                BY WorkStep
          <2>3. SInv /\ EngineGuardsSuffice /\ WorkedIn(r, n) => ENABLED <<Worker>>_vars
                BY <1>1, SomeGuard, WhileServed DEF EngineGuardsSuffice, WorkedIn
          <2>4. FairSpec /\ []EngineGuardsSuffice =>
                   (WorkedIn(r, n) ~> Settling(r) \/ WorkedSooner(r, n))
                BY <2>1, <2>2, <2>3, ServingInductive, PTL DEF FairSpec, Spec
          <2>5. QED
                BY <2>4, PTL DEF WorkedSooner
    <1>3. ASSUME NEW n \in Nat
          PROVE  FairSpec /\ []EngineGuardsSuffice =>
                    (TurnIn(r, n) ~> Resolved(r) \/ \E m \in 0..(n - 1) : TurnIn(r, m))
          <2>1. SInv /\ [Next]_vars /\ TurnIn(r, n)
                   => TurnIn(r, n)' \/ TurnSooner(r, n)' \/ Resolved(r)'
                BY TurnStep
          <2>2. SInv /\ [Next]_vars /\ <<RunCallback>>_vars /\ TurnIn(r, n)
                   => TurnSooner(r, n)' \/ Resolved(r)'
                BY TurnStep
          <2>3. SInv /\ EngineGuardsSuffice /\ TurnIn(r, n)
                   => ENABLED <<RunCallback>>_vars
                <3>1. TurnIn(r, n) => callbacks # <<>>
                      BY EmptySeq DEF TurnIn
                <3>2. QED
                      BY <3>1, WhileServed DEF EngineGuardsSuffice, TurnIn
          <2>4. FairSpec /\ []EngineGuardsSuffice =>
                   (TurnIn(r, n) ~> Resolved(r) \/ TurnSooner(r, n))
                BY <2>1, <2>2, <2>3, ServingInductive, PTL DEF FairSpec, Spec
          <2>5. QED
                BY <2>4, PTL DEF TurnSooner
    <1>4. FairSpec /\ []EngineGuardsSuffice => WorkPremise /\ TurnPremise
          BY <1>2, <1>3
    <1>5. ServingRules => /\ WorkPremise => (Worked ~> Settling(r))
                          /\ TurnPremise => (InTurn ~> Resolved(r))
          BY DEF ServingRules, LatticeRule
    <1>6. SInv => (Asked => Worked \/ Settling(r))
          BY WorkMeasured DEF Measured, WorkedIn, Settling, Turn
    <1>7. SInv => (Turn(r) => InTurn)
          BY LenProperties DEF Turn, InLoop, TurnIn, SInv, CInv, IInv, TypeOK
    <1>8. Settling(r) => Turn(r) \/ Resolved(r)
          BY DEF Settling
    <1>9. (future[r] = "pending" ~> Resolved(r)) <=> (Asked ~> Resolved(r))
          BY PTL
    <1> HIDE DEF WorkPremise, TurnPremise, Worked, InTurn, Asked
    <1>10. QED
          BY <1>4, <1>5, <1>6, <1>7, <1>8, <1>9, ServingInductive, PTL DEF FairSpec
=============================================================================
