-------------------------- MODULE InferenceService --------------------------
(***************************************************************************)
(* What the inference engine promises its callers, without threads, queues *)
(* of callbacks or batches of tensors: a service that holds a bounded      *)
(* number of requests, works on at most one batch at a time and gives each *)
(* accepted request exactly one verdict of its own.  InferenceEngine       *)
(* implements it (ImplementsService of EngineRefinement).                  *)
(***************************************************************************)
EXTENDS Integers, FiniteSets

CONSTANTS Requests, Corrupt, BadDims, Capacity, BatchMax

VARIABLES
    status,    \* what the caller of each request has been told
    held,      \* accepted, work on them not begun
    working,   \* in the current batch, verdict not reached
    decided,   \* verdict reached, caller not told yet
    closing,   \* the service has been asked to stop
    abandoned  \* there is nobody left to tell a verdict to

vars == <<status, held, working, decided, closing, abandoned>>

Init ==
    /\ status = [r \in Requests |-> "none"]
    /\ held = {}
    /\ working = {}
    /\ decided = {}
    /\ closing = FALSE
    /\ abandoned = FALSE

\* The verdicts a request can get: its own fault first, then the model's.  A
\* service that is stopping may be unable to look at the image at all.
Verdicts(r) ==
    IF r \in BadDims THEN {"invalid"}
    ELSE IF r \in Corrupt THEN {"unreadable"}
    ELSE {"answered", "failed"} \cup (IF closing THEN {"unreadable"} ELSE {})

Accept(r) ==
    /\ status[r] = "none"
    /\ ~abandoned
    /\ Cardinality(held) < Capacity
    /\ status' = [status EXCEPT ![r] = "pending"]
    /\ held' = held \cup {r}
    /\ UNCHANGED <<working, decided, closing, abandoned>>

\* Backpressure: only a service that holds Capacity requests turns one away;
\* when it is stopping, the request to stop takes up one place.
Reject(r) ==
    /\ status[r] = "none"
    /\ ~abandoned
    /\ Cardinality(held) + (IF closing THEN 1 ELSE 0) >= Capacity
    /\ status' = [status EXCEPT ![r] = "rejected"]
    /\ UNCHANGED <<held, working, decided, closing, abandoned>>

\* The caller gives up; the request keeps its place.
Cancel(r) ==
    /\ status[r] = "pending"
    /\ ~abandoned
    /\ status' = [status EXCEPT ![r] = "cancelled"]
    /\ UNCHANGED <<held, working, decided, closing, abandoned>>

Begin(r) ==
    /\ r \in held \ BadDims
    /\ Cardinality(working) < BatchMax
    /\ held' = held \ {r}
    /\ working' = working \cup {r}
    /\ UNCHANGED <<status, decided, closing, abandoned>>

\* A verdict is reached, on a request of the batch or on one that never joins
\* it.  Once abandoned, the verdict goes nowhere.
Decide(r) ==
    /\ r \in working \cup (held \cap BadDims)
    /\ held' = held \ {r}
    /\ working' = working \ {r}
    /\ decided' = IF abandoned THEN decided ELSE decided \cup {r}
    /\ UNCHANGED <<status, closing, abandoned>>

\* The caller hears the verdict if it is still listening.
Tell(r) ==
    /\ r \in decided
    /\ decided' = decided \ {r}
    /\ IF status[r] = "pending"
         THEN \E v \in Verdicts(r) : status' = [status EXCEPT ![r] = v]
         ELSE UNCHANGED status
    /\ UNCHANGED <<held, working, closing, abandoned>>

Close ==
    /\ ~closing
    /\ ~abandoned
    /\ closing' = TRUE
    /\ UNCHANGED <<status, held, working, decided, abandoned>>

\* All callers go away at once.
Abandon ==
    /\ ~abandoned
    /\ abandoned' = TRUE
    /\ status' = [r \in Requests |->
                    IF status[r] = "pending" THEN "cancelled" ELSE status[r]]
    /\ decided' = {}
    /\ UNCHANGED <<held, working, closing>>

Next ==
    \/ \E r \in Requests :
          Accept(r) \/ Reject(r) \/ Cancel(r) \/ Begin(r) \/ Decide(r) \/ Tell(r)
    \/ Close
    \/ Abandon

Spec == Init /\ [][Next]_vars
=============================================================================
