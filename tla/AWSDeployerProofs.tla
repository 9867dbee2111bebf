-------------------------- MODULE AWSDeployerProofs --------------------------
(***************************************************************************)
(* Proofs about AWSDeployer.                                               *)
(***************************************************************************)
EXTENDS AWSDeployer, TLAPS

\* The calls left of a rollback or a teardown.
Tails(pcs) ==
    {<<"config", "model">>, <<"model">>} \cup
    IF pcs = "rollback"
    THEN {<<"endpoint", "lookup", "config", "model">>, <<"lookup", "config", "model">>}
    ELSE {<<"lookup", "endpoint", "config", "model">>, <<"endpoint", "config", "model">>}

\* The calls that are still to be made, as a set.
Left(calls) ==
    CASE calls = <<"lookup", "endpoint", "config", "model">>
             -> {"lookup", "endpoint", "config", "model"}
      [] calls = <<"endpoint", "lookup", "config", "model">>
             -> {"lookup", "endpoint", "config", "model"}
      [] calls = <<"lookup", "config", "model">> -> {"lookup", "config", "model"}
      [] calls = <<"endpoint", "config", "model">> -> {"endpoint", "config", "model"}
      [] calls = <<"config", "model">> -> {"config", "model"}
      [] calls = <<"model">> -> {"model"}
      [] OTHER -> {}

\* What a run has created and holds at each stretch.
Progress ==
    /\ pc \in {"building", "deploying", "creating"} => cloud.endpoint # "ours"
    /\ pc \in {"building", "deploying"} => cloud.config # "ours"
    /\ pc = "building" => cloud.model # "ours" /\ handles = {}
    /\ pc \in {"deploying", "creating", "starting"} => handles = {"model"}
    /\ pc = "starting" => cloud.endpoint = "ours"
    /\ pc \in {"describing", "predicting", "teardown"} => handles = {"model", "endpoint"}
    /\ pc = "rollback" => "model" \in handles
    /\ "endpoint" \in handles => cloud.endpoint # "theirs" /\ cloud.config # "theirs"
    /\ pc \in {"creating", "starting"} => cloud.config # "theirs"

\* The deployment is complete just from the description to the end of a teardown
\* without errors.
Complete ==
    /\ pc \in {"predicting", "teardown"} => configName /\ deployed
    /\ configName => pc \in {"predicting", "teardown", "ended"}
    /\ configName => handles = {"model", "endpoint"}
    /\ configName /\ ~deployed => pc = "ended" /\ failed = {}

\* Of what a cleanup has gone past, nothing is left but what it failed to delete or
\* never knew; a configuration that was looked up is known.
Forgotten(x) == x \in {"model", "endpoint"} \ handles
Cleaned ==
    /\ pc \in Cleanups =>
          /\ todo \in Tails(pc)
          /\ \A x \in Resources \ Left(todo) :
                cloud[x] = "ours" => x \in failed \/ Forgotten(x)
          /\ "lookup" \notin Left(todo) /\ cloud.config = "ours" =>
                found \/ "config" \in failed
    /\ NothingForgotten

DInv == TypeOK /\ Progress /\ Complete /\ Cleaned

LEMMA InitDInv == Init => DInv
    <1> SUFFICES ASSUME Init
                 PROVE  DInv
        OBVIOUS
    <1>1. PICK c \in {"absent", "theirs"}, e \in {"absent", "theirs"} :
              cloud = [model |-> "absent", config |-> c, endpoint |-> e]
          BY DEF Init
    <1>2. cloud \in [Resources -> Holders]
          BY <1>1 DEF Resources, Holders
    <1>3. todo = <<>> /\ todo \in Seq({"lookup"} \cup Resources) /\ Len(todo) <= 4
          BY DEF Init
    <1>4. QED
          BY <1>1, <1>2, <1>3
          DEF Init, DInv, TypeOK, Progress, Complete, Cleaned, NothingForgotten,
              Cleanups

\* The lists of calls, and how one comes from the other.
LEMMA Shortened ==
    ASSUME NEW a, NEW b, NEW c, NEW d
    PROVE  /\ Head(<<a, b, c, d>>) = a /\ Tail(<<a, b, c, d>>) = <<b, c, d>>
           /\ Head(<<a, b, c>>) = a /\ Tail(<<a, b, c>>) = <<b, c>>
           /\ Head(<<a, b>>) = a /\ Tail(<<a, b>>) = <<b>>
           /\ Head(<<a>>) = a /\ Tail(<<a>>) = <<>>
           /\ Len(<<a, b, c, d>>) = 4 /\ Len(<<a, b, c>>) = 3
           /\ Len(<<a, b>>) = 2 /\ Len(<<a>>) = 1
    OBVIOUS

LEMMA LeftOf ==
    /\ Left(<<"lookup", "endpoint", "config", "model">>) =
          {"lookup", "endpoint", "config", "model"}
    /\ Left(<<"endpoint", "lookup", "config", "model">>) =
          {"lookup", "endpoint", "config", "model"}
    /\ Left(<<"lookup", "config", "model">>) = {"lookup", "config", "model"}
    /\ Left(<<"endpoint", "config", "model">>) = {"endpoint", "config", "model"}
    /\ Left(<<"config", "model">>) = {"config", "model"}
    /\ Left(<<"model">>) = {"model"}
    /\ Left(<<>>) = {}
    BY DEF Left

\* The whole list of calls is a list of the right type.
LEMMA Whole ==
    \A s \in Tails("rollback") \cup Tails("teardown") :
        s \in Seq({"lookup"} \cup Resources) /\ Len(s) <= 4 /\ s # <<>>
    <1> DEFINE R == {"lookup", "model", "config", "endpoint"}
    <1>1. \A a, b, c, d \in R : /\ <<a, b, c, d>> \in Seq(R) /\ Len(<<a, b, c, d>>) = 4
                               /\ <<a, b, c>> \in Seq(R) /\ Len(<<a, b, c>>) = 3
                               /\ <<a, b>> \in Seq(R) /\ Len(<<a, b>>) = 2
                               /\ <<a>> \in Seq(R) /\ Len(<<a>>) = 1
          OBVIOUS
    <1>2. /\ <<"endpoint", "lookup", "config", "model">> \in Seq(R)
          /\ <<"lookup", "endpoint", "config", "model">> \in Seq(R)
          /\ <<"lookup", "config", "model">> \in Seq(R)
          /\ <<"endpoint", "config", "model">> \in Seq(R)
          /\ <<"config", "model">> \in Seq(R)
          /\ <<"model">> \in Seq(R)
          BY <1>1
    <1>3. \A s \in Tails("rollback") \cup Tails("teardown") :
              s \in Seq(R) /\ Len(s) \in {1, 2, 3, 4}
          BY <1>1, <1>2 DEF Tails
    <1>4. R = {"lookup"} \cup Resources
          BY DEF Resources
    <1>5. Len(<<>>) = 0
          OBVIOUS
    <1>6. \A s \in Tails("rollback") \cup Tails("teardown") : Len(s) <= 4 /\ s # <<>>
          <2>1. SUFFICES ASSUME NEW s \in Tails("rollback") \cup Tails("teardown")
                         PROVE  Len(s) <= 4 /\ s # <<>>
                OBVIOUS
          <2>2. Len(s) \in {1, 2, 3, 4}
                BY <1>3
          <2>3. \A n \in {1, 2, 3, 4} : n # 0 /\ n <= 4
                OBVIOUS
          <2>4. Len(s) # 0 /\ Len(s) <= 4
                BY <2>2, <2>3, Zenon
          <2>5. QED
                BY <2>4, <1>5, Zenon
    <1>7. QED
          BY <1>3, <1>4, <1>6

\* One call less.
LEMMA OneLess ==
    ASSUME NEW p \in Cleanups, NEW s \in Tails(p)
    PROVE  /\ Head(s) \in {"lookup"} \cup Resources
           /\ Left(Tail(s)) = Left(s) \ {Head(s)}
           /\ Len(s) > 1 => Tail(s) \in Tails(p)
           /\ ~(Len(s) > 1) => Tail(s) = <<>>
           /\ Head(s) = "config" => "lookup" \notin Left(s)
    <1>1. CASE s = <<"lookup", "endpoint", "config", "model">> /\ p = "teardown"
          <2>1. /\ Head(s) = "lookup" /\ Tail(s) = <<"endpoint", "config", "model">>
                /\ Len(s) = 4
                BY <1>1, Shortened
          <2>2. QED
                BY <1>1, <2>1, LeftOf DEF Tails
    <1>2. CASE s = <<"endpoint", "lookup", "config", "model">> /\ p = "rollback"
          <2>1. /\ Head(s) = "endpoint" /\ Tail(s) = <<"lookup", "config", "model">>
                /\ Len(s) = 4
                BY <1>2, Shortened
          <2>2. QED
                BY <1>2, <2>1, LeftOf DEF Tails, Resources
    <1>3. CASE s = <<"lookup", "config", "model">>
          <2>1. /\ Head(s) = "lookup" /\ Tail(s) = <<"config", "model">>
                /\ Len(s) = 3
                BY <1>3, Shortened
          <2>2. QED
                BY <1>3, <2>1, LeftOf DEF Tails
    <1>4. CASE s = <<"endpoint", "config", "model">>
          <2>1. /\ Head(s) = "endpoint" /\ Tail(s) = <<"config", "model">>
                /\ Len(s) = 3
                BY <1>4, Shortened
          <2>2. QED
                BY <1>4, <2>1, LeftOf DEF Tails, Resources
    <1>5. CASE s = <<"config", "model">>
          <2>1. Head(s) = "config" /\ Tail(s) = <<"model">> /\ Len(s) = 2
                BY <1>5, Shortened
          <2>2. QED
                BY <1>5, <2>1, LeftOf DEF Tails, Resources
    <1>6. CASE s = <<"model">>
          <2>1. Head(s) = "model" /\ Tail(s) = <<>> /\ Len(s) = 1
                BY <1>6, Shortened
          <2>2. QED
                BY <1>6, <2>1, LeftOf DEF Resources
    <1>7. QED
          BY <1>1, <1>2, <1>3, <1>4, <1>5, <1>6 DEF Tails, Cleanups

-----------------------------------------------------------------------------
(* The steps.                                                              *)

\* Building and the calls within ModelBuilder.deploy.
LEMMA DeployStep ==
    ASSUME DInv, Build \/ BuildFails \/ CreateConfig \/ CreateEndpoint \/ InService
    PROVE  DInv'
    <1> USE DEF DInv, TypeOK, Progress, Complete, Cleaned, Cleanups, Resources, Holders,
                Forgotten
    <1>1. CASE Build
          BY <1>1 DEF Build, NothingForgotten
    <1>2. CASE BuildFails
          BY <1>2 DEF BuildFails, NothingForgotten
    <1>3. CASE CreateConfig
          BY <1>3 DEF CreateConfig, NothingForgotten
    <1>4. CASE CreateEndpoint
          BY <1>4 DEF CreateEndpoint, NothingForgotten
    <1>5. CASE InService
          BY <1>5 DEF InService, NothingForgotten
    <1>6. QED
          BY <1>1, <1>2, <1>3, <1>4, <1>5

\* The end of the deployment, and the begin of a cleanup.
LEMMA TurnStep ==
    ASSUME DInv, DeployFails \/ Describe \/ DescribeFails \/ Predict
    PROVE  DInv'
    <1> USE DEF DInv, TypeOK, Progress, Complete, Cleaned, Cleanups
    <1>1. CASE Describe
          BY <1>1 DEF Describe, NothingForgotten
    <1>2. CASE DeployFails \/ DescribeFails
          <2>1. /\ pc \in {"deploying", "creating", "starting", "describing"}
                /\ pc' = "rollback"
                /\ todo' = <<"endpoint", "lookup", "config", "model">>
                /\ UNCHANGED <<cloud, handles, configName, deployed, found, failed>>
                BY <1>2 DEF DeployFails, DescribeFails, Rollback
          <2>2. todo' \in Tails("rollback") /\ Left(todo') = {"lookup"} \cup Resources
                BY <2>1, LeftOf DEF Tails, Resources
          <2>3. TypeOK'
                BY <2>1, <2>2, Whole
          <2>4. Progress' /\ Complete'
                BY <2>1
          <2>5. Cleaned'
                BY <2>1, <2>2 DEF NothingForgotten
          <2>6. QED
                BY <2>3, <2>4, <2>5
    <1>3. CASE Predict
          <2>1. /\ pc = "predicting" /\ pc' = "teardown"
                /\ todo' = <<"lookup", "endpoint", "config", "model">>
                /\ UNCHANGED <<cloud, handles, configName, deployed, found, failed>>
                BY <1>3 DEF Predict
          <2>2. todo' \in Tails("teardown") /\ Left(todo') = {"lookup"} \cup Resources
                BY <2>1, LeftOf DEF Tails, Resources
          <2>3. TypeOK'
                BY <2>1, <2>2, Whole
          <2>4. Progress' /\ Complete'
                BY <2>1
          <2>5. Cleaned'
                BY <2>1, <2>2 DEF NothingForgotten
          <2>6. QED
                BY <2>3, <2>4, <2>5
    <1>4. QED
          BY <1>1, <1>2, <1>3

\* One cleanup call, of which only the outcome for its own resource is new.
LEMMA CleanupCall ==
    ASSUME DInv, todo # <<>>, NEW x \in {"lookup"} \cup Resources, Head(todo) = x,
           NEW errors \in SUBSET Resources, CleanupDone(errors), failed \subseteq errors,
           UNCHANGED <<handles, configName>>,
           cloud' \in [Resources -> Holders], found' \in BOOLEAN, found => found',
           \A y \in Resources : cloud'[y] \in {cloud[y], "absent"},
           x \in Resources /\ cloud'[x] = "ours" => x \in errors \/ ~Deletable(x),
           x = "lookup" /\ cloud.config = "ours" => found' \/ "config" \in errors,
           x \notin handles /\ x # "config" => cloud' = cloud
    PROVE  DInv'
    <1>1. /\ pc \in Cleanups
          /\ todo \in Tails(pc)
          /\ todo' = Tail(todo)
          /\ failed' = errors
          /\ pc' = IF Len(todo) > 1 THEN pc ELSE "ended"
          /\ deployed' = (deployed /\ (Len(todo) > 1 \/ errors # {}))
          BY DEF DInv, TypeOK, Cleaned, CleanupDone
    <1>2. /\ Left(todo') = Left(todo) \ {x}
          /\ Len(todo) > 1 => todo' \in Tails(pc)
          /\ ~(Len(todo) > 1) => todo' = <<>> /\ Left(todo') = {}
          /\ x = "config" => "lookup" \notin Left(todo)
          BY <1>1, OneLess, LeftOf
    <1>3. TypeOK'
          <2>1. CASE Len(todo) > 1
                <3>1. todo' \in Seq({"lookup"} \cup Resources) /\ Len(todo') <= 4
                          /\ todo' # <<>>
                      BY <2>1, <1>1, <1>2, Whole DEF Cleanups
                <3>2. pc' = pc
                      BY <2>1, <1>1
                <3>3. QED
                      BY <3>1, <3>2, <1>1 DEF DInv, TypeOK
          <2>2. CASE ~(Len(todo) > 1)
                <3>1. todo' = <<>> /\ pc' = "ended"
                      BY <2>2, <1>1, <1>2
                <3>2. todo' \in Seq({"lookup"} \cup Resources) /\ Len(todo') <= 4
                      BY <3>1
                <3>3. QED
                      BY <3>1, <3>2, <1>1 DEF DInv, TypeOK, Cleanups
          <2>3. QED
                BY <2>1, <2>2
    <1>4. Progress'
          BY <1>1 DEF DInv, TypeOK, Progress, Cleanups, Resources
    <1>5. Complete'
          BY <1>1 DEF DInv, TypeOK, Complete, Cleanups
    <1>6. \A y \in Resources \ Left(todo') :
              cloud'[y] = "ours" => y \in failed' \/ Forgotten(y)'
          <2>1. SUFFICES ASSUME NEW y \in Resources \ Left(todo'), cloud'[y] = "ours"
                         PROVE  y \in failed' \/ Forgotten(y)
                BY DEF Forgotten
          <2>2. cloud[y] = "ours"
                BY <2>1
          <2>3. CASE y # x
                <3>1. y \notin Left(todo)
                      BY <2>1, <2>3, <1>2
                <3>2. y \in failed \/ Forgotten(y)
                      BY <3>1, <2>2, <1>1 DEF DInv, Cleaned
                <3>3. QED
                      BY <3>2, <1>1
          <2>4. CASE y = x /\ x # "config"
                BY <2>1, <2>4, <1>1 DEF Deletable, Forgotten, Resources
          <2>5. CASE y = x /\ x = "config"
                <3>1. found \/ "config" \in failed
                      BY <2>2, <2>5, <1>1, <1>2 DEF DInv, Cleaned
                <3>2. QED
                      BY <3>1, <2>1, <2>5, <1>1 DEF Deletable
          <2>6. QED
                BY <2>3, <2>4, <2>5
    <1>7. "lookup" \notin Left(todo') /\ cloud'.config = "ours" =>
              found' \/ "config" \in failed'
          <2>1. SUFFICES ASSUME "lookup" \notin Left(todo'), cloud'.config = "ours"
                         PROVE  found' \/ "config" \in failed'
                OBVIOUS
          <2>2. cloud.config = "ours"
                BY <2>1 DEF Resources
          <2>3. CASE x = "lookup"
                BY <2>2, <2>3, <1>1
          <2>4. CASE x # "lookup"
                <3>1. "lookup" \notin Left(todo)
                      BY <2>1, <2>4, <1>2
                <3>2. found \/ "config" \in failed
                      BY <3>1, <2>2, <1>1 DEF DInv, Cleaned
                <3>3. QED
                      BY <3>2, <1>1
          <2>5. QED
                BY <2>3, <2>4
    <1>8. Cleaned'
          <2>1. NothingForgotten'
                BY <1>1, <1>2, <1>6
                DEF NothingForgotten, Forgotten, Cleanups
          <2>2. pc' \in Cleanups => pc' = pc /\ todo' \in Tails(pc')
                BY <1>1, <1>2 DEF Cleanups
          <2>3. QED
                BY <2>1, <2>2, <1>6, <1>7 DEF Cleaned
    <1>9. QED
          BY <1>3, <1>4, <1>5, <1>8 DEF DInv

\* The calls of a rollback and of a teardown.
LEMMA CleanupStep ==
    ASSUME DInv,
           \/ Lookup
           \/ LookupFails
           \/ \E x \in Resources : Delete(x) \/ DeleteFails(x) \/ SkipDelete(x)
    PROVE  DInv'
    <1>1. /\ cloud \in [Resources -> Holders]
          /\ found \in BOOLEAN
          /\ failed \subseteq Resources
          BY DEF DInv, TypeOK
    <1>2. CASE Lookup
          BY <1>1, <1>2, CleanupCall DEF Lookup, Resources
    <1>3. CASE LookupFails
          <2>1. failed \cup {"config"} \in SUBSET Resources
                BY <1>1 DEF Resources
          <2>2. /\ todo # <<>> /\ Head(todo) = "lookup" /\ "lookup" \notin Resources
                /\ CleanupDone(failed \cup {"config"})
                /\ UNCHANGED <<cloud, handles, configName, found>>
                BY <1>3 DEF LookupFails, Resources
          <2>3. QED
                BY <1>1, <2>1, <2>2, CleanupCall
    <1>4. ASSUME NEW x \in Resources, Delete(x)
          PROVE  DInv'
          <2>1. cloud' = [cloud EXCEPT ![x] = "absent"] /\ (x # "config" => x \in handles)
                BY <1>4 DEF Delete, Deletable
          <2>2. cloud' \in [Resources -> Holders] /\ cloud'[x] = "absent"
                    /\ \A y \in Resources : cloud'[y] \in {cloud[y], "absent"}
                BY <2>1, <1>1 DEF Holders
          <2>3. QED
                BY <1>1, <1>4, <2>1, <2>2, CleanupCall DEF Delete, Resources
    <1>5. ASSUME NEW x \in Resources, DeleteFails(x)
          PROVE  DInv'
          <2>1. PICK left \in {cloud[x], "absent"} : cloud' = [cloud EXCEPT ![x] = left]
                BY <1>5 DEF DeleteFails
          <2>2. cloud' \in [Resources -> Holders]
                    /\ \A y \in Resources : cloud'[y] \in {cloud[y], "absent"}
                BY <2>1, <1>1 DEF Holders
          <2>3. x # "config" => x \in handles
                BY <1>5 DEF DeleteFails, Deletable
          <2>4. failed \cup {x} \in SUBSET Resources
                BY <1>1
          <2>5. QED
                BY <1>1, <1>5, <2>2, <2>3, <2>4, CleanupCall DEF DeleteFails, Resources
    <1>6. ASSUME NEW x \in Resources, SkipDelete(x)
          PROVE  DInv'
          BY <1>1, <1>6, CleanupCall DEF SkipDelete, Resources
    <1>7. QED
          BY <1>2, <1>3, <1>4, <1>5, <1>6

LEMMA NextDInv == DInv /\ [Next]_vars => DInv'
    <1> SUFFICES ASSUME DInv, [Next]_vars
                 PROVE  DInv'
        OBVIOUS
    <1>1. CASE UNCHANGED vars
          BY <1>1 DEF vars, DInv, TypeOK, Progress, Complete, Cleaned, Forgotten,
                      NothingForgotten
    <1>2. QED
          BY <1>1, DeployStep, TurnStep, CleanupStep DEF Next

LEMMA DeployerInductive == Spec => []DInv
    BY InitDInv, NextDInv, PTL DEF Spec

-----------------------------------------------------------------------------
(* Theorems.                                                               *)

\* Type correctness: calls are left to be made just while cleaning up.
THEOREM DeployerTypeCorrect == Spec => []TypeOK
    <1>1. DInv => TypeOK
          BY DEF DInv
    <1>2. QED
          BY <1>1, DeployerInductive, PTL

\* However many calls fail, rollback and teardown go through all they know of
\* (deploy_model_to_sagemaker, delete_endpoint).
THEOREM ForgetsNothing == Spec => []NothingForgotten
    <1>1. DInv => NothingForgotten
          BY DEF DInv, Cleaned
    <1>2. QED
          BY <1>1, DeployerInductive, PTL

\* model_deployed is only reset over an account in which nothing is left.
THEOREM ReturnIsClean == Spec => []CleanReturn
    <1>1. DInv => CleanReturn
          BY DEF DInv, Cleaned, Complete, CleanReturn, NothingForgotten, Resources
    <1>2. QED
          BY <1>1, DeployerInductive, PTL

\* No step of a run takes down an endpoint that an earlier deployment serves under
\* the same name.
THEOREM ForeignEndpointIsSpared == Spec => ForeignEndpointSpared
    <1>1. ASSUME DInv, [Next]_vars, cloud.endpoint = "theirs"
          PROVE  cloud'.endpoint = "theirs"
          <2>1. "endpoint" \notin handles
                    /\ cloud \in [Resources -> Holders] /\ "endpoint" \in Resources
                BY <1>1 DEF DInv, TypeOK, Progress, Resources
          <2>2. CASE Build \/ BuildFails \/ CreateConfig \/ CreateEndpoint
                BY <2>1, <2>2, <1>1
                DEF Build, BuildFails, CreateConfig, CreateEndpoint, Resources
          <2>3. CASE UNCHANGED cloud
                BY <1>1, <2>3
          <2>4. ASSUME NEW x \in Resources, Delete(x) \/ DeleteFails(x)
                PROVE  cloud'.endpoint = "theirs"
                BY <1>1, <2>1, <2>4 DEF Delete, DeleteFails, Deletable, Resources
          <2>5. QED
                BY <1>1, <2>2, <2>3, <2>4
                DEF Next, vars, InService, DeployFails, Describe, DescribeFails, Predict,
                    Lookup, LookupFails, SkipDelete
    <1>2. QED
          BY <1>1, DeployerInductive, PTL DEF Spec, ForeignEndpointSpared

\* An earlier deployment loses its configuration to nothing but the rollback of a
\* deploy that raised.
THEOREM ForeignConfigIsLostToRollback == Spec => ForeignConfigLostToRollback
    <1>1. ASSUME DInv, [Next]_vars, cloud.config = "theirs", cloud'.config # "theirs"
          PROVE  pc = "rollback" /\ handles = {"model"}
          <2>1. cloud \in [Resources -> Holders] /\ "config" \in Resources
                BY <1>1 DEF DInv, TypeOK, Resources
          <2>2. pc \in Cleanups
                <3>1. CASE Build \/ BuildFails \/ CreateConfig \/ CreateEndpoint
                      BY <2>1, <3>1, <1>1
                      DEF Build, BuildFails, CreateConfig, CreateEndpoint, Resources
                <3>2. ASSUME NEW x \in Resources, Delete(x) \/ DeleteFails(x)
                      PROVE  pc \in Cleanups
                      BY <3>2, <1>1 DEF Delete, DeleteFails, DInv, TypeOK
                <3>3. QED
                      BY <1>1, <3>1, <3>2
                      DEF Next, vars, InService, DeployFails, Describe, DescribeFails,
                          Predict, Lookup, LookupFails, SkipDelete
          <2>3. "endpoint" \notin handles
                BY <1>1 DEF DInv, Progress
          <2>4. QED
                BY <2>2, <2>3, <1>1 DEF DInv, TypeOK, Progress, Cleanups
    <1>2. QED
          BY <1>1, DeployerInductive, PTL DEF Spec, ForeignConfigLostToRollback
=============================================================================
