----------------------------- MODULE AWSDeployer -----------------------------
(***************************************************************************)
(* scripts/aws_deploy.py: main builds a SageMaker model, deploys it to an  *)
(* endpoint, asks it for one prediction and deletes what it created.  Any  *)
(* call to AWS may raise, before or after it took effect; when one does,   *)
(* deploy_model_to_sagemaker rolls back, and delete_endpoint goes on with  *)
(* the rest.                                                               *)
(* The account is external: three resources, of which the endpoint and its *)
(* configuration go by names that an earlier deployment may already use.   *)
(***************************************************************************)
EXTENDS Integers, Sequences

VARIABLES
    cloud,       \* what the account holds under the names this run uses
    handles,     \* attributes that hold an object of the class they should
    configName,  \* endpoint_config_name is known
    deployed,    \* model_deployed
    pc,          \* the stretch of main that is running
    todo,        \* cleanup calls still to be made
    found,       \* endpoint_config, once looked up
    failed       \* resources whose cleanup raised

vars == <<cloud, handles, configName, deployed, pc, todo, found, failed>>

Resources == {"model", "config", "endpoint"}
Holders == {"absent", "ours", "theirs"}
Cleanups == {"rollback", "teardown"}

\* Some stretch is running, and calls are left to be made just while cleaning up.
TypeOK ==
    /\ cloud \in [Resources -> Holders]
    /\ handles \subseteq {"model", "endpoint"}
    /\ configName \in BOOLEAN
    /\ deployed \in BOOLEAN
    /\ pc \in {"building", "deploying", "creating", "starting", "describing",
               "predicting", "ended"} \cup Cleanups
    /\ todo \in Seq({"lookup"} \cup Resources) /\ Len(todo) <= 4
    /\ pc \in Cleanups <=> todo # <<>>
    /\ found \in BOOLEAN
    /\ failed \subseteq Resources

\* The account may hold an endpoint or a configuration of the same name; earlier
\* runs can leave either without the other.
Init ==
    /\ cloud \in {[model |-> "absent", config |-> c, endpoint |-> e] :
                     c, e \in {"absent", "theirs"}}
    /\ handles = {}
    /\ configName = FALSE
    /\ deployed = FALSE
    /\ pc = "building"
    /\ todo = <<>>
    /\ found = FALSE
    /\ failed = {}

-----------------------------------------------------------------------------
(* deploy_model_to_sagemaker.                                              *)

\* ModelBuilder.build creates the model.
Build ==
    /\ pc = "building"
    /\ cloud' = [cloud EXCEPT !.model = "ours"]
    /\ handles' = {"model"}
    /\ pc' = "deploying"
    /\ UNCHANGED <<configName, deployed, todo, found, failed>>

\* Mutant: one try for both, so that a build that fails is rolled back too.
BuildFails_RolledBack ==
    /\ pc = "building"
    /\ \E made \in {"absent", "ours"} : cloud' = [cloud EXCEPT !.model = made]
    /\ pc' = "rollback"
    /\ todo' = <<"endpoint", "lookup", "config", "model">>
    /\ UNCHANGED <<handles, configName, deployed, found, failed>>

\* It raises or returns something that is no Model: the exception leaves, and
\* delete_endpoint does nothing as model_deployed is not set.
BuildFails ==
    /\ pc = "building"
    /\ \E made \in {"absent", "ours"} : cloud' = [cloud EXCEPT !.model = made]
    /\ pc' = "ended"
    /\ UNCHANGED <<handles, configName, deployed, todo, found, failed>>

\* except Exception: endpoint, endpoint configuration, model, in this order.  The
\* configuration is looked up under endpoint_config_name or else under the name
\* of the endpoint.
Rollback ==
    /\ pc' = "rollback"
    /\ todo' = <<"endpoint", "lookup", "config", "model">>
    /\ UNCHANGED <<deployed, found, failed>>

\* ModelBuilder.deploy, external: it creates a configuration under the name of
\* the endpoint, then the endpoint, and waits until that is in service.  A name
\* that is taken is an error, and any call may fail.
CreateConfig ==
    /\ pc = "deploying"
    /\ cloud.config = "absent"
    /\ cloud' = [cloud EXCEPT !.config = "ours"]
    /\ pc' = "creating"
    /\ UNCHANGED <<handles, configName, deployed, todo, found, failed>>

CreateEndpoint ==
    /\ pc = "creating"
    /\ cloud.endpoint = "absent"
    /\ cloud' = [cloud EXCEPT !.endpoint = "ours"]
    /\ pc' = "starting"
    /\ UNCHANGED <<handles, configName, deployed, todo, found, failed>>

InService ==
    /\ pc = "starting"
    /\ handles' = handles \cup {"endpoint"}
    /\ pc' = "describing"
    /\ UNCHANGED <<cloud, configName, deployed, todo, found, failed>>

\* Mutant: the endpoint is assigned by name before deploy is called.
DeployFails_Named ==
    /\ pc \in {"deploying", "creating", "starting"}
    /\ Rollback
    /\ handles' = handles \cup {"endpoint"}
    /\ UNCHANGED <<cloud, configName>>

\* deploy raises, or returns something that is no Endpoint, after any number of
\* those steps: self.endpoint is not an Endpoint.
DeployFails ==
    /\ pc \in {"deploying", "creating", "starting"}
    /\ Rollback
    /\ UNCHANGED <<cloud, handles, configName>>

\* describe_endpoint yields EndpointConfigName: the deployment is complete.
Describe ==
    /\ pc = "describing"
    /\ configName' = TRUE
    /\ deployed' = TRUE
    /\ pc' = "predicting"
    /\ UNCHANGED <<cloud, handles, todo, found, failed>>

\* Another name than asked for, or describe_endpoint raises.
DescribeFails ==
    /\ pc = "describing"
    /\ Rollback
    /\ UNCHANGED <<cloud, handles, configName>>

-----------------------------------------------------------------------------
(* main after the deployment; delete_endpoint.                             *)

\* Reading the file and make_prediction, successful or not: finally
\* delete_endpoint, which looks the configuration up before the endpoint goes.
Predict ==
    /\ pc = "predicting"
    /\ deployed /\ "endpoint" \in handles
    /\ pc' = "teardown"
    /\ todo' = <<"lookup", "endpoint", "config", "model">>
    /\ UNCHANGED <<cloud, handles, configName, deployed, found, failed>>

\* Mutant: model_deployed is reset in a finally clause.
CleanupDone_Finally(errors) ==
    /\ todo' = Tail(todo)
    /\ failed' = errors
    /\ pc' = IF Len(todo) > 1 THEN pc ELSE "ended"
    /\ deployed' = (deployed /\ Len(todo) > 1)

\* Mutant: the teardown stops at its first error.
CleanupDone_FirstError(errors) ==
    LET stop == pc = "teardown" /\ errors # {}
    IN  /\ todo' = IF stop THEN <<>> ELSE Tail(todo)
        /\ failed' = errors
        /\ pc' = IF Len(todo) > 1 /\ ~stop THEN pc ELSE "ended"
        /\ deployed' = (deployed /\ (Len(todo) > 1 \/ errors # {}))

\* Mutant: the end of the rollback is missed.
CleanupDone_GoesOn(errors) ==
    /\ todo' = Tail(todo)
    /\ failed' = errors
    /\ pc' = IF Len(todo) > 1 \/ errors # {} THEN pc ELSE "ended"
    /\ deployed' = (deployed /\ (Len(todo) > 1 \/ errors # {}))

\* Each cleanup call has its own try.  After the last one the rollback re-raises
\* and delete_endpoint raises the errors it collected; it only resets
\* model_deployed when there were none.
CleanupDone(errors) ==
    /\ todo' = Tail(todo)
    /\ failed' = errors
    /\ pc' = IF Len(todo) > 1 THEN pc ELSE "ended"
    /\ deployed' = (deployed /\ (Len(todo) > 1 \/ errors # {}))

\* EndpointConfig.get finds the configuration, whoever created it ...
Lookup ==
    /\ todo # <<>> /\ Head(todo) = "lookup"
    /\ cloud.config # "absent"
    /\ found' = TRUE
    /\ CleanupDone(failed)
    /\ UNCHANGED <<cloud, handles, configName>>

\* ... or raises, as it does when there is none.
LookupFails ==
    /\ todo # <<>> /\ Head(todo) = "lookup"
    /\ CleanupDone(failed \cup {"config"})
    /\ UNCHANGED <<cloud, handles, configName, found>>

\* There is an object to call delete() on.
Deletable(x) == IF x = "config" THEN found ELSE x \in handles

Delete(x) ==
    /\ todo # <<>> /\ Head(todo) = x
    /\ Deletable(x)
    /\ cloud[x] # "absent"
    /\ cloud' = [cloud EXCEPT ![x] = "absent"]
    /\ CleanupDone(failed)
    /\ UNCHANGED <<handles, configName, found>>

\* delete() raises, whether or not the resource is gone.
DeleteFails(x) ==
    /\ todo # <<>> /\ Head(todo) = x
    /\ Deletable(x)
    /\ \E left \in {cloud[x], "absent"} : cloud' = [cloud EXCEPT ![x] = left]
    /\ CleanupDone(failed \cup {x})
    /\ UNCHANGED <<handles, configName, found>>

SkipDelete(x) ==
    /\ todo # <<>> /\ Head(todo) = x
    /\ ~Deletable(x)
    /\ CleanupDone(failed)
    /\ UNCHANGED <<cloud, handles, configName, found>>

Next ==
    \/ Build
    \/ BuildFails
    \/ CreateConfig
    \/ CreateEndpoint
    \/ InService
    \/ DeployFails
    \/ Describe
    \/ DescribeFails
    \/ Predict
    \/ Lookup
    \/ LookupFails
    \/ \E x \in Resources : Delete(x) \/ DeleteFails(x) \/ SkipDelete(x)

Spec == Init /\ [][Next]_vars

-----------------------------------------------------------------------------

\* Rollback and teardown leave nothing behind that they know of and did not fail
\* to delete: one failing call keeps no other resource alive.
NothingForgotten ==
    pc = "ended" =>
        \A x \in Resources :
            cloud[x] = "ours" => x \in failed \/ x \in {"model", "endpoint"} \ handles

\* When delete_endpoint has reset model_deployed everything is really gone; it
\* stays set as long as something may be left to delete.
CleanReturn ==
    pc = "ended" /\ configName /\ ~deployed => \A x \in Resources : cloud[x] # "ours"

\* A failed deployment under a name in use never takes down the endpoint that is
\* being served under it.
ForeignEndpointSpared ==
    [][cloud.endpoint = "theirs" => cloud'.endpoint = "theirs"]_vars

\* A configuration of the same name that belongs to an earlier deployment is lost, if
\* at all, to the rollback of a deploy that raised (the lookup under the name of the
\* endpoint): neither a failed build, nor a deployment that came up and could not be
\* described, nor the teardown ever deletes one.
ForeignConfigLostToRollback ==
    [][cloud.config = "theirs" /\ cloud'.config # "theirs" =>
           pc = "rollback" /\ handles = {"model"}]_vars

\* "Deploy, test and delete the AWS endpoint with scripts/aws_deploy.py": when
\* no cleanup call failed, no endpoint of this run is left.
EndpointDeleted == pc = "ended" /\ failed = {} => cloud.endpoint # "ours"
=============================================================================
