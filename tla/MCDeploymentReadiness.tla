------------------------ MODULE MCDeploymentReadiness ------------------------
EXTENDS DeploymentReadiness, MCDeploymentTracker

\* Added has one place in the code; Status has 100 and AddedReplicaSet 10.
MCCapacity == "Added" :> 1 @@ "Status" :> 1 @@ "AddedReplicaSet" :> 1

\* One transient or fatal failure, or none.
ReadinessStates == {Owned("none"), Owned("transient"), Owned("invalid")}
ReadinessInitialSets == {u2 :> b : b \in {Unborn, Owned("transient")}}
=============================================================================
