------------------------ MODULE MCControllerReadiness ------------------------
EXTENDS ControllerReadiness, TLC

CONSTANTS p1, v1, v2

\* One Pod of the old revision, or none yet.
MCPods == {p1 :> [revisions |-> <<v1>>, live |-> TRUE], p1 :> [revisions |-> <<>>, live |-> FALSE]}

Rolling(ready, partition) ==
  [kind |-> "StatefulSet", observed |-> TRUE, strategy |-> "RollingUpdate", replicas |-> 2,
   partition |-> partition, readyReplicas |-> IF ready THEN 2 ELSE 1, updatedReplicas |-> 1,
   revision |-> v2, current |-> IF partition = 0 /\ ready THEN v2 ELSE v1]

\* A rollout that goes on and its end.
MCStatefulSets == {Rolling(FALSE, 0), Rolling(TRUE, 1)}

MCDaemonSets ==
  {[kind |-> "DaemonSet", observed |-> TRUE, strategy |-> "RollingUpdate", desired |-> 1,
    updated |-> 1, available |-> n, revision |-> v2] : n \in {0, 1}}

MCObjects == MCStatefulSets \cup MCDaemonSets

MCCapacity == [ch \in {"Added", "Status", "AddedPod"} |-> 1]
=============================================================================
