---------------------------- MODULE MCPodReadiness ----------------------------
EXTENDS PodReadiness

CONSTANTS c1, c2

MCCapacity == [ch \in {"Added", "Status"} |-> 1]

MCPod(s1, s2, mark) == [cs |-> (c1 :> s1 @@ c2 :> s2), ready |-> FALSE, mark |-> mark]

\* A Pod one of whose containers has ended, one that has come to its end, and one whose
\* init container has failed.
MCFirst ==
  {MCPod("completed", "running", "none"), MCPod("completed", "completed", "none"),
   MCPod("waiting", "waiting", "initFailed")}
=============================================================================
