------------------------ MODULE MCCompletionReadiness ------------------------
EXTENDS CompletionReadiness, TLC

CONSTANTS p1, p2

MCCapacity == [ch \in {"Added", "Status", "AddedPod"} |-> 1]
=============================================================================
