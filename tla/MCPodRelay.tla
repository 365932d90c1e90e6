----------------------------- MODULE MCPodRelay -----------------------------
EXTENDS PodRelay, TLC

CONSTANTS p1, p2, r1, r2

\* p1 belongs to the old ReplicaSet and p2 to the new one, or the reverse.
MCRSOf == p1 :> r1 @@ p2 :> r2
OneRSOf == p1 :> r1
=============================================================================
