------------------------ MODULE MCDeploymentTracker ------------------------
EXTENDS DeploymentTracker, TLC

CONSTANTS u1, u2, u3, d1, d2, n1, n2, A, B

\* All three ReplicaSets have the template B: u1 is the oldest, and whatever takes
\* it away promotes u2 or u3, which come one after the other under one name.
MCNameOf     == u1 :> n1 @@ u2 :> n2 @@ u3 :> n2
MCTemplateOf == u1 :> B  @@ u2 :> B  @@ u3 :> B
MCRank       == u1 :> 1  @@ u2 :> 2  @@ u3 :> 3

Unborn     == [phase |-> "unborn", selected |-> FALSE, owner |-> None, failure |-> "none"]
Owned(f)   == [phase |-> "live", selected |-> TRUE, owner |-> d1, failure |-> f]
Foreign    == [Owned("invalid") EXCEPT !.owner = None]
Unselected == [Owned("transient") EXCEPT !.selected = FALSE]

\* Its place changes as well: ownership, selector, replacement.
PlaceStates == {Owned("none"), Owned("transient"), Owned("quota"), Foreign, Unselected}

\* A quota failure of one ReplicaSet.
OneNameOf      == u2 :> n2
OneTemplateOf  == u2 :> B
OneRank        == u2 :> 2
QuotaStates    == {Owned("none"), Owned("quota")}

\* For the liveness run the same, with u3 to come under the name of u2, and labels that may change.
HeirNameOf      == u2 :> n2 @@ u3 :> n2
HeirTemplateOf  == u2 :> B  @@ u3 :> B
HeirRank        == u2 :> 2  @@ u3 :> 3
HeirInitialSets == {u2 :> b @@ u3 :> Unborn : b \in {Unborn, Owned("quota")}}
HeirStates      == QuotaStates \cup {[Owned("quota") EXCEPT !.selected = FALSE]}

\* The oldest is there, the next may be, and fail already.
ThreeInitialSets == {u1 :> Owned("none") @@ u2 :> b @@ u3 :> Unborn : b \in {Unborn, Owned("quota")}}
=============================================================================
