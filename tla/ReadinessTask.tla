---------------------------- MODULE ReadinessTask ----------------------------
(***************************************************************************)
(* pkg/dyntracker/statestore: the state of one readiness task, as the      *)
(* functional record ts that the consumers of the trackers rewrite under   *)
(* its lock.                                                               *)
(*                                                                         *)
(* The graph of resources is a star: the tracked resource is the root and  *)
(* a dependency only ever leads from it to a Pod.  The errors of a resource *)
(* are a list of which only the length counts, so an error is a resource   *)
(* and a position in its list.                                             *)
(***************************************************************************)
EXTENDS Naturals, FiniteSets

CONSTANTS
  Root,   \* the tracked resource
  Pod     \* the Pods that may be found under it

Resource == {Root} \cup Pod

ASSUME RootAssumption == Root \notin Pod

FailMode ==
  {"IgnoreAndContinueDeployProcess", "FailWholeDeployProcessImmediately",
   "HopeUntilEndOfDeployProcess"}

ResourceStatus == {"Unknown", "Created", "Ready", "Failed", "Deleted"}
TaskStatus     == {"Progressing", "Ready", "Failed"}

ReadinessTaskState ==
  [failMode  : FailMode,
   allow     : Nat,                      \* totalAllowFailuresCount
   status    : {"", "Ready"},            \* the explicit status
   vertices  : SUBSET Resource,
   edges     : SUBSET Resource,          \* the targets of the edges from the root
   statuses  : [Resource -> ResourceStatus],
   errors    : SUBSET (Resource \X Nat),
   replicas  : Nat]                      \* AttributeNameRequiredReplicas, 0 if absent

NewReadinessTaskState(failMode, allow) ==
  [failMode |-> failMode, allow |-> allow, status |-> "", vertices |-> {Root},
   edges |-> {}, statuses |-> [r \in Resource |-> "Unknown"], errors |-> {},
   replicas |-> 0]

\* Both tolerate what is there already.
AddResourceStates(ts, rs) == [ts EXCEPT !.vertices = @ \cup rs]
AddDependencies(ts, rs)   == [ts EXCEPT !.edges = @ \cup rs]

\* What a breadth-first search from the root visits.
ResourceStates(ts) == {Root} \cup ts.edges

ErrorsOf(ts, r) == {e \in ts.errors : e[1] = r}

AddError(ts, r) ==
  [ts EXCEPT !.errors = @ \cup {<<r, Cardinality(ErrorsOf(ts, r))>>}]

SetResourceStatus(ts, r, status) == [ts EXCEPT !.statuses[r] = status]

TotalErrors(ts) == Cardinality({e \in ts.errors : e[1] \in ResourceStates(ts)})

MarkedFailed(ts) == \E r \in ResourceStates(ts) : ts.statuses[r] = "Failed"

\* Mutant: the allowed failures count is the first failure that is not allowed.
FailureConditionOffByOne(ts) ==
  /\ ts.failMode # "IgnoreAndContinueDeployProcess"
  /\ MarkedFailed(ts) \/ TotalErrors(ts) >= ts.allow

\* initReadinessTaskStateFailureConditions
FailureCondition(ts) ==
  /\ ts.failMode # "IgnoreAndContinueDeployProcess"
  /\ MarkedFailed(ts) \/ TotalErrors(ts) > ts.allow

\* Mutant: the root is not counted among the required resources.
ReadyConditionOffByOne(ts) ==
  Cardinality({r \in ResourceStates(ts) : ts.statuses[r] = "Ready"}) >= ts.replicas

\* initReadinessTaskStateReadyConditions
ReadyCondition(ts) ==
  Cardinality({r \in ResourceStates(ts) : ts.statuses[r] = "Ready"}) >= 1 + ts.replicas

Status(ts) ==
  CASE ts.status # ""                                  -> ts.status
    [] ts.status = "" /\ FailureCondition(ts)          -> "Failed"
    [] ts.status = "" /\ ~ FailureCondition(ts)        ->
         IF ReadyCondition(ts) THEN "Ready" ELSE "Progressing"

\* What every consumer does with a ready status: the task and all of its
\* resources become Ready.
SetReady(ts) ==
  [ts EXCEPT !.status = "Ready",
             !.statuses = [r \in Resource |-> IF r \in ResourceStates(ts) THEN "Ready" ELSE @[r]]]

\* What the consumers of all kinds share.
SetRootResourceCreated(ts) == SetResourceStatus(ts, Root, "Created")

\* handleTaskStateStatus
VerdictOf(ts) ==
  CASE Status(ts) = "Progressing" -> "tracking"
    [] Status(ts) = "Ready"       -> "ready"
    [] Status(ts) = "Failed"      -> "failed"
=============================================================================
