------------------------- MODULE DeploymentConsumer -------------------------
(***************************************************************************)
(* DynamicReadinessTracker.trackDeployment: what each message of the       *)
(* deployment tracker does to the readiness task.                          *)
(*                                                                         *)
(* A report is a message with the parts of its DeploymentStatus that the   *)
(* handlers read.  Log chunks and events reach other stores and only the   *)
(* list of events of the root: they are left out.                          *)
(***************************************************************************)
EXTENDS ReadinessTask

CONSTANTS
  Replicas,   \* bound: the values spec.replicas may have
  Nil         \* no Pod, and no indicator

ASSUME ReplicasAssumption == Replicas \subseteq Nat /\ Nil \notin Nat \cup Resource

ReportChannel ==
  {"Added", "Ready", "Failed", "Status", "AddedReplicaSet", "AddedPod", "PodError"}

Report ==
  [ch       : ReportChannel,
   ready    : BOOLEAN,               \* IsReady
   failed   : BOOLEAN,               \* IsFailed
   fatal    : BOOLEAN,               \* FailureMode = FailureModeFatal
   replicas : Replicas \cup {Nil}, \* its target: ReplicasIndicator
   pods     : SUBSET Pod,            \* Pods with a name that is in NewPodsNames
   pod      : Pod \cup {Nil},      \* of AddedPod and PodError
   isNew    : BOOLEAN]               \* and of its ReplicaSet

\* Mutant: the Pod gets a resource state but no dependency leads to it.
PodsWithoutDependency(ts, r) == AddResourceStates(ts, r.pods)

HandlePodsFromDeploymentStatus(ts, r) ==
  AddDependencies(AddResourceStates(ts, r.pods), r.pods)

HandlePodsFromPodAddedReport(ts, r) ==
  IF r.isNew THEN AddDependencies(AddResourceStates(ts, {r.pod}), {r.pod}) ELSE ts

FailureRecorded(ts, r) ==
  IF r.fatal THEN SetResourceStatus(AddError(ts, Root), Root, "Failed") ELSE AddError(ts, Root)

HandleDeploymentStatus(ts, r) ==
  LET counted == IF r.replicas = Nil THEN ts ELSE [ts EXCEPT !.replicas = r.replicas]
  IN CASE r.ready                  -> SetReady(counted)
       [] ~ r.ready /\ r.failed    -> FailureRecorded(counted, r)
       [] ~ r.ready /\ ~ r.failed  -> counted

\* lo.Must1 in ReadinessTaskState.ResourceState: the vertex has to be there.
Panics(ts, r) == r.ch = "PodError" /\ r.isNew /\ r.pod \notin ts.vertices

HandleReplicaSetPodError(ts, r) == IF r.isNew THEN AddError(ts, r.pod) ELSE ts

\* The handlers that every case of trackDeployment starts with.
HandleStatus(ts, r) == HandleDeploymentStatus(HandlePodsFromDeploymentStatus(ts, r), r)

HandleAdded(ts, r) == SetRootResourceCreated(HandleStatus(ts, r))

HandleReady(ts, r) == HandleStatus(ts, [r EXCEPT !.ready = TRUE])

HandleAddedPod(ts, r) ==
  HandleDeploymentStatus(
    HandlePodsFromPodAddedReport(HandlePodsFromDeploymentStatus(ts, r), r), r)

HandlePodError(ts, r) == HandleReplicaSetPodError(HandleStatus(ts, r), r)

HandleReport(ts, r) ==
  CASE r.ch = "Added"    -> HandleAdded(ts, r)
    [] r.ch = "Ready"    -> HandleReady(ts, r)
    [] r.ch = "AddedPod" -> HandleAddedPod(ts, r)
    [] r.ch = "PodError" -> HandlePodError(ts, r)
    [] r.ch \in {"Failed", "Status", "AddedReplicaSet"} -> HandleStatus(ts, r)
=============================================================================
