-------------------------- MODULE ControllerTracker --------------------------
(***************************************************************************)
(* The Track loops of pkg/tracker/statefulset and pkg/tracker/daemonset,   *)
(* which differ in when the object is ready, in which Pods are new and in  *)
(* one kind of event.  Their Pods hang from them directly, and a Pod of a  *)
(* StatefulSet comes back under its name.                                  *)
(*                                                                         *)
(* The struct *Tracker is the record t.  A select case is one action that  *)
(* computes the whole handler; every handler sends at most one message,    *)
(* which stays in t.out until it is taken, and the loop selects again only *)
(* then.  What a tracker of a Pod and the relay beside it do is PodRelay's *)
(* subject: here both are one goroutine, which may be of an older Pod of   *)
(* the name than the one there is.  Log chunks and messages of events are  *)
(* left out.  Pods are the resources that the readiness task knows by the  *)
(* same names.                                                             *)
(***************************************************************************)
EXTENDS Integers, Sequences, ReadinessTask

CONSTANTS
  Revision,      \* revisions of the Pod template
  Objects,       \* the objects that are looked at, of all kinds
  Kinds,         \* the kinds that are looked at
  InitialPods,   \* the Pods there may be when the tracker starts
  RelayCapacity, \* bound: the places of each relay, 10 in the code
  MaxChanges,    \* bound: changes of the object and of its Pods, and events of both
  Nil            \* nil, a missing map entry

StatefulSet ==
  [kind : {"StatefulSet"}, observed : BOOLEAN, strategy : {"RollingUpdate", "OnDelete"},
   replicas : Nat \cup {Nil}, partition : Nat, readyReplicas : Nat, updatedReplicas : Nat,
   revision : Revision, current : Revision]

DaemonSet ==
  [kind : {"DaemonSet"}, observed : BOOLEAN, strategy : {"RollingUpdate", "OnDelete"},
   desired : Nat, updated : Nat, available : Nat, revision : Revision]

\* The incarnations of a name by their revisions; is the last one there?
PodHistory ==
  {h \in [revisions : Seq(Revision), live : BOOLEAN] : h.live => h.revisions # <<>>}

ASSUME ControllerConstantsAssumption ==
  /\ Kinds \subseteq {"StatefulSet", "DaemonSet"}
  /\ Objects \subseteq StatefulSet \cup DaemonSet
  /\ InitialPods \subseteq [Pod -> PodHistory]
  /\ {RelayCapacity, MaxChanges} \subseteq Nat
  /\ Nil \notin Revision \cup Objects \cup Pod \cup Nat
  /\ Pod # {}

VARIABLES
  object,     \* the object in the store of its informer, or Nil
  buf,        \* the channels resourceAdded, resourceModified, resourceDeleted
  failure,    \* what is in the channel resourceFailed
  pods,       \* the history of each Pod in the store of the Pods informer
  announced,  \* the incarnations its handler has been called for, once it runs
  added,      \* podAddedRelay
  runs,       \* the trackers of Pods, in the order of their start
  statuses,   \* podStatusesRelay
  errs,       \* podContainerErrorsRelay
  dones,      \* donePodsRelay
  changes,    \* changes of the cluster so far
  ctxDone,    \* has the context of Track been cancelled?
  pc,         \* "running" until Track returns
  failures,   \* history: the failure events that Track has handled
  t           \* the tracker

cluster == <<object, pods, changes>>
relays  == <<statuses, errs, dones>>
podSide == <<pods, announced, added, runs, relays>>
vars    == <<object, buf, failure, podSide, changes, ctxDone, pc, failures, t>>

PodStatus    == {"named", "blank"}
TrackerState == {"Initial", "Added", "Failed", "Ready", "Deleted"}
Relayed      == [pod : Pod, status : PodStatus]

Report ==
  [ch       : {"Added", "Ready", "Failed", "Status", "AddedPod", "PodError"},
   ready    : BOOLEAN,            \* IsReady
   failed   : BOOLEAN,            \* IsFailed
   replicas : Nat \cup {Nil},     \* ReplicasIndicator, its target
   pods     : SUBSET Pod,         \* Pods with a name that is in NewPodsNames
   pod      : Pod \cup {Nil}]     \* of AddedPod and PodError

Tracker ==
  [kind             : Kinds,
   State            : TrackerState,
   lastObject       : Objects \cup {Nil},
   podStatuses      : [Pod -> PodStatus \cup {Nil}],
   podRevisions     : [Pod -> Revision \cup {Nil}],  \* podGenerations
   TrackedPodsNames : SUBSET Pod,
   out              : Seq(Report)]

\* A Pod's tracker follows a name; view is the incarnation its informer shows.
PodRun ==
  [pod : Pod, phase : {"starting", "running", "cancelled", "done"},
   view : Nat, last : PodStatus]

TrackerTypeOK ==
  /\ object \in Objects \cup {Nil}
  /\ buf \in [{"Added", "Modified", "Deleted"} -> Objects \cup {Nil}]
  /\ failure \in {"none", "failure", "warning"}
  /\ pods \in [Pod -> PodHistory]
  /\ announced \in [Pod -> Nat \cup {Nil}]
  /\ added \in Seq([pod : Pod, revision : Revision])
  /\ runs \in Seq(PodRun)
  /\ statuses \in Seq(Relayed) /\ errs \in Seq(Relayed) /\ dones \in Seq(Relayed)
  /\ changes \in 0 .. MaxChanges
  /\ ctxDone \in BOOLEAN /\ pc \in {"running", "returned"}
  /\ failures \in Nat
  /\ t \in Tracker

-----------------------------------------------------------------------------
(***************************************************************************)
(* What the handlers do to the tracker.                                    *)
(***************************************************************************)

\* NewStatefulSetStatus: a rollout with a partition ends before the last Pod.
UpToDate(o) ==
  IF o.strategy = "RollingUpdate"
    THEN IF o.partition > 0
           THEN o.updatedReplicas >= o.replicas - o.partition
           ELSE o.revision = o.current
    ELSE \/ o.updatedReplicas = 0 /\ o.revision = o.current
         \/ o.updatedReplicas >= o.replicas

StatefulSetReady(o) ==
  o.observed /\ o.replicas # Nil /\ o.readyReplicas >= o.replicas /\ UpToDate(o)

\* NewDaemonSetStatus; strategies other than the rolling one are not tracked.
DaemonSetReady(o) ==
  \/ o.strategy # "RollingUpdate"
  \/ o.observed /\ o.updated = o.desired /\ o.available = o.desired

IsReady(o) == IF o.kind = "StatefulSet" THEN StatefulSetReady(o) ELSE DaemonSetReady(o)

\* The target of ReplicasIndicator, if there is one.
RequiredReplicas(o) ==
  CASE o.kind = "StatefulSet" -> o.replicas
    [] o.kind = "DaemonSet"   ->
         IF o.strategy = "RollingUpdate" /\ o.observed THEN o.desired ELSE Nil

\* getNewPodsNames, less the Pods whose status has no name for the consumer.
NewPods(d) ==
  {p \in Pod : d.podStatuses[p] = "named" /\ d.podRevisions[p] = d.lastObject.revision}

\* Whether the tracker has failed goes into every status; a DaemonSet that is
\* ready has not failed.
Failed(d) == d.State = "Failed" /\ (d.kind = "StatefulSet" \/ ~ IsReady(d.lastObject))

NewStatus(d, ch) ==
  [ch |-> ch, ready |-> IsReady(d.lastObject), failed |-> Failed(d),
   replicas |-> RequiredReplicas(d.lastObject), pods |-> NewPods(d), pod |-> Nil]

BlankStatus(ch) ==
  [ch |-> ch, ready |-> FALSE, failed |-> ch = "Failed", replicas |-> Nil, pods |-> {},
   pod |-> Nil]

Send(d, r) == [d EXCEPT !.out = <<r>>]

\* Mutant: the switch has no case for a tracker that is Failed either.
ForgetsFailed(state, ready, failed) ==
  CASE state \in {"Ready", "Failed"}                             -> {}
    [] state \in {"Added", "Initial", "Deleted"} /\ ready         -> {"Ready"}
    [] state \in {"Initial", "Deleted"} /\ ~ ready               -> {"Added"}
    [] state = "Added" /\ ~ ready                                -> {"Status"}

\* Mutant: success is sent into the buffer, as any other status is.
ReadyIsAStatus(state, ready, failed) ==
  CASE state = "Ready"                                       -> {}
    [] state \in {"Initial", "Deleted"}                      -> {"Added"}
    [] state \in {"Added", "Failed"}                         -> {"Status"}

\* The channel for the new status: the switch has no case for Ready, as it
\* expects a tracker that is done to be in the state Succeeded.
StatusChannel(state, ready, failed) ==
  CASE state = "Ready"                                         -> {}
    [] state # "Ready" /\ ready                                -> {"Ready"}
    [] state # "Ready" /\ ~ ready /\ failed                    -> {"Failed"}
    [] state \in {"Initial", "Deleted"} /\ ~ ready /\ ~ failed -> {"Added"}
    [] state \in {"Added", "Failed"} /\ ~ ready /\ ~ failed    -> {"Status"}

\* handleStatefulSetState and handleDaemonSetState
HandleState(d, o) ==
  LET seen == [d EXCEPT !.lastObject = o]
      channel == StatusChannel(d.State, IsReady(o), Failed(seen))
      ch == CHOOSE c \in channel : TRUE
  IN IF channel = {}
       THEN seen
       ELSE Send([seen EXCEPT !.State = IF ch = "Status" THEN @ ELSE ch], NewStatus(seen, ch))

\* The cases that compute the status of the same object again.
HandleSameState(d) == IF d.lastObject = Nil THEN d ELSE HandleState(d, d.lastObject)

ResetOnDelete(d) ==
  Send([d EXCEPT !.State = "Deleted", !.lastObject = Nil, !.TrackedPodsNames = {},
                 !.podStatuses = [p \in Pod |-> Nil], !.podRevisions = [p \in Pod |-> Nil]],
       BlankStatus("Status"))

\* Mutant: before the first object a failure is not sent on.
FailureNeedsObject(d) ==
  LET failed == [d EXCEPT !.State = "Failed"]
  IN IF d.lastObject = Nil THEN failed ELSE Send(failed, NewStatus(failed, "Failed"))

HandleFailure(d) ==
  LET failed == [d EXCEPT !.State = "Failed"]
  IN Send(failed, IF d.lastObject = Nil THEN BlankStatus("Failed") ELSE NewStatus(failed, "Failed"))

PodReport(d, ch, p) ==
  IF d.lastObject = Nil THEN d ELSE Send(d, [NewStatus(d, ch) EXCEPT !.pod = p])

-----------------------------------------------------------------------------
(***************************************************************************)
(* The select cases.                                                       *)
(***************************************************************************)
Selecting == pc = "running" /\ t.out = <<>>

\* The first object starts the Pods informer, whose handler is called for the
\* Pods that are there.
StartInformers ==
  IF t.State # "Initial"
    THEN UNCHANGED announced
    ELSE announced' = [p \in Pod |-> Len(pods[p].revisions) - (IF pods[p].live THEN 1 ELSE 0)]

HandleResource(kind) ==
  /\ Selecting
  /\ buf[kind] # Nil
  /\ buf' = [buf EXCEPT ![kind] = Nil]
  /\ StartInformers
  /\ t' = HandleState(t, buf[kind])
  /\ UNCHANGED <<cluster, failure, added, runs, relays, ctxDone, pc, failures>>

HandleResourceAdded    == HandleResource("Added")
HandleResourceModified == HandleResource("Modified")

HandleResourceDeleted ==
  /\ Selecting
  /\ buf["Deleted"] # Nil
  /\ buf' = [buf EXCEPT !["Deleted"] = Nil]
  /\ t' = ResetOnDelete(t)
  /\ UNCHANGED <<object, failure, podSide, changes, ctxDone, pc, failures>>

\* A Pod that could not be created yet is only a warning, for a StatefulSet.
HandleResourceFailed ==
  /\ Selecting
  /\ failure # "none"
  /\ failure' = "none"
  /\ IF failure = "warning" /\ t.kind = "StatefulSet"
       THEN t' = HandleSameState(t) /\ UNCHANGED failures
       ELSE t' = HandleFailure(t) /\ failures' = failures + 1
  /\ UNCHANGED <<object, buf, podSide, changes, ctxDone, pc>>

\* Mutant: a name that is tracked already gets no second tracker.
StartUntracked(p) ==
  IF p \in t.TrackedPodsNames
    THEN UNCHANGED runs
    ELSE runs' = Append(runs, [pod |-> p, phase |-> "starting", view |-> 0, last |-> "blank"])

\* runPodTracker; whatever the tracker of the Pod finds before the report is
\* taken waits in the relays.
RunPodTracker(p) ==
  runs' = Append(runs, [pod |-> p, phase |-> "starting", view |-> 0, last |-> "blank"])

HandlePodAdded ==
  /\ Selecting
  /\ added # <<>>
  /\ LET p == Head(added).pod
         known == [t EXCEPT !.podRevisions[p] = Head(added).revision]
     IN /\ t' = [PodReport(known, "AddedPod", p) EXCEPT !.TrackedPodsNames = @ \cup {p}]
        /\ RunPodTracker(p)
  /\ added' = Tail(added)
  /\ UNCHANGED <<cluster, buf, failure, announced, relays, ctxDone, pc, failures>>

\* All trackers of the name count as done with one of them.
HandleDonePods ==
  /\ Selecting
  /\ dones # <<>>
  /\ LET p == Head(dones).pod
         final == IF p \in t.TrackedPodsNames /\ t.podStatuses[p] # Nil
                    THEN [t EXCEPT !.podStatuses[p] = Head(dones).status] ELSE t
     IN t' = HandleSameState([final EXCEPT !.TrackedPodsNames = @ \ {p}])
  /\ dones' = Tail(dones)
  /\ UNCHANGED <<cluster, buf, failure, announced, added, runs, statuses, errs, ctxDone,
                 pc, failures>>

WithStatus(r) == [t EXCEPT !.podStatuses[r.pod] = r.status]

HandlePodStatuses ==
  /\ Selecting
  /\ statuses # <<>>
  /\ t' = HandleSameState(WithStatus(Head(statuses)))
  /\ statuses' = Tail(statuses)
  /\ UNCHANGED <<cluster, buf, failure, announced, added, runs, errs, dones, ctxDone, pc,
                 failures>>

HandlePodContainerErrors ==
  /\ Selecting
  /\ errs # <<>>
  /\ t' = PodReport(WithStatus(Head(errs)), "PodError", Head(errs).pod)
  /\ errs' = Tail(errs)
  /\ UNCHANGED <<cluster, buf, failure, announced, added, runs, statuses, dones, ctxDone,
                 pc, failures>>

Return ==
  /\ Selecting
  /\ pc' = "returned"
  /\ UNCHANGED <<object, buf, failure, podSide, changes, ctxDone, failures, t>>

HandleCtxDone == ctxDone /\ Return

\* An error of an informer, or of the tracker of a Pod.
HandleError == ~ ctxDone /\ Return
-----------------------------------------------------------------------------
(***************************************************************************)
(* The cluster and the handlers of the informers.                          *)
(***************************************************************************)
\* When the context is done no handler sends any more: what happens in the
\* cluster after that is left out.
Change == ~ ctxDone /\ changes < MaxChanges /\ changes' = changes + 1

\* A handler that is blocked in its send waits for the place.
Notify(kind, o) == buf[kind] = Nil /\ buf' = [buf EXCEPT ![kind] = o]

ObjectOfKind == {o \in Objects : o.kind = t.kind}

ObjectChanges ==
  UNCHANGED <<failure, podSide, ctxDone, pc, failures, t>>

ObjectAdded ==
  /\ object = Nil
  /\ Change
  /\ object' \in ObjectOfKind
  /\ Notify("Added", object')
  /\ ObjectChanges

ObjectModified ==
  /\ object # Nil
  /\ Change
  /\ object' \in ObjectOfKind \ {object}
  /\ Notify("Modified", object')
  /\ ObjectChanges

ObjectDeleted ==
  /\ object # Nil
  /\ Change
  /\ object' = Nil
  /\ Notify("Deleted", object)
  /\ ObjectChanges

\* The events informer has run since the Pods informer has and does not mind the
\* deletion of the object.
FailureEvent ==
  /\ \E p \in Pod : announced[p] # Nil
  /\ failure = "none"
  /\ Change
  /\ failure' \in {"failure", "warning"}
  /\ UNCHANGED <<object, buf, podSide, ctxDone, pc, failures, t>>

\* A Pod comes back under its name only if it belongs to a StatefulSet.
PodCreated(p) ==
  /\ ~ pods[p].live
  /\ t.kind = "DaemonSet" => pods[p].revisions = <<>>
  /\ Change
  /\ \E r \in Revision :
       pods' = [pods EXCEPT ![p] = [revisions |-> Append(@.revisions, r), live |-> TRUE]]
  /\ UNCHANGED <<object, buf, failure, announced, added, runs, relays, ctxDone, pc,
                 failures, t>>

PodGone(p) ==
  /\ pods[p].live
  /\ Change
  /\ pods' = [pods EXCEPT ![p].live = FALSE]
  /\ UNCHANGED <<object, buf, failure, announced, added, runs, relays, ctxDone, pc,
                 failures, t>>

\* AddFunc of the Pods informer, for one incarnation after the other.
PodAnnounced(p) ==
  /\ announced[p] # Nil /\ announced[p] < Len(pods[p].revisions)
  /\ added = <<>> /\ ~ ctxDone
  /\ announced' = [announced EXCEPT ![p] = @ + 1]
  /\ added' = <<[pod |-> p, revision |-> pods[p].revisions[announced'[p]]]>>
  /\ UNCHANGED <<cluster, buf, failure, runs, relays, ctxDone, pc, failures, t>>

-----------------------------------------------------------------------------
(***************************************************************************)
(* The tracker of a Pod and its relay, runs[i].                            *)
(***************************************************************************)
PodRunning(i) == i \in DOMAIN runs /\ runs[i].phase # "done"

Relay(relay, i, s) ==
  IF Len(relay) < RelayCapacity THEN {Append(relay, [pod |-> runs[i].pod, status |-> s])} ELSE {}

PodRunSteps ==
  UNCHANGED <<object, pods, buf, failure, announced, added, ctxDone, pc, failures, t>>

\* A status of the Pod that is there, which may come with the error of a
\* container.
HandlePodState(i) ==
  /\ PodRunning(i)
  /\ LET p == runs[i].pod
         latest == Len(pods[p].revisions)
     IN /\ pods[p].live
        /\ runs[i].view \in {0, latest}
        /\ IF runs[i].view = latest THEN Change ELSE UNCHANGED changes
        /\ runs' = [runs EXCEPT ![i].view = latest, ![i].last = "named",
                                ![i].phase = IF @ = "starting" THEN "running" ELSE @]
  /\ statuses' \in Relay(statuses, i, "named")
  /\ errs' \in {errs} \cup Relay(errs, i, "named")
  /\ UNCHANGED dones
  /\ PodRunSteps

\* The incarnation that the informer has shown is not there any more.
HandlePodDeleted(i) ==
  /\ PodRunning(i)
  /\ runs[i].view # 0
  /\ pods[runs[i].pod].live => runs[i].view < Len(pods[runs[i].pod].revisions)
  /\ runs' = [runs EXCEPT ![i].view = 0, ![i].last = "blank", ![i].phase = "cancelled"]
  /\ statuses' \in Relay(statuses, i, "blank")
  /\ UNCHANGED <<errs, dones, changes>>
  /\ PodRunSteps

\* An event of the Pod, which may come after its deletion.
HandleProbeEvent(i) ==
  /\ PodRunning(i)
  /\ runs[i].phase # "starting"
  /\ Change
  /\ errs' \in Relay(errs, i, runs[i].last)
  /\ UNCHANGED <<runs, statuses, dones>>
  /\ PodRunSteps

StartReturns(i) ==
  /\ i \in DOMAIN runs /\ runs[i].phase = "cancelled"
  /\ runs' = [runs EXCEPT ![i].phase = "done"]
  /\ dones' \in Relay(dones, i, runs[i].last)
  /\ UNCHANGED <<statuses, errs, changes>>
  /\ PodRunSteps

Init ==
  /\ \E kind \in Kinds :
       /\ t = [kind |-> kind, State |-> "Initial", lastObject |-> Nil,
               podStatuses |-> [p \in Pod |-> Nil], podRevisions |-> [p \in Pod |-> Nil],
               TrackedPodsNames |-> {}, out |-> <<>>]
       /\ object \in {Nil} \cup {o \in Objects : o.kind = kind}
  /\ buf = [k \in {"Added", "Modified", "Deleted"} |-> IF k = "Added" THEN object ELSE Nil]
  /\ failure = "none"
  /\ pods \in InitialPods /\ announced = [p \in Pod |-> Nil] /\ added = <<>>
  /\ runs = <<>> /\ statuses = <<>> /\ errs = <<>> /\ dones = <<>>
  /\ changes = 0 /\ ctxDone = FALSE /\ pc = "running" /\ failures = 0
=============================================================================
