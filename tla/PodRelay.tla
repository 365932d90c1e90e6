------------------------------- MODULE PodRelay -------------------------------
(***************************************************************************)
(* The Pods of a Deployment.  For each Pod that its informer adds, Track   *)
(* starts two goroutines: the tracker of the Pod (pod.Tracker.Start) and a *)
(* relay that selects over the channels of that tracker and passes on what *)
(* it finds to channels of the Track loop.  The loop keeps the statuses    *)
(* and turns them into reports for the consumer.                           *)
(*                                                                         *)
(* A status is "named" or "blank": the PodStatus{} of a Pod that is not    *)
(* there has no name, and the consumer knows Pods by the name in their     *)
(* status.  What the Pod looks like beyond that is abstracted away, and so *)
(* are log chunks.  The other cases of the Track loop are those of         *)
(* DeploymentTracker: here they change which ReplicaSet is the new one and *)
(* send a status.  The names of the Pods of a Deployment are never reused. *)
(***************************************************************************)
EXTENDS Sequences, DeploymentConsumer

CONSTANTS
  RS,              \* names of ReplicaSets
  RSOf,            \* the ReplicaSet that each Pod refers to as its owner
  Allow,           \* TotalAllowFailuresCount
  Mode,            \* FailMode
  StatusCapacity,  \* bound: the places of a Pod tracker's Status, 100 in the code
  RelayCapacity,   \* bound: the places of each relay, 10 in the code
  ReportCapacity,  \* bound: the places of Status (100) and AddedPod (10)
  MaxEvents        \* bound: events of Pods and other cases of the loop

ASSUME PodConstantsAssumption ==
  /\ RSOf \in [Pod -> RS]
  /\ Mode \in FailMode
  /\ Allow \in Nat
  /\ {StatusCapacity, RelayCapacity, ReportCapacity, MaxEvents} \subseteq Nat

VARIABLES
  cluster,      \* each Pod in the store of the shared informer
  added,        \* podAddedRelay: none or one Pod
  announced,    \* Pods the PodsInformer has called its handler for
  view,         \* what the informer of the Pod's tracker has told it
  run,          \* each Pod's tracker: Start and the relay beside it
  last,         \* its LastStatus
  status,       \* its buffered channels Added and Status
  offer,        \* the sends of its current handler that are not completed
  statuses,     \* podStatusesRelay
  errs,         \* podContainerErrorsRelay
  dones,        \* donePodsRelay
  deployed,     \* is d.lastObject there?
  fresh,        \* the Pods whose ReplicaSet is new, for what the loop knows
  filed,        \* the keys of rsNameByPod
  podStatuses,  \* d.podStatuses, "absent" for a missing key
  tracked,      \* TrackedPodsNames
  out,          \* the report Track is sending
  reports,      \* the buffered channels of the deployment tracker
  task,         \* the readiness task
  verdict,      \* of the consumer
  events        \* events so far

podTracker == <<view, run, last, status, offer>>
relays     == <<statuses, errs, dones>>
loop       == <<deployed, fresh, filed, podStatuses, tracked, out>>
consumer   == <<reports, task, verdict>>
podVars    == <<cluster, added, announced, podTracker, relays, loop, consumer, events>>

PodStatus == {"named", "blank"}
Send == {"Status", "Deleted", "Succeeded", "Ready", "Failed", "ContainerError"}
Relayed == [pod : Pod, status : PodStatus]

PodTypeOK ==
  /\ cluster \in [Pod -> {"unborn", "live", "gone"}]
  /\ added \subseteq Pod /\ announced \subseteq Pod
  /\ view \in [Pod -> {"nothing", "coming", "present", "deleted"}]
  /\ run \in [Pod -> {"none", "starting", "running", "cancelled", "stopped", "done"}]
  /\ last \in [Pod -> PodStatus]
  /\ status \in [Pod -> Seq(PodStatus)]
  /\ offer \in [Pod -> Seq([kind : Send, status : PodStatus])]
  /\ statuses \in Seq(Relayed) /\ errs \in Seq(Relayed) /\ dones \in Seq(Relayed)
  /\ deployed \in BOOLEAN /\ fresh \subseteq Pod /\ filed \subseteq Pod
  /\ podStatuses \in [Pod -> PodStatus \cup {"absent"}]
  /\ tracked \subseteq Pod
  /\ out \in Seq(Report)
  /\ reports \in [{"Status", "AddedPod"} -> Seq(Report)]
  /\ task \in ReadinessTaskState
  /\ verdict \in {"tracking", "ready", "failed", "panic"}
  /\ events \in 0 .. MaxEvents

Event == events < MaxEvents /\ events' = events + 1

-----------------------------------------------------------------------------
(***************************************************************************)
(* The cluster and the PodsInformer.                                       *)
(***************************************************************************)
PodCreated(p) ==
  /\ cluster[p] = "unborn"
  /\ cluster' = [cluster EXCEPT ![p] = "live"]
  /\ UNCHANGED <<added, announced, podTracker, relays, loop, consumer, events>>

PodGone(p) ==
  /\ cluster[p] = "live"
  /\ cluster' = [cluster EXCEPT ![p] = "gone"]
  /\ UNCHANGED <<added, announced, podTracker, relays, loop, consumer, events>>

\* AddFunc of the PodsInformer, which may lag behind the store.
PodAnnounced(p) ==
  /\ cluster[p] # "unborn"
  /\ p \notin announced
  /\ added = {}
  /\ added' = {p}
  /\ announced' = announced \cup {p}
  /\ UNCHANGED <<cluster, podTracker, relays, loop, consumer, events>>

-----------------------------------------------------------------------------
(***************************************************************************)
(* pod.Tracker.Start, for the Pod p.                                       *)
(***************************************************************************)
Starting(p) == run[p] \in {"running", "cancelled"} /\ offer[p] = <<>>

Sends(kinds, s) == [i \in DOMAIN kinds |-> [kind |-> kinds[i], status |-> s]]

\* objectAdded and objectModified: handlePodState sends the errors of the
\* containers, then the new status on the channel that fits it.
HandlePodState(p) ==
  /\ Starting(p)
  /\ \/ view[p] = "coming" /\ UNCHANGED events
     \/ view[p] = "present" /\ Event
  /\ view' = [view EXCEPT ![p] = "present"]
  /\ last' = [last EXCEPT ![p] = "named"]
  /\ \E errors \in {<<>>, <<"ContainerError">>}, kind \in {"Status", "Succeeded", "Ready", "Failed"} :
       offer' = [offer EXCEPT ![p] = Sends(Append(errors, kind), "named")]
  /\ UNCHANGED <<cluster, added, announced, run, status, relays, loop, consumer>>

HandlePodDeleted(p) ==
  /\ Starting(p)
  /\ view[p] = "present" /\ cluster[p] = "gone"
  /\ view' = [view EXCEPT ![p] = "deleted"]
  /\ last' = [last EXCEPT ![p] = "blank"]
  /\ offer' = [offer EXCEPT ![p] = Sends(<<"Deleted">>, "blank")]
  /\ UNCHANGED <<cluster, added, announced, run, status, relays, loop, consumer, events>>

\* objectFailed: the events informer of the Pod has run since its first status
\* and goes on after the deletion.
HandleProbeEvent(p) ==
  /\ Starting(p)
  /\ view[p] \in {"present", "deleted"}
  /\ Event
  /\ offer' = [offer EXCEPT ![p] = Sends(<<"ContainerError">>, last[p])]
  /\ UNCHANGED <<cluster, added, announced, view, run, last, status, relays, loop, consumer>>

HandleRegularFailure(p) ==
  /\ Starting(p)
  /\ view[p] \in {"present", "deleted"}
  /\ Event
  /\ last' = [last EXCEPT ![p] = IF view[p] = "present" THEN "named" ELSE "blank"]
  /\ offer' = [offer EXCEPT ![p] = Sends(<<"Failed">>, last'[p])]
  /\ UNCHANGED <<cluster, added, announced, view, run, status, relays, loop, consumer>>

\* A send into Added or Status.
SendBuffered(p) ==
  /\ offer[p] # <<>> /\ Head(offer[p]).kind = "Status"
  /\ Len(status[p]) < StatusCapacity
  /\ status' = [status EXCEPT ![p] = Append(@, Head(offer[p]).status)]
  /\ offer' = [offer EXCEPT ![p] = Tail(@)]
  /\ UNCHANGED <<cluster, added, announced, view, run, last, relays, loop, consumer, events>>

StartReturns(p) ==
  /\ Starting(p)
  /\ run[p] = "cancelled"
  /\ run' = [run EXCEPT ![p] = "stopped"]
  /\ UNCHANGED <<cluster, added, announced, view, last, status, offer, relays, loop, consumer,
                 events>>

-----------------------------------------------------------------------------
(***************************************************************************)
(* The relay beside it, in runPodTracker.                                  *)
(***************************************************************************)
Relay(relay, p, s) == Append(relay, [pod |-> p, status |-> s])

RelayBuffered(p) ==
  /\ run[p] \in {"running", "cancelled", "stopped"}
  /\ status[p] # <<>>
  /\ Len(statuses) < RelayCapacity
  /\ statuses' = Relay(statuses, p, Head(status[p]))
  /\ status' = [status EXCEPT ![p] = Tail(@)]
  /\ UNCHANGED <<cluster, added, announced, view, run, last, offer, errs, dones, loop, consumer,
                 events>>

\* A Pod that is over has its tracker cancelled.
RelayUnbuffered(p) ==
  /\ offer[p] # <<>> /\ Head(offer[p]).kind \in {"Deleted", "Succeeded", "Ready", "Failed"}
  /\ Len(statuses) < RelayCapacity
  /\ statuses' = Relay(statuses, p, Head(offer[p]).status)
  /\ run' = IF Head(offer[p]).kind \in {"Deleted", "Succeeded"}
              THEN [run EXCEPT ![p] = "cancelled"] ELSE run
  /\ offer' = [offer EXCEPT ![p] = Tail(@)]
  /\ UNCHANGED <<cluster, added, announced, view, last, status, errs, dones, loop, consumer,
                 events>>

RelayContainerError(p) ==
  /\ offer[p] # <<>> /\ Head(offer[p]).kind = "ContainerError"
  /\ Len(errs) < RelayCapacity
  /\ errs' = Relay(errs, p, Head(offer[p]).status)
  /\ offer' = [offer EXCEPT ![p] = Tail(@)]
  /\ UNCHANGED <<cluster, added, announced, view, run, last, status, statuses, dones, loop,
                 consumer, events>>

\* doneChan; what is left in the buffers is lost.
RelayDone(p) ==
  /\ run[p] = "stopped"
  /\ Len(dones) < RelayCapacity
  /\ dones' = Relay(dones, p, last[p])
  /\ run' = [run EXCEPT ![p] = "done"]
  /\ UNCHANGED <<cluster, added, announced, view, last, status, offer, statuses, errs, loop,
                 consumer, events>>
-----------------------------------------------------------------------------
(***************************************************************************)
(* The cases of Track about Pods.                                          *)
(***************************************************************************)
Selecting == out = <<>> /\ \A p \in Pod : run[p] # "starting"

\* getNewPodsNames, less the Pods whose status the consumer cannot name.
NewPods(ps, keys) ==
  IF deployed THEN {p \in fresh \cap keys : ps[p] = "named"} ELSE {}

StatusReport(ps, keys) ==
  [ch |-> "Status", ready |-> FALSE, failed |-> FALSE, fatal |-> FALSE, replicas |-> Nil,
   pods |-> NewPods(ps, keys), pod |-> Nil, isNew |-> FALSE]

PodReport(ch, p, ps, keys) ==
  [StatusReport(ps, keys) EXCEPT !.ch = ch, !.pod = p, !.isNew = p \in fresh]

IfDeployed(report) == IF deployed THEN <<report>> ELSE <<>>

HandlePodAdded ==
  /\ Selecting
  /\ \E p \in added :
       /\ filed' = filed \cup {p}
       /\ out' = IfDeployed(PodReport("AddedPod", p, podStatuses, filed'))
       /\ run' = [run EXCEPT ![p] = "starting"]
  /\ added' = {}
  /\ UNCHANGED <<cluster, announced, view, last, status, offer, relays, deployed, fresh,
                 podStatuses, tracked, consumer, events>>

\* The end of that case: the report has been sent.
RunPodTracker(p) ==
  /\ run[p] = "starting" /\ out = <<>>
  /\ run' = [run EXCEPT ![p] = "running"]
  /\ view' = [view EXCEPT ![p] = IF cluster[p] = "live" THEN "coming" ELSE "nothing"]
  /\ tracked' = tracked \cup {p}
  /\ UNCHANGED <<cluster, added, announced, last, status, offer, relays, deployed, fresh, filed,
                 podStatuses, out, consumer, events>>

\* Mutant: the name of a Pod that is done stays in TrackedPodsNames.
DonePodsStayTracked ==
  /\ Selecting
  /\ dones # <<>>
  /\ LET d == Head(dones)
     IN /\ podStatuses' = IF podStatuses[d.pod] # "absent" /\ d.pod \in tracked
                            THEN [podStatuses EXCEPT ![d.pod] = d.status] ELSE podStatuses
  /\ out' = IfDeployed(StatusReport(podStatuses', filed))
  /\ dones' = Tail(dones)
  /\ UNCHANGED <<cluster, added, announced, podTracker, statuses, errs, deployed, fresh, filed,
                 tracked, consumer, events>>

\* handleDeploymentState with the same Deployment; a tracker that is Ready
\* sends nothing, but then its consumer has returned.
HandleDonePods ==
  /\ Selecting
  /\ dones # <<>>
  /\ LET d == Head(dones)
     IN /\ podStatuses' = IF podStatuses[d.pod] # "absent" /\ d.pod \in tracked
                            THEN [podStatuses EXCEPT ![d.pod] = d.status] ELSE podStatuses
        /\ tracked' = tracked \ {d.pod}
  /\ out' = IfDeployed(StatusReport(podStatuses', filed))
  /\ dones' = Tail(dones)
  /\ UNCHANGED <<cluster, added, announced, podTracker, statuses, errs, deployed, fresh, filed,
                 consumer, events>>

HandlePodStatuses ==
  /\ Selecting
  /\ statuses # <<>>
  /\ podStatuses' = [podStatuses EXCEPT ![Head(statuses).pod] = Head(statuses).status]
  /\ out' = IfDeployed(StatusReport(podStatuses', filed))
  /\ statuses' = Tail(statuses)
  /\ UNCHANGED <<cluster, added, announced, podTracker, errs, dones, deployed, fresh, filed,
                 tracked, consumer, events>>

\* Mutant: an error is reported for a Pod of any ReplicaSet.
PodErrorOfAny(p) ==
  [PodReport("PodError", p, podStatuses', filed) EXCEPT !.isNew = TRUE]

PodErrorReport(p) == PodReport("PodError", p, podStatuses', filed)

HandlePodContainerErrors ==
  /\ Selecting
  /\ errs # <<>>
  /\ podStatuses' = [podStatuses EXCEPT ![Head(errs).pod] = Head(errs).status]
  /\ out' = IF Head(errs).pod \in filed THEN IfDeployed(PodErrorReport(Head(errs).pod)) ELSE <<>>
  /\ errs' = Tail(errs)
  /\ UNCHANGED <<cluster, added, announced, podTracker, statuses, dones, deployed, fresh, filed,
                 tracked, consumer, events>>

\* Before any ReplicaSet is known every Pod counts as new.
Freshness == {Pod, {}} \cup {{p \in Pod : RSOf[p] = rs} : rs \in RS}

\* What the loop knows of Pods and ReplicaSets is forgotten with a Deployment that is
\* deleted.
ForgetPods ==
  /\ fresh' = Pod
  /\ filed' = {}
  /\ podStatuses' = [p \in Pod |-> "absent"]
  /\ tracked' = {}

\* A case of DeploymentTracker: Deployments and ReplicaSets come and go.
HandleOther ==
  /\ Selecting
  /\ Event
  /\ deployed' \in BOOLEAN
  /\ fresh' \in Freshness
  /\ <<deployed', fresh'>> # <<deployed, fresh>>
  /\ IF deployed /\ ~ deployed' THEN ForgetPods ELSE UNCHANGED <<filed, podStatuses, tracked>>
  /\ out' = <<[StatusReport(podStatuses, filed) EXCEPT
                 !.pods = IF deployed' THEN {p \in fresh' \cap filed : podStatuses[p] = "named"}
                                       ELSE {}]>>
  /\ UNCHANGED <<cluster, added, announced, podTracker, relays, consumer>>

-----------------------------------------------------------------------------
(***************************************************************************)
(* The channels to the consumer, and the consumer.                         *)
(***************************************************************************)
EnqueueReport(ch) ==
  /\ out # <<>> /\ Head(out).ch = ch
  /\ Len(reports[ch]) < ReportCapacity
  /\ reports' = [reports EXCEPT ![ch] = Append(@, Head(out))]
  /\ out' = <<>>
  /\ UNCHANGED <<cluster, added, announced, podTracker, relays, deployed, fresh, filed,
                 podStatuses, tracked, task, verdict, events>>

Consume(r) ==
  IF Panics(HandleStatus(task, r), r)
    THEN verdict' = "panic" /\ UNCHANGED task
    ELSE task' = HandleReport(task, r) /\ verdict' = VerdictOf(task')

ConsumeReport(ch) ==
  /\ reports[ch] # <<>>
  /\ Consume(Head(reports[ch]))
  /\ reports' = [reports EXCEPT ![ch] = Tail(@)]
  /\ UNCHANGED <<cluster, added, announced, podTracker, relays, loop, events>>

ConsumePodError ==
  /\ out # <<>> /\ Head(out).ch = "PodError"
  /\ Consume(Head(out))
  /\ out' = <<>>
  /\ UNCHANGED <<cluster, added, announced, podTracker, relays, deployed, fresh, filed,
                 podStatuses, tracked, reports, events>>

\* Tear-down is the business of DeploymentReadiness.
Over == verdict # "tracking" /\ UNCHANGED podVars

\* Everything is at rest; so may be the tracker of a Pod that was gone before
\* it was started.
Quiet ==
  /\ verdict = "tracking" /\ Selecting
  /\ added = {} /\ announced = Pod /\ relays = <<<<>>, <<>>, <<>>>>
  /\ \A p \in Pod : /\ cluster[p] = "gone"
                    /\ run[p] = "done" \/ view[p] = "nothing"
  /\ reports = [ch \in DOMAIN reports |-> <<>>]
  /\ UNCHANGED podVars

PodInit ==
  /\ cluster = [p \in Pod |-> "unborn"] /\ added = {} /\ announced = {}
  /\ view = [p \in Pod |-> "nothing"] /\ run = [p \in Pod |-> "none"]
  /\ last = [p \in Pod |-> "blank"]
  /\ status = [p \in Pod |-> <<>>] /\ offer = [p \in Pod |-> <<>>]
  /\ statuses = <<>> /\ errs = <<>> /\ dones = <<>>
  /\ deployed = TRUE /\ fresh \in Freshness /\ filed = {}
  /\ podStatuses = [p \in Pod |-> "absent"] /\ tracked = {} /\ out = <<>>
  /\ reports = [ch \in {"Status", "AddedPod"} |-> <<>>]
  /\ task = NewReadinessTaskState(Mode, Allow)
  /\ verdict = "tracking"
  /\ events = 0

PodStart(p) ==
  \/ HandlePodState(p) \/ HandlePodDeleted(p) \/ HandleProbeEvent(p)
  \/ HandleRegularFailure(p) \/ SendBuffered(p) \/ StartReturns(p)

PodRelays(p) ==
  RelayBuffered(p) \/ RelayUnbuffered(p) \/ RelayContainerError(p) \/ RelayDone(p)

Track ==
  \/ \E p \in Pod : RunPodTracker(p)
  \/ HandlePodAdded \/ HandleDonePods \/ HandlePodStatuses \/ HandlePodContainerErrors
  \/ HandleOther

Consumer ==
  ConsumePodError \/ \E ch \in DOMAIN reports : ConsumeReport(ch)

PodNext ==
  \/ /\ verdict = "tracking"
     /\ \/ \E p \in Pod : \/ PodCreated(p) \/ PodGone(p) \/ PodAnnounced(p)
                          \/ PodStart(p) \/ PodRelays(p)
        \/ Track
        \/ \E ch \in DOMAIN reports : EnqueueReport(ch)
        \/ Consumer
  \/ Over
  \/ Quiet

PodSpec == PodInit /\ [][PodNext]_podVars

\* Every goroutine runs, and each select takes a case that is ready again and
\* again.
PodFairness ==
  /\ \A p \in Pod :
       /\ WF_podVars(SendBuffered(p)) /\ WF_podVars(RunPodTracker(p))
       /\ SF_podVars(RelayUnbuffered(p)) /\ SF_podVars(RelayContainerError(p))
       /\ SF_podVars(StartReturns(p)) /\ SF_podVars(RelayDone(p))
  /\ SF_podVars(HandleDonePods) /\ SF_podVars(HandlePodStatuses)
  /\ SF_podVars(HandlePodContainerErrors)
  /\ WF_podVars(\E ch \in DOMAIN reports : EnqueueReport(ch))
  /\ WF_podVars(Consumer)

FairPodSpec == PodSpec /\ PodFairness

-----------------------------------------------------------------------------
(***************************************************************************)
(* Properties.                                                             *)
(***************************************************************************)

\* Only errors of Pods of the new ReplicaSet are charged, judged by what the
\* tracker knows at that moment and not by an older report.
OnlyNewPodsAreCharged ==
  [][\A e \in task'.errors \ task.errors : deployed /\ e[1] \in fresh]_podVars

\* An error that is charged is counted: its Pod hangs from the root, so the
\* search that counts the errors reaches it.
ChargedErrorsCount ==
  /\ task.vertices = ResourceStates(task)
  /\ \A e \in task.errors : e[1] \in task.vertices

\* A Pod whose deletion its tracker has seen is given up: no wait among the two
\* goroutines of the Pod, Track and the consumer is for ever.
DeletedPodIsReleased ==
  \A p \in Pod : view[p] = "deleted" ~> (p \notin tracked \/ verdict # "tracking")

\* lo.Must1: the Pod of an error has a resource state.
PodErrorHasResource == verdict # "panic"
=============================================================================
