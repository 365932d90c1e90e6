------------------------- MODULE CompletionReadiness -------------------------
(***************************************************************************)
(* The tracker of a Job or a Canary and the consumer beside it, trackJob or *)
(* trackCanary, with the channels between them.  A Job requires one replica *)
(* whatever its parallelism; the consumer of a Canary knows no Pods.       *)
(***************************************************************************)
EXTENDS CompletionTracker

CONSTANTS
  Mode,      \* FailMode
  Allow,     \* TotalAllowFailuresCount
  Capacity   \* bound: the places of each buffered channel

Buffered == {"Added", "Status", "AddedPod"}

ASSUME CompletionReadinessAssumption ==
  /\ Mode \in FailMode /\ Allow \in Nat
  /\ Capacity \in [Buffered -> Nat \ {0}]

VARIABLES
  queue,     \* what is in the buffered channels of the tracker
  trackErr,  \* the channel trackErrCh: "empty", or what Track returned
  task,      \* the readiness task
  verdict    \* "tracking" until the consumer returns or panics

consumer == <<queue, trackErr, task, verdict>>
allVars  == <<vars, consumer>>

CompletionTypeOK ==
  /\ TrackerTypeOK
  /\ queue \in [Buffered -> Seq(Report)]
  /\ \A ch \in Buffered : Len(queue[ch]) <= Capacity[ch]
  /\ trackErr \in {"empty", "error", "stopped"}
  /\ task \in ReadinessTaskState
  /\ verdict \in {"tracking", "ready", "failed", "error", "stopped", "panic"}

-----------------------------------------------------------------------------
(***************************************************************************)
(* The handlers of the consumer.                                           *)
(***************************************************************************)
AddPods(ts, ps) == AddDependencies(AddResourceStates(ts, ps), ps)

\* handlePodsFromJobStatus, and of every Pod that is announced
\* handlePodsFromJobPodAddedReport.
HandlePods(ts, r) == AddPods(ts, r.pods \cup (IF r.ch = "AddedPod" THEN {r.pod} ELSE {}))

\* handleJobStatus sets the replicas before anything else, handleCanaryStatus none.
HandleReplicas(ts) == IF t.kind = "Job" THEN [ts EXCEPT !.replicas = 1] ELSE ts

\* What comes through Succeeded is a success whatever the status says.
HandleResourceStatus(ts, r) ==
  LET succeeded == r.succeeded \/ r.ch = "Succeeded"
  IN CASE succeeded                 -> SetReady(HandleReplicas(ts))
       [] ~ succeeded /\ r.failed   -> AddError(HandleReplicas(ts), Root)
       [] ~ succeeded /\ ~ r.failed -> HandleReplicas(ts)

HandleReport(ts, r) ==
  LET handled == HandleResourceStatus(HandlePods(ts, r), r)
  IN CASE r.ch = "Added"    -> SetRootResourceCreated(handled)
       [] r.ch = "PodError" -> AddError(handled, r.pod)
       [] r.ch \in {"Succeeded", "Failed", "Status", "AddedPod"} -> handled

\* lo.Must1 in ReadinessTaskState.ResourceState: the vertex has to be there.
Panics(ts, r) == r.ch = "PodError" /\ r.pod \notin HandlePods(ts, r).vertices

Consume(r) ==
  IF Panics(task, r)
    THEN verdict' = "panic" /\ UNCHANGED task
    ELSE task' = HandleReport(task, r) /\ verdict' = VerdictOf(task')

-----------------------------------------------------------------------------
(***************************************************************************)
(* The channels between the two.                                           *)
(***************************************************************************)
Sending(ch) == t.out # <<>> /\ Head(t.out).ch = ch

Sent ==
  /\ t' = [t EXCEPT !.out = <<>>]
  /\ UNCHANGED <<object, events, failure, podSide, changes, ctxDone, pc, history>>

Enqueue(ch) ==
  /\ Sending(ch)
  /\ Len(queue[ch]) < Capacity[ch]
  /\ queue' = [queue EXCEPT ![ch] = Append(@, Head(t.out))]
  /\ Sent
  /\ UNCHANGED <<trackErr, task, verdict>>

ConsumeBuffered(ch) ==
  /\ verdict = "tracking"
  /\ queue[ch] # <<>>
  /\ Consume(Head(queue[ch]))
  /\ queue' = [queue EXCEPT ![ch] = Tail(@)]
  /\ UNCHANGED <<vars, trackErr>>

ConsumeAdded    == ConsumeBuffered("Added")
ConsumeStatus   == ConsumeBuffered("Status")
ConsumeAddedPod == ConsumeBuffered("AddedPod")

\* Unbuffered: the send completes with the receive.
ConsumeUnbuffered(ch) ==
  /\ verdict = "tracking"
  /\ Sending(ch)
  /\ Consume(Head(t.out))
  /\ Sent
  /\ UNCHANGED <<queue, trackErr>>

ConsumeSucceeded == ConsumeUnbuffered("Succeeded")
ConsumeFailed    == ConsumeUnbuffered("Failed")
ConsumePodError  == ConsumeUnbuffered("PodError")

ConsumeTrackErr ==
  /\ verdict = "tracking"
  /\ trackErr # "empty"
  /\ verdict' = trackErr
  /\ trackErr' = "empty"
  /\ UNCHANGED <<vars, queue, task>>

\* The timeout of the context, its end by the caller, or by the deferred
\* trackCtxCancelFn, which nobody waits for.
Cancel ==
  /\ verdict = "tracking"
  /\ ~ ctxDone
  /\ ctxDone' = TRUE
  /\ UNCHANGED <<object, events, failure, podSide, changes, pc, history, t>>
  /\ UNCHANGED consumer

\* Track returns the cause of the context, which is ErrStopTrack if the caller
\* cancelled it with that.
TrackCancelled ==
  /\ HandleCtxDone
  /\ trackErr' \in {"error", "stopped"}
  /\ UNCHANGED <<queue, task, verdict>>

TrackFails ==
  /\ HandleError
  /\ trackErr' = "error"
  /\ UNCHANGED <<queue, task, verdict>>

TrackGoesOn ==
  /\ \/ HandleObjectAdded \/ HandleObjectModified \/ HandleObjectDeleted \/ HandleObjectFailed
     \/ HandlePodAdded \/ HandleDonePods \/ HandlePodStatuses \/ HandlePodContainerErrors
  /\ UNCHANGED consumer

PodTracker ==
  /\ \E p \in Pod : PodAnnounced(p) \/ ReportPod(p) \/ HandlePodDeleted(p) \/ StartReturns(p)
  /\ UNCHANGED consumer

World ==
  /\ \/ ObjectAdded \/ ObjectModified \/ ObjectDeleted \/ FailureEvent
     \/ \E p \in Pod : PodChanges(p) \/ PodWavers(p)
  /\ UNCHANGED consumer

Over == verdict # "tracking" /\ UNCHANGED allVars

\* Track waits, and nothing has to happen.
Quiet ==
  /\ verdict = "tracking" /\ Selecting
  /\ events # <<>> => t.kind = "Canary" /\ Head(events).type = "Deleted"
  /\ ~ failure /\ added = <<>> /\ relays = <<<<>>, <<>>, <<>>>>
  /\ UNCHANGED allVars

ReadinessInit ==
  /\ Init
  /\ queue = [ch \in Buffered |-> <<>>]
  /\ trackErr = "empty"
  /\ task = NewReadinessTaskState(Mode, Allow)
  /\ verdict = "tracking"

Consuming ==
  \/ ConsumeAdded \/ ConsumeStatus \/ ConsumeAddedPod
  \/ ConsumeSucceeded \/ ConsumeFailed \/ ConsumePodError
  \/ ConsumeTrackErr

Tracking ==
  verdict = "tracking" /\ (TrackGoesOn \/ PodTracker \/ \E ch \in Buffered : Enqueue(ch))

ReadinessNext ==
  \/ verdict = "tracking" /\ (World \/ TrackCancelled \/ TrackFails)
  \/ Tracking
  \/ Consuming
  \/ Cancel
  \/ Over \/ Quiet

ReadinessSpec == ReadinessInit /\ [][ReadinessNext]_allVars

\* All goroutines run, and since Go's select chooses at random among the cases that are
\* ready, the end of the context is taken in the end.
ReadinessFairness ==
  /\ WF_allVars(Tracking)
  /\ WF_allVars(Consuming)
  /\ SF_allVars(TrackCancelled)
  /\ SF_allVars(ConsumeTrackErr)

FairReadinessSpec == ReadinessSpec /\ ReadinessFairness

-----------------------------------------------------------------------------
(***************************************************************************)
(* Properties.                                                             *)
(***************************************************************************)

\* A Pod has come to its end, and so have its logs: its tracker has said so or was told
\* to stop.
IsOver(p) ==
  /\ pods[p] \in Terminated \cup {"gone"}
  /\ runs[p].phase \in {"cancelled", "done"} \/ runs[p].last \in Terminated

\* The last the Job's tracker has heard of the Pod is a failure that the Pod goes on after.
IsCalledFailed(p) == t.podStatuses[p] = "failing"

\* A Job is called done only when every Pod that Track was told of, since the Job was
\* last deleted, is over, logs included.  But a Pod that is IsFailed counts as terminated
\* while it still runs, and nobody waits for its end.
NoPodIsLeftRunning ==
  [][verdict # "ready" /\ verdict' = "ready" =>
       \A p \in followed : IsOver(p) \/ IsCalledFailed(p)]_allVars

RootErrors == Cardinality(ErrorsOf(task, Root))

FailedInOut == IF Sending("Failed") THEN 1 ELSE 0

\* Of the failure events that Track has handled, those whose report was taken.
FailuresTaken == failures - FailedInOut

\* Every failure event that Track has handled is charged to the task when its report is
\* taken, whether there is an object or it is gone: no other charge, before or after,
\* makes up for one that is lost.
EveryFailureIsCharged ==
  [][verdict' = "tracking" =>
       RootErrors' - RootErrors >= FailuresTaken' - FailuresTaken]_allVars

\* The handler of a deleted Canary waits in its send for ever.
HandlerIsStuck == t.kind = "Canary" /\ \E i \in DOMAIN events : events[i].type = "Deleted"

\* A Pod that was gone before its tracker saw it.
IsMissed(p) == runs[p].phase = "starting" /\ pods[p] = "gone"

\* The report of a container's error waited in a relay of its own and was handled after
\* the last status of the Pod, which it has overwritten with an older one.
IsOverwritten(p) == runs[p].last \in Terminated /\ t.podStatuses[p] = "active"

\* The resource has succeeded for good, and its Pods are over: the user hears of it,
\* whether its tracker has failed before, or has seen it deleted.  But not when the
\* handler is stuck, or the Job waits for a Pod that its tracker has missed, or whose last
\* status is lost.
SuccessIsNoticed ==
  <>[](/\ object = "complete"
       /\ \A p \in Pod : /\ pods[p] \in {"absent", "gone"} \cup Terminated
                         /\ ~ IsMissed(p) /\ ~ IsOverwritten(p)
       /\ ~ HandlerIsStuck) =>
    <>(verdict # "tracking")

\* A timeout is an answer, although no send of Track gives up with the context, and
\* although the handler may be stuck.
CancellationEndsTracking == ctxDone ~> verdict # "tracking"
=============================================================================
