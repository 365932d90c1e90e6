------------------------- MODULE ControllerReadiness -------------------------
(***************************************************************************)
(* The tracker of a StatefulSet or a DaemonSet and the consumer beside it, *)
(* trackStatefulSet or trackDaemonSet, with the channels between them.     *)
(*                                                                         *)
(* Unlike that of a Deployment this consumer takes an error of any Pod,    *)
(* new or old.                                                             *)
(***************************************************************************)
EXTENDS ControllerTracker

CONSTANTS
  Mode,      \* FailMode
  Allow,     \* TotalAllowFailuresCount
  Capacity   \* bound: the places of each buffered channel

Buffered == {"Added", "Status", "AddedPod"}

ASSUME ControllerReadinessAssumption ==
  /\ Mode \in FailMode /\ Allow \in Nat
  /\ Capacity \in [Buffered -> Nat \ {0}]

VARIABLES
  queue,     \* what is in the buffered channels of the tracker
  trackErr,  \* the channel trackErrCh: "empty", or what Track returned
  task,      \* the readiness task
  verdict    \* "tracking" until the consumer returns or panics

consumer == <<queue, trackErr, task, verdict>>
allVars  == <<vars, consumer>>

ControllerTypeOK ==
  /\ TrackerTypeOK
  /\ queue \in [Buffered -> Seq(Report)]
  /\ \A ch \in Buffered : Len(queue[ch]) <= Capacity[ch]
  /\ trackErr \in {"empty", "error", "stopped"}
  /\ task \in ReadinessTaskState
  /\ verdict \in {"tracking", "ready", "failed", "error", "stopped", "panic"}

-----------------------------------------------------------------------------
(***************************************************************************)
(* The handlers of the consumer.                                           *)
(***************************************************************************)
AddPods(ts, ps) == AddDependencies(AddResourceStates(ts, ps), ps)

\* handlePodsFromStatefulSetStatus, and of every Pod that is announced
\* handlePodsFromStatefulSetPodAddedReport.
HandlePods(ts, r) == AddPods(ts, r.pods \cup (IF r.ch = "AddedPod" THEN {r.pod} ELSE {}))

\* handleStatefulSetStatus
HandleReplicas(ts, r) == IF r.replicas = Nil THEN ts ELSE [ts EXCEPT !.replicas = r.replicas]

HandleResourceStatus(ts, r) ==
  CASE r.ready                  -> SetReady(HandleReplicas(ts, r))
    [] ~ r.ready /\ r.failed    -> AddError(HandleReplicas(ts, r), Root)
    [] ~ r.ready /\ ~ r.failed  -> HandleReplicas(ts, r)

HandleReport(ts, r) ==
  LET handled == HandleResourceStatus(HandlePods(ts, r), r)
  IN CASE r.ch = "Added"    -> SetRootResourceCreated(handled)
       [] r.ch = "PodError" -> AddError(handled, r.pod)
       [] r.ch \in {"Ready", "Failed", "Status", "AddedPod"} -> handled

\* lo.Must1 in ReadinessTaskState.ResourceState: the vertex has to be there.
Panics(ts, r) == r.ch = "PodError" /\ r.pod \notin HandlePods(ts, r).vertices

Consume(r) ==
  IF Panics(task, r)
    THEN verdict' = "panic" /\ UNCHANGED task
    ELSE task' = HandleReport(task, r) /\ verdict' = VerdictOf(task')

-----------------------------------------------------------------------------
(***************************************************************************)
(* The channels between the two.                                           *)
(***************************************************************************)
Sending(ch) == t.out # <<>> /\ Head(t.out).ch = ch

Sent ==
  /\ t' = [t EXCEPT !.out = <<>>]
  /\ UNCHANGED <<object, buf, failure, podSide, changes, ctxDone, pc, failures>>

Enqueue(ch) ==
  /\ Sending(ch)
  /\ Len(queue[ch]) < Capacity[ch]
  /\ queue' = [queue EXCEPT ![ch] = Append(@, Head(t.out))]
  /\ Sent
  /\ UNCHANGED <<trackErr, task, verdict>>

ConsumeBuffered(ch) ==
  /\ verdict = "tracking"
  /\ queue[ch] # <<>>
  /\ Consume(Head(queue[ch]))
  /\ queue' = [queue EXCEPT ![ch] = Tail(@)]
  /\ UNCHANGED <<vars, trackErr>>

ConsumeAdded    == ConsumeBuffered("Added")
ConsumeStatus   == ConsumeBuffered("Status")
ConsumeAddedPod == ConsumeBuffered("AddedPod")

\* Unbuffered: the send completes with the receive.
ConsumeUnbuffered(ch) ==
  /\ verdict = "tracking"
  /\ Sending(ch)
  /\ Consume(Head(t.out))
  /\ Sent
  /\ UNCHANGED <<queue, trackErr>>

ConsumeReady    == ConsumeUnbuffered("Ready")
ConsumeFailed   == ConsumeUnbuffered("Failed")
ConsumePodError == ConsumeUnbuffered("PodError")

ConsumeTrackErr ==
  /\ verdict = "tracking"
  /\ trackErr # "empty"
  /\ verdict' = trackErr
  /\ trackErr' = "empty"
  /\ UNCHANGED <<vars, queue, task>>

\* The context ends by the deferred trackCtxCancelFn, by its timeout or by the
\* caller.
ContextEnds ==
  /\ ~ ctxDone
  /\ ctxDone' = TRUE
  /\ UNCHANGED <<object, buf, failure, podSide, changes, pc, failures, t>>
  /\ UNCHANGED consumer

Cancel          == verdict = "tracking" /\ ContextEnds
ConsumerReturns == verdict \notin {"tracking", "panic"} /\ ContextEnds

\* Track returns the cause of the context, which is ErrStopTrack if the caller
\* cancelled it with that.
TrackCancelled ==
  /\ HandleCtxDone
  /\ trackErr' \in {"error", "stopped"}
  /\ UNCHANGED <<queue, task, verdict>>

TrackFails ==
  /\ HandleError
  /\ trackErr' = "error"
  /\ UNCHANGED <<queue, task, verdict>>

TrackGoesOn ==
  /\ \/ HandleResourceAdded \/ HandleResourceModified \/ HandleResourceDeleted
     \/ HandleResourceFailed
     \/ HandlePodAdded \/ HandleDonePods \/ HandlePodStatuses \/ HandlePodContainerErrors
  /\ UNCHANGED consumer

PodTracker(i) ==
  HandlePodState(i) \/ HandlePodDeleted(i) \/ HandleProbeEvent(i) \/ StartReturns(i)

World ==
  /\ \/ ObjectAdded \/ ObjectModified \/ ObjectDeleted \/ FailureEvent
     \/ \E p \in Pod : PodCreated(p) \/ PodGone(p) \/ PodAnnounced(p)
     \/ \E i \in DOMAIN runs : PodTracker(i)
  /\ UNCHANGED consumer

\* Nothing is of interest when the consumer has returned, but that Track may
\* stay behind in a send.
Over ==
  /\ verdict # "tracking" /\ (verdict = "panic" \/ ctxDone)
  /\ UNCHANGED allVars

\* Track waits, and nothing has to happen.
Quiet ==
  /\ verdict = "tracking" /\ Selecting
  /\ \A kind \in DOMAIN buf : buf[kind] = Nil
  /\ failure = "none" /\ added = <<>> /\ relays = <<<<>>, <<>>, <<>>>>
  /\ UNCHANGED allVars

ReadinessInit ==
  /\ Init
  /\ queue = [ch \in Buffered |-> <<>>]
  /\ trackErr = "empty"
  /\ task = NewReadinessTaskState(Mode, Allow)
  /\ verdict = "tracking"

Tracking == TrackGoesOn \/ World \/ TrackCancelled \/ TrackFails \/ \E ch \in Buffered : Enqueue(ch)

ReadinessNext ==
  \/ verdict = "tracking" /\ Tracking
  \/ ConsumeAdded \/ ConsumeStatus \/ ConsumeAddedPod
  \/ ConsumeReady \/ ConsumeFailed \/ ConsumePodError
  \/ ConsumeTrackErr
  \/ Cancel
  \/ ConsumerReturns
  \/ Over \/ Quiet

ReadinessSpec == ReadinessInit /\ [][ReadinessNext]_allVars

\* Both goroutines run, and select takes a case that is ready again and again,
\* since Go chooses at random.
ReadinessFairness ==
  /\ WF_allVars(\E ch \in Buffered : Enqueue(ch))
  /\ WF_allVars(ConsumeAdded \/ ConsumeStatus \/ ConsumeAddedPod
                 \/ ConsumeReady \/ ConsumeFailed \/ ConsumePodError)
  /\ SF_allVars(ConsumeTrackErr)
  /\ SF_allVars(TrackCancelled)
  /\ SF_allVars(HandleResourceAdded /\ UNCHANGED consumer)
  /\ SF_allVars(HandleResourceModified /\ UNCHANGED consumer)

FairReadinessSpec == ReadinessSpec /\ ReadinessFairness

-----------------------------------------------------------------------------
(***************************************************************************)
(* Properties.                                                             *)
(***************************************************************************)

\* The consumer calls the resource ready only while the newest object that the
\* tracker has seen is ready: no buffered status, and no report about a Pod,
\* makes it so after that.
ReadyIsCurrent ==
  [][verdict' = "ready" =>
       verdict = "ready" \/ (t.lastObject # Nil /\ IsReady(t.lastObject))]_allVars

RootErrors == Cardinality(ErrorsOf(task, Root))

FailedInOut == IF Sending("Failed") THEN 1 ELSE 0

\* Of the failure events that Track has handled, those whose report was taken.
FailuresTaken == failures - FailedInOut

\* Every failure event that Track has handled is charged to the task when its report is
\* taken, whether there is an object or it is gone: no other charge, before or after,
\* makes up for one that is lost.
EveryFailureIsCharged ==
  [][verdict' = "tracking" =>
       RootErrors' - RootErrors >= FailuresTaken' - FailuresTaken]_allVars

\* The last incarnation of a name that was announced.
Announced(p) == announced[p] # Nil /\ announced[p] = Len(pods[p].revisions) /\ pods[p].live

\* A Pod that comes back under the name of one that is gone gets a tracker of its
\* own, and what ends the tracker of the older one does not end it.
LivePodIsTracked ==
  \A p \in Pod : Announced(p) =>
    \/ \E i \in DOMAIN added : added[i].pod = p
    \/ \E i \in DOMAIN runs : /\ runs[i].pod = p /\ runs[i].phase \in {"starting", "running"}
                              /\ runs[i].view \in {0, announced[p]}

\* The resource is ready for good: the user hears of it, whether its tracker has
\* failed before, or has seen it deleted before or after it was added.
ReadyIsNoticed ==
  <>[](object # Nil /\ IsReady(object)) => <>(verdict # "tracking")
=============================================================================
