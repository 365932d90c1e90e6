------------------------- MODULE DeploymentReadiness -------------------------
(***************************************************************************)
(* The deployment tracker and the consumer that DynamicReadinessTracker    *)
(* runs beside it.  The consumer selects over the channels of the tracker, *)
(* some of which are buffered, and over the result of Track; when it       *)
(* returns it cancels the context of the tracker.                          *)
(*                                                                         *)
(* Pods are left to PodRelay: the reports here are about none.             *)
(***************************************************************************)
EXTENDS DeploymentTracker, DeploymentConsumer

CONSTANTS
  AllowedFailures,   \* the values of TotalAllowFailuresCount
  Capacity           \* bound: the places of each buffered channel

Buffered == {"Added", "Status", "AddedReplicaSet"}

ASSUME CapacityAssumption ==
  /\ Capacity \in [Buffered -> Nat \ {0}]
  /\ AllowedFailures \subseteq Nat

VARIABLES
  queue,     \* what is in the buffered channels of the tracker
  trackErr,  \* the channel trackErrCh: "empty", or what Track returned
  task,      \* the readiness task
  verdict,   \* "tracking" until the consumer returns, then what it returned
  fatalSent  \* history: has the consumer been sent a fatal failure?

consumer == <<queue, trackErr, task, verdict, fatalSent>>

ReadinessTypeOK ==
  /\ TypeOK
  /\ queue \in [Buffered -> Seq(Report)]
  /\ \A ch \in Buffered : Len(queue[ch]) <= Capacity[ch]
  /\ trackErr \in {"empty", "error", "stopped"}
  /\ task \in ReadinessTaskState
  /\ verdict \in {"tracking", "ready", "failed", "error", "stopped"}

DeploymentReady == t.lastObject # None /\ t.lastObject.ready

\* The status of a report is computed by the handler that sends it, which
\* changes nothing between that and the end of the send.
ReportOf(m, replicas) ==
  [ch |-> m.ch, failed |-> m.ch = "Failed", fatal |-> m.ch = "Failed" /\ m.mode = "fatal",
   ready |-> DeploymentReady /\ m.ch # "Failed",
   replicas |-> replicas, pods |-> {}, pod |-> Nil, isNew |-> FALSE]

\* There is no indicator without a Deployment, nor while the controller has not
\* observed its generation, and then it is not ready either.
Indicators ==
  (IF t.lastObject = None THEN {} ELSE Replicas) \cup (IF DeploymentReady THEN {} ELSE {Nil})

Sending(ch) == t.out # <<>> /\ Head(t.out).ch = ch

\* A send into a buffer.
Enqueue(ch) ==
  /\ Sending(ch)
  /\ Len(queue[ch]) < Capacity[ch]
  /\ Sent
  /\ \E n \in Indicators : queue' = [queue EXCEPT ![ch] = Append(@, ReportOf(Head(t.out), n))]
  /\ UNCHANGED <<trackErr, task, verdict, fatalSent>>

\* The body of a case of the consumer's select.
Consume(r) ==
  /\ task' = HandleReport(task, r)
  /\ verdict' = VerdictOf(task')
  /\ fatalSent' = (fatalSent \/ r.fatal)
  /\ UNCHANGED trackErr

ConsumeBuffered(ch) ==
  /\ verdict = "tracking"
  /\ queue[ch] # <<>>
  /\ Consume(Head(queue[ch]))
  /\ queue' = [queue EXCEPT ![ch] = Tail(@)]
  /\ UNCHANGED vars

ConsumeAdded           == ConsumeBuffered("Added")
ConsumeStatus          == ConsumeBuffered("Status")
ConsumeAddedReplicaSet == ConsumeBuffered("AddedReplicaSet")

\* Unbuffered: the send completes with the receive.
ConsumeUnbuffered(ch) ==
  /\ verdict = "tracking"
  /\ Sending(ch)
  /\ \E n \in Indicators : Consume(ReportOf(Head(t.out), n))
  /\ Sent
  /\ UNCHANGED queue

ConsumeReady  == ConsumeUnbuffered("Ready")
ConsumeFailed == ConsumeUnbuffered("Failed")

ConsumeTrackErr ==
  /\ verdict = "tracking"
  /\ trackErr # "empty"
  /\ verdict' = trackErr
  /\ trackErr' = "empty"
  /\ UNCHANGED <<vars, queue, task, fatalSent>>

\* The deferred trackCtxCancelFn.
ConsumerReturns ==
  /\ verdict # "tracking"
  /\ ~ ctxDone
  /\ ctxDone' = TRUE
  /\ UNCHANGED <<env, buf, eventFailure, recheck, staleTimers, pc, t, consumer>>

\* Track returns the cause of the context, which is ErrStopTrack if the caller
\* cancelled it with that.
TrackCancelled ==
  /\ HandleCtxDone \/ AbortFailedSend
  /\ trackErr' \in {"error", "stopped"}
  /\ UNCHANGED <<queue, task, verdict, fatalSent>>

TrackFails ==
  /\ HandleError
  /\ trackErr' = "error"
  /\ UNCHANGED <<queue, task, verdict, fatalSent>>

\* Every other case of the tracker and of its environment; the caller's
\* context has a timeout and may be cancelled.
TrackGoesOn ==
  \/ HandleResourceAdded \/ HandleResourceModified \/ HandleResourceDeleted
  \/ HandleResourceFailed
  \/ HandleReplicaSetAdded \/ HandleReplicaSetModified
  \/ HandleReplicaSetDeleted \/ HandleReplicaSetUnselected
  \/ HandleReplicaSetSynced
  \/ HandleQuotaDeadlockRecheck
  \/ HandlePodUpdate

World ==
  \/ DeploymentAdded \/ DeploymentModified \/ DeploymentDeleted
  \/ \E u \in UID : \/ ReplicaSetCreated(u)
                    \/ ReplicaSetUpdated(u)
                    \/ ReplicaSetDeleted(u)
                    \/ ReplicaSetListed(u)
                    \/ Elapse(u)
                    \/ TimerFires(u)
  \/ \E u, v \in UID : ReplicaSetReplaced(u, v)
  \/ EventFailure \/ StaleTimerFires \/ Cancel \/ DropOffer

\* The consumer has returned and Track with it, or Track is left blocked in a
\* send; or everything has come to rest.
Over ==
  \/ Returned /\ verdict # "tracking" /\ UNCHANGED consumer
  \/ /\ verdict # "tracking" /\ ctxDone
     /\ \E ch \in Channel \ {"Failed"} : /\ Sending(ch)
                                         /\ ch \in Buffered => Len(queue[ch]) = Capacity[ch]
     /\ UNCHANGED <<vars, consumer>>
  \/ Quiet /\ UNCHANGED consumer

ReadinessInit ==
  /\ Init
  /\ queue = [ch \in Buffered |-> <<>>]
  /\ trackErr = "empty"
  /\ task \in {NewReadinessTaskState(mode, allow) : mode \in FailMode, allow \in AllowedFailures}
  /\ verdict = "tracking"
  /\ fatalSent = FALSE

ReadinessNext ==
  \/ (TrackGoesOn \/ World) /\ UNCHANGED consumer
  \/ TrackCancelled \/ TrackFails
  \/ \E ch \in Buffered : Enqueue(ch)
  \/ ConsumeAdded \/ ConsumeStatus \/ ConsumeAddedReplicaSet
  \/ ConsumeReady \/ ConsumeFailed
  \/ ConsumeTrackErr
  \/ ConsumerReturns
  \/ Over

ReadinessVars == <<vars, consumer>>

ReadinessSpec == ReadinessInit /\ [][ReadinessNext]_ReadinessVars

\* Both goroutines run, and each select takes a case that is ready again and
\* again: Go chooses at random.
ReadinessFairness ==
  /\ WF_ReadinessVars(\E ch \in Buffered : Enqueue(ch))
  /\ WF_ReadinessVars(ConsumeAdded \/ ConsumeStatus \/ ConsumeAddedReplicaSet
                       \/ ConsumeReady \/ ConsumeFailed)
  /\ SF_ReadinessVars(ConsumeTrackErr)
  /\ WF_ReadinessVars(ConsumerReturns)
  /\ SF_ReadinessVars(TrackCancelled)

FairReadinessSpec == ReadinessSpec /\ ReadinessFairness

-----------------------------------------------------------------------------
(***************************************************************************)
(* Properties.                                                             *)
(***************************************************************************)

\* Whatever the order of the events, the messages and the buffers, a user sees
\* the budget kept: each message charges at most one failure, the first failure
\* over the budget and the first fatal one end the task in the same step.
Verdict == INSTANCE ReadinessVerdict
             WITH failMode <- task.failMode, allow <- task.allow,
                  spent <- TotalErrors(task), fatal <- fatalSent

BudgetIsKept == Verdict!Spec

\* The consumer calls the resource ready only while the newest Deployment the
\* tracker has seen is ready: no buffered message makes it so.
ReadyIsCurrent ==
  [][verdict' = "ready" => verdict = "ready" \/ DeploymentReady]_ReadinessVars

\* The consumer fails the task only while the tracker itself is Failed, by an
\* event or by a ReplicaSet it knows to be failing.
FailureIsCurrent ==
  [][verdict' = "failed" =>
       verdict = "failed" \/ (t.State = "Failed" /\ Attributable(t))]_ReadinessVars

\* A ready Deployment that has reached the tracker reaches its user.
ReadyIsDelivered == DeploymentReady ~> verdict # "tracking"

\* Neither the tracker nor its consumer outlives the context in a wait for the
\* other: a timeout is an answer.
CancellationEndsTracking == ctxDone ~> verdict # "tracking"
=============================================================================
