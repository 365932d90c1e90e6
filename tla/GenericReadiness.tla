--------------------------- MODULE GenericReadiness ---------------------------
(***************************************************************************)
(* The generic tracker and the consumer that DynamicReadinessTracker runs  *)
(* beside it: trackGeneric.  Only the channel for regular statuses is      *)
(* buffered.  When the consumer returns it cancels the tracker's context.  *)
(***************************************************************************)
EXTENDS GenericTracker, ReadinessTask

CONSTANTS
  Modes,             \* the values of FailMode
  AllowedFailures,   \* and of TotalAllowFailuresCount
  RegularCapacity    \* bound: the places of the channel, 100 in the code

ASSUME GenericReadinessAssumption ==
  /\ Modes \subseteq FailMode
  /\ AllowedFailures \subseteq Nat
  /\ RegularCapacity \in Nat \ {0}
  /\ Pod = {}

VARIABLES
  regular,    \* what is in the channel for regular statuses
  trackErr,   \* the channel trackErrCh: "empty", or what Track returned
  task,       \* the readiness task
  verdict     \* "tracking" until the consumer returns, then what it returned

consumer == <<regular, trackErr, task, verdict>>

ReadinessTypeOK ==
  /\ GenericTypeOK
  /\ regular \in Seq(Message) /\ Len(regular) <= RegularCapacity
  /\ trackErr \in {"empty", "error", "stopped"}
  /\ task \in ReadinessTaskState
  /\ verdict \in {"tracking", "ready", "failed", "error", "stopped"}

-----------------------------------------------------------------------------
\* Mutant: the failure of the timer is no error of the resource.
TimeoutNotRecorded(ts, status) ==
  CASE status = "ready"                    -> SetReady(ts)
    [] status = "failed"                   -> AddError(ts, Root)
    [] status = "deleted"                  -> SetResourceStatus(ts, Root, "Deleted")
    [] status \in {"progressing", "timeout"} -> ts

\* The root is the only resource of the task.
HandleGenericResourceStatus(ts, status) ==
  CASE status = "ready"                    -> SetReady(ts)
    [] status \in {"failed", "timeout"}    -> AddError(ts, Root)
    [] status = "deleted"                  -> SetResourceStatus(ts, Root, "Deleted")
    [] status = "progressing"              -> ts

HandleMessage(ts, m) ==
  CASE m.ch = "event" -> ts
    [] m.ch = "added" -> SetRootResourceCreated(HandleGenericResourceStatus(ts, m.status))
    [] m.ch \in {"succeeded", "failed", "regular"} -> HandleGenericResourceStatus(ts, m.status)

Sending(ch) == out # <<>> /\ Head(out).ch = ch

EnqueueRegular ==
  /\ Sending("regular")
  /\ Len(regular) < RegularCapacity
  /\ regular' = Append(regular, Head(out))
  /\ Sent
  /\ UNCHANGED <<trackErr, task, verdict>>

Consume(m) ==
  /\ verdict = "tracking"
  /\ task' = HandleMessage(task, m)
  /\ verdict' = VerdictOf(task')
  /\ UNCHANGED trackErr

ConsumeRegular ==
  /\ regular # <<>>
  /\ Consume(Head(regular))
  /\ regular' = Tail(regular)
  /\ UNCHANGED genericVars

\* Unbuffered: the send completes with the receive.
ConsumeUnbuffered(ch) ==
  /\ Sending(ch)
  /\ Consume(Head(out))
  /\ Sent
  /\ UNCHANGED regular

ConsumeAdded     == ConsumeUnbuffered("added")
ConsumeSucceeded == ConsumeUnbuffered("succeeded")
ConsumeFailed    == ConsumeUnbuffered("failed")
ConsumeEvent     == ConsumeUnbuffered("event")

ConsumeTrackErr ==
  /\ verdict = "tracking"
  /\ trackErr # "empty"
  /\ verdict' = trackErr
  /\ trackErr' = "empty"
  /\ UNCHANGED <<genericVars, regular, task>>

\* The deferred trackCtxCancelFn.
ConsumerReturns ==
  /\ verdict # "tracking"
  /\ ~ ctxDone
  /\ ctxDone' = TRUE
  /\ UNCHANGED <<object, pending, eventOffer, bounds, fields, ticker, replay, loop, saving, out,
                 history, consumer>>

\* Track returns the cause of the context, which is ErrStopTrack if the caller
\* cancelled it with that.
TrackCancelled ==
  /\ HandleCtxDone
  /\ trackErr' \in {"error", "stopped"}
  /\ UNCHANGED <<regular, task, verdict>>

TrackFails ==
  /\ HandleError
  /\ trackErr' = "error"
  /\ UNCHANGED <<regular, task, verdict>>

\* The consumer has returned.  Track has returned or is left in a send; the
\* ticker has stopped, or is left in its send, or waits with Track.
Over ==
  /\ verdict # "tracking" /\ ctxDone
  /\ \/ loop = "returned" /\ ticker \in {"sending", "done", "stopped"}
     \/ out # <<>>
  /\ UNCHANGED <<genericVars, consumer>>

ReadinessInit ==
  /\ GenericInit
  /\ regular = <<>>
  /\ trackErr = "empty"
  /\ task \in {NewReadinessTaskState(mode, allow) : mode \in Modes, allow \in AllowedFailures}
  /\ verdict = "tracking"

Consumes ==
  \/ ConsumeRegular
  \/ ConsumeAdded \/ ConsumeSucceeded \/ ConsumeFailed \/ ConsumeEvent

ReadinessNext ==
  \/ (World \/ Ticker \/ TrackGoesOn) /\ UNCHANGED consumer
  \/ EnqueueRegular
  \/ Consumes
  \/ ConsumeTrackErr
  \/ ConsumerReturns
  \/ TrackCancelled \/ TrackFails
  \/ Over

readinessVars == <<genericVars, consumer>>

ReadinessSpec == ReadinessInit /\ [][ReadinessNext]_readinessVars

\* The goroutines run: the ticker, Track and the consumer; the timer fires when
\* nothing else happens.  Go's select takes a case that is ready again and again.
ReadinessFairness ==
  /\ WF_readinessVars((StabilizingTimePasses \/ TickerSwitches \/ TickerReads) /\ UNCHANGED consumer)
  /\ WF_readinessVars((TrackGoesOn /\ UNCHANGED consumer) \/ EnqueueRegular)
  /\ SF_readinessVars(HandleReplay /\ UNCHANGED consumer)
  /\ SF_readinessVars((HandleResourceAdded \/ HandleResourceModified \/ HandleResourceDeleted)
                       /\ UNCHANGED consumer)
  /\ WF_readinessVars(Consumes)
  /\ SF_readinessVars(ConsumeTrackErr)
  /\ SF_readinessVars(TrackCancelled \/ TrackFails)

FairReadinessSpec == ReadinessSpec /\ ReadinessFairness

-----------------------------------------------------------------------------
(***************************************************************************)
(* Properties.                                                             *)
(***************************************************************************)

\* A user sees the budget kept: a failure of the resource and each time that nothing
\* happens are charged as one failure, and the first over the budget ends the task in
\* the same step.  No failure is fatal by itself.
Verdict == INSTANCE ReadinessVerdict
             WITH failMode <- task.failMode, allow <- task.allow,
                  spent <- TotalErrors(task), fatal <- FALSE

BudgetIsKept == Verdict!Spec

\* A verdict about the object is about the newest one that Track has heard of:
\* no status that waits in the channel makes one.  Excepted are the timer, and
\* what was made of a replay that was overtaken.
VerdictIsCurrent ==
  [][\A v \in {"ready", "failed"} :
       verdict' = v => \/ verdict = v \/ heard = v \/ stale
                       \/ v = "failed" /\ Sending("failed") /\ Head(out).status = "timeout"]_readinessVars

\* The ticker read the object that was saved before the newest one was.
Overtaken == ticker \in {"sending", "done"} /\ saved # replay

\* Readiness that Track hears of reaches the user, also if it comes during the
\* stabilization, unless the resource changes or the save was too late.
ReadyIsDelivered ==
  (heard = "ready" /\ ~ Overtaken) ~> (verdict # "tracking" \/ heard # "ready" \/ Overtaken)

\* Tracking ends, whatever the resource does or fails to do.  Unless failures are
\* ignored the timer charges one after the other; and the end of the context ends
\* it in every mode: no wait of Track, its ticker or the consumer outlives it.
TrackingEnds ==
  (task.failMode # "IgnoreAndContinueDeployProcess" \/ ctxDone) ~> verdict # "tracking"
=============================================================================
