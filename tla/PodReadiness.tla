----------------------------- MODULE PodReadiness -----------------------------
(***************************************************************************)
(* The tracker of a Pod with the goroutine that reads its channels: the    *)
(* consumer of a Pod that is tracked for itself, trackPod, or the relay    *)
(* that the tracker of a controller starts for each of its Pods, which     *)
(* cancels the tracker when the Pod has succeeded or is deleted.           *)
(*                                                                         *)
(* trackPod has no case for ContainerError and none for Deleted.           *)
(***************************************************************************)
EXTENDS PodTracker

CONSTANTS
  Readers,   \* which of "trackPod" and "relay" are looked at
  Mode,      \* FailMode
  Allow,     \* TotalAllowFailuresCount
  Capacity   \* bound: the places of Added, 1 in the code, and of Status, 100

Buffered == {"Added", "Status"}

ASSUME PodReadinessAssumption ==
  /\ Readers \subseteq {"trackPod", "relay"}
  /\ Mode \in FailMode /\ Allow \in Nat
  /\ Capacity \in [Buffered -> Nat \ {0}]

VARIABLES
  reader,      \* who reads the channels of the tracker
  queue,       \* what is in the buffered ones
  task,        \* the readiness task
  cancelling,  \* has the relay yet to cancel the tracker?
  verdict      \* "tracking" until the reader returns: "done" when it returns nil

reading == <<reader, queue, task, cancelling, verdict>>
allVars == <<vars, reading>>

PodTypeOK ==
  /\ TrackerTypeOK
  /\ reader \in Readers
  /\ queue \in [Buffered -> Seq(PodStatus)]
  /\ \A ch \in Buffered : Len(queue[ch]) <= Capacity[ch]
  /\ task \in ReadinessTaskState
  /\ cancelling \in BOOLEAN
  /\ verdict \in {"tracking", "ready", "failed", "error", "done"}

-----------------------------------------------------------------------------
(***************************************************************************)
(* The channels between the two.                                           *)
(***************************************************************************)
\* handlePodStatus: the Pod of the status is the root.
HandlePodStatus(ts, s) ==
  CASE s.ready                -> SetReady(ts)
    [] ~ s.ready /\ s.failed  -> AddError(ts, Root)
    [] ~ s.ready /\ ~ s.failed -> ts

\* What comes through Succeeded and Ready is ready, through Failed failed.
HandleMessage(ts, ch, s) ==
  CASE ch = "Added"               -> SetRootResourceCreated(HandlePodStatus(ts, s))
    [] ch \in {"Succeeded", "Ready"} -> HandlePodStatus(ts, [s EXCEPT !.ready = TRUE])
    [] ch = "Failed"              -> HandlePodStatus(ts, [s EXCEPT !.failed = TRUE])
    [] ch = "Status"              -> HandlePodStatus(ts, s)

\* The relay passes everything on, which is beyond this module.
Read(ch, s) ==
  \/ /\ reader = "trackPod"
     /\ ch \notin {"ContainerError", "Deleted"}
     /\ task' = HandleMessage(task, ch, s)
     /\ verdict' = VerdictOf(task')
     /\ UNCHANGED <<reader, cancelling>>
  \/ /\ reader = "relay" /\ ~ cancelling
     /\ cancelling' = (ch \in {"Succeeded", "Deleted"})
     /\ UNCHANGED <<reader, task, verdict>>

Sends(ch) == t.out # <<>> /\ Head(t.out).ch = ch

Sent == t' = [t EXCEPT !.out = Tail(@)] /\ UNCHANGED <<cluster, containers, ctxDone, pc>>

Enqueue(ch) ==
  /\ Sends(ch)
  /\ Len(queue[ch]) < Capacity[ch]
  /\ queue' = [queue EXCEPT ![ch] = Append(@, Head(t.out).status)]
  /\ Sent
  /\ UNCHANGED <<reader, task, cancelling, verdict>>

ReadBuffered(ch) ==
  /\ verdict = "tracking"
  /\ queue[ch] # <<>>
  /\ Read(ch, Head(queue[ch]))
  /\ queue' = [queue EXCEPT ![ch] = Tail(@)]
  /\ UNCHANGED vars

ReadUnbuffered(ch) ==
  /\ verdict = "tracking"
  /\ Sends(ch)
  /\ Read(ch, Head(t.out).status)
  /\ Sent
  /\ UNCHANGED queue

ReadReturn ==
  /\ verdict = "tracking" /\ ~ cancelling
  /\ pc # "running"
  /\ verdict' = IF pc = "returned" THEN "done" ELSE "error"
  /\ UNCHANGED <<vars, reader, queue, task, cancelling>>

\* cancelPodCtx, after the relay has passed the status on.
RelayCancels ==
  /\ cancelling
  /\ cancelling' = FALSE
  /\ ctxDone' = TRUE
  /\ UNCHANGED <<cluster, containers, pc, t, reader, queue, task, verdict>>

\* The timeout of the context, or its end by the caller.
Cancel ==
  /\ verdict = "tracking"
  /\ ~ ctxDone
  /\ ctxDone' = TRUE
  /\ UNCHANGED <<cluster, containers, pc, t, reading>>

Start ==
  /\ \/ HandleObjectAdded \/ HandleObjectModified \/ HandleObjectDeleted \/ HandleObjectFailed
     \/ \E c \in Container : HandleContainerDone(c)
     \/ SendToContainer
  /\ UNCHANGED reading

ContainerGoes(c) == (TakeState(c) \/ ContainerCancelled(c) \/ LogsEnd(c)) /\ UNCHANGED reading

StreamError == (\E c \in Container : StreamBreaks(c)) /\ UNCHANGED reading

Cluster ==
  /\ ObjectAdded \/ ObjectModified \/ ObjectDeleted \/ ProbeEvent \/ EventDropped
  /\ UNCHANGED reading

StartCancelled == HandleCtxDone /\ UNCHANGED reading

StartError == StartFails /\ UNCHANGED reading

Reading ==
  \/ \E ch \in Buffered : ReadBuffered(ch)
  \/ \E ch \in {"Ready", "Succeeded", "Failed", "Deleted", "ContainerError"} : ReadUnbuffered(ch)
  \/ ReadReturn

Enqueues == \E ch \in Buffered : Enqueue(ch)

Over == verdict # "tracking" /\ UNCHANGED allVars

\* Start waits, and nothing has to happen.
Quiet ==
  /\ verdict = "tracking" /\ Selecting
  /\ events = <<>> /\ ~ failure
  /\ UNCHANGED allVars

\* Start is in a send that nobody takes.  trackPod has no case for the message.  Or the
\* channel of a container is nil: the Pod is one of the same name as a deleted one.  Or it
\* is full, and the goroutine that reads it has seen the end of the context.
Deaf ==
  t.out # <<>> /\
    \/ reader = "trackPod" /\ Head(t.out).ch \in {"ContainerError", "Deleted"}
    \/ Head(t.out).ch = "nil"
    \/ /\ Head(t.out).ch = "container"
       /\ channel[Head(t.out).c] # "empty" /\ goroutines[Head(t.out).c] \in {"exiting", "over"}

Hangs == verdict = "tracking" /\ Deaf /\ UNCHANGED allVars

ReadinessInit ==
  /\ Init
  /\ reader \in Readers
  /\ queue = [ch \in Buffered |-> <<>>]
  /\ task = NewReadinessTaskState(Mode, Allow)
  /\ cancelling = FALSE
  /\ verdict = "tracking"

ReadinessNext ==
  \/ verdict = "tracking" /\ (Cluster \/ Start \/ StartCancelled \/ StartError \/ Enqueues
                              \/ RelayCancels \/ StreamError
                              \/ \E c \in Container : ContainerGoes(c))
  \/ Reading
  \/ Cancel
  \/ Over \/ Quiet \/ Hangs

ReadinessSpec == ReadinessInit /\ [][ReadinessNext]_allVars

\* All goroutines run, the kubelet closes the log of a container that has ended, and the
\* end of the context, as one of the cases that are ready, is taken in the end.
ReadinessFairness ==
  /\ WF_allVars(verdict = "tracking" /\ (Start \/ Enqueues))
  /\ WF_allVars(Reading)
  /\ WF_allVars(verdict = "tracking" /\ RelayCancels)
  /\ SF_allVars(verdict = "tracking" /\ StartCancelled)
  /\ \A c \in Container : WF_allVars(verdict = "tracking" /\ ContainerGoes(c))

FairReadinessSpec == ReadinessSpec /\ ReadinessFairness

-----------------------------------------------------------------------------
(***************************************************************************)
(* Properties.                                                             *)
(***************************************************************************)

\* The handler that Start has taken ends with this message, and nothing keeps it back.
Tells(d, ch) ==
  d.out # <<>> /\ Last(d.out).ch = ch /\ \A i \in DOMAIN d.out : d.out[i].ch # "nil"

\* A Pod that Start has seen before its end is called succeeded only when the logs of all
\* its containers are over: success makes the relay cancel the streams.  A Pod that was
\* complete when Start first saw it is called succeeded at once.
LogsEndBeforeSuccess ==
  [][t.out = <<>> /\ Tells(t', "Succeeded") /\ t.State # "Initial" =>
       \A c \in Container : goroutines'[c] = "over"]_allVars

\* The reader of a Pod that has come to its end returns, however its containers' logs, its
\* events and statuses overtake each other; a relay that of a Pod that has succeeded or is
\* deleted, trackPod that of one all of whose containers have ended.  But not when Start
\* is in a send that nobody takes.
HasEnded ==
  \/ reader = "relay" /\ pod = Nil /\ t.State # "Initial"
  \/ reader = "relay" /\ pod # Nil /\ Phase(pod) = "Succeeded"
  \/ reader = "trackPod" /\ pod # Nil /\ AllEnded(pod)

CompletionIsNoticed == <>[](HasEnded /\ ~ Deaf) => <>(verdict # "tracking")

\* The end of the context, a timeout or the relay's cancellation, makes Start and its
\* reader return, unless Start is in a send that nobody takes.
CancellationEndsTracking == ctxDone ~> (verdict # "tracking" \/ Deaf)
=============================================================================
