------------------------------ MODULE PodTracker ------------------------------
(***************************************************************************)
(* pkg/tracker/pod: Start, the goroutine of each container that it starts, *)
(* and the handler of the informer, which waits in an unbuffered send.     *)
(*                                                                         *)
(* The struct *Tracker is the record t.  A select case is one action that  *)
(* computes the whole handler; what the handler sends, to the goroutines   *)
(* of the containers, then the errors of containers, then the status, is   *)
(* the sequence t.out, and Start selects again when all of it is taken.    *)
(*                                                                         *)
(* A stream of logs is open or over, whatever it says.  Whether the        *)
(* failure of a readiness probe falls into the time in which it is ignored *)
(* is a free choice.  A Pod's events never yield a failure that is a       *)
(* string, so that case of Start is left out, as are messages of events.   *)
(***************************************************************************)
EXTENDS Integers, SequencesExt, ReadinessTask

CONSTANTS
  Container,   \* the containers of the Pod, in any order
  MaxChanges,  \* bound: changes of the Pod, and events of its probes
  First,       \* bound: what a Pod may look like when it is first seen
  Nil          \* nil

ASSUME PodConstantsAssumption ==
  IsFiniteSet(Container) /\ MaxChanges \in Nat /\ Nil \notin STRING

VARIABLES
  pod,         \* the Pod in the API server, or Nil
  events,      \* the events its handler has yet to deliver: it is in the send of the first
  failure,     \* is there the failure of a probe in objectFailed?
  goroutines,  \* the goroutine of each container
  channel,     \* the channel that the goroutine of each container reads, of one place
  changes,     \* changes so far
  ctxDone,     \* has the context of Start been cancelled?
  pc,          \* "running" until Start "returned" or "failed"
  t            \* the tracker

cluster    == <<pod, events, failure, changes>>
containers == <<goroutines, channel>>
vars       == <<cluster, containers, ctxDone, pc, t>>

\* "broken" is to wait for one of the reasons that are errors, as CrashLoopBackOff.
ContainerState == {"waiting", "broken", "running", "completed", "crashed"}
Ended          == {"completed", "crashed"}

\* The mark is of a Pod whose init container has failed, and of one that was evicted,
\* whose phase is Failed whatever its containers say.
Object ==
  {o \in [cs : [Container -> ContainerState], ready : BOOLEAN,
          mark : {"none", "initFailed", "evicted"}] :
     /\ o.ready => o.mark = "none" /\ \A c \in Container : o.cs[c] = "running"
     /\ o.mark = "initFailed" => \A c \in Container : o.cs[c] = "waiting"
     /\ o.mark = "evicted" => \E c \in Container : o.cs[c] \notin Ended}

ASSUME FirstAssumption == First \subseteq Object

AllEnded(o) == \A c \in Container : o.cs[c] \in Ended

Phase(o) ==
  CASE o.mark = "evicted" \/ (AllEnded(o) /\ \E c \in Container : o.cs[c] = "crashed") -> "Failed"
    [] o.mark # "evicted" /\ \A c \in Container : o.cs[c] = "completed" -> "Succeeded"
    [] o.mark # "evicted" /\ ~ AllEnded(o) -> "Running"

\* Containers that have ended stay so; the others may start, break, restart or end, one at
\* a time.
Successor(o) ==
  {n \in Object \ {o} :
     /\ Phase(o) = "Running"
     /\ o.mark = "initFailed" => n.cs = o.cs
     /\ Cardinality({c \in Container : n.cs[c] # o.cs[c]}) <= 1
     /\ \A c \in Container : /\ o.cs[c] \in Ended => n.cs[c] = o.cs[c]
                             /\ o.cs[c] = "running" => n.cs[c] # "waiting"}

PodStatus == [ready : BOOLEAN, failed : BOOLEAN, succeeded : BOOLEAN]

BlankStatus == [ready |-> FALSE, failed |-> FALSE, succeeded |-> FALSE]

TrackerState   == {"Initial", "Added", "Succeeded", "Ready", "Failed", "Deleted"}
ContainerTrackerState == {"", "Initial", "FollowingContainerLogs", "ContainerTrackerDone"}

\* A send to the channel of the container c, which "nil" is none any more, or a message.
Message ==
  [ch : {"container", "nil", "Added", "Status", "Ready", "Succeeded", "Failed", "Deleted",
         "ContainerError"},
   c : Container \cup {Nil}, status : PodStatus]

Tracker ==
  [ignoreLogs             : BOOLEAN,
   State                  : TrackerState,
   lastObject             : Object \cup {Nil},
   LastStatus             : PodStatus,
   TrackedContainers      : SUBSET Container,
   ContainerTrackerStates : [Container -> ContainerTrackerState],
   out                    : Seq(Message)]

TrackerTypeOK ==
  /\ pod \in Object \cup {Nil}
  /\ events \in Seq([type : {"Added", "Modified", "Deleted"}, object : Object])
  /\ failure \in BOOLEAN
  /\ goroutines \in [Container -> {"none", "waiting", "following", "exiting", "over"}]
  /\ channel \in [Container -> {"empty", "FollowingContainerLogs", "ContainerTrackerDone"}]
  /\ changes \in 0 .. MaxChanges
  /\ ctxDone \in BOOLEAN /\ pc \in {"running", "returned", "failed"}
  /\ t \in Tracker

-----------------------------------------------------------------------------
(***************************************************************************)
(* What the handlers do to the tracker.                                    *)
(***************************************************************************)

\* NewPodStatus: the phase counts when no container is tracked.  The failure of the
\* tracker goes into every status of a Pod that is neither ready nor at its end.
NewStatus(d, o) ==
  LET ended == d.TrackedContainers = {}
      succeeded == ended /\ Phase(o) = "Succeeded"
      failed == ended /\ Phase(o) = "Failed"
  IN [ready     |-> o.ready,
      succeeded |-> succeeded,
      failed    |-> \/ failed
                    \/ ~ o.ready /\ ~ succeeded /\ d.State = "Failed"
                    \/ o.mark = "initFailed"]

\* setContainersStatusesToPodStatus
Broken(o) == {c \in Container : o.cs[c] = "broken"}

\* The channel for the new status, which is also the new state unless it is Status.
Channel(state, s) ==
  CASE state = "Succeeded" -> "Status"
    [] state # "Succeeded" /\ s.succeeded -> "Succeeded"
    [] state \notin {"Succeeded", "Ready"} /\ ~ s.succeeded /\ s.ready -> "Ready"
    [] \/ state = "Ready" /\ ~ s.succeeded /\ s.failed
       \/ state \notin {"Succeeded", "Ready"} /\ ~ s.succeeded /\ ~ s.ready /\ s.failed -> "Failed"
    [] state \in {"Initial", "Deleted"} /\ ~ s.succeeded /\ ~ s.ready /\ ~ s.failed -> "Added"
    [] \/ state \in {"Added", "Failed"} /\ ~ s.succeeded /\ ~ s.ready /\ ~ s.failed
       \/ state = "Ready" /\ ~ s.succeeded /\ ~ s.failed -> "Status"

\* runContainersTrackers, with the first object only.
RunContainersTrackers(d) ==
  IF d.State # "Initial" THEN d
    ELSE [d EXCEPT !.TrackedContainers = Container,
                   !.ContainerTrackerStates = [c \in Container |-> "Initial"]]

NewContainerState(d) ==
  IF d.ignoreLogs THEN "ContainerTrackerDone" ELSE "FollowingContainerLogs"

\* The containers that handleContainersState has something new to tell of.
Started(d, o) ==
  {c \in Container : /\ o.cs[c] \in {"running"} \cup Ended
                     /\ d.ContainerTrackerStates[c] # NewContainerState(d)}

\* After a deletion the maps are new, and a container that is in none of them has the
\* channel nil.
ToContainers(d, cs) ==
  [i \in 1 .. Cardinality(cs) |->
     LET c == SetToSeq(cs)[i]
     IN [ch |-> IF d.ContainerTrackerStates[c] = "" THEN "nil" ELSE "container",
         c |-> c, status |-> BlankStatus]]

ContainerErrors(cs, s) ==
  [i \in 1 .. Cardinality(cs) |-> [ch |-> "ContainerError", c |-> SetToSeq(cs)[i], status |-> s]]

Told(ch, s) == <<[ch |-> ch, c |-> Nil, status |-> s]>>

\* handlePodState
HandleState(d, o) ==
  LET s == NewStatus(d, o)
      ch == Channel(d.State, s)
      run == RunContainersTrackers(d)
      started == Started(run, o)
  IN [run EXCEPT !.lastObject = o,
                 !.LastStatus = s,
                 !.State = IF ch = "Status" THEN @ ELSE ch,
                 !.ContainerTrackerStates =
                   [c \in Container |-> IF c \in started THEN NewContainerState(d) ELSE @[c]],
                 !.out = ToContainers(run, started) \o ContainerErrors(Broken(o), s) \o Told(ch, s)]

\* Of each container that is not done its goroutine is told so.
ResetOnDelete(d) ==
  LET undone == {c \in Container :
                   d.ContainerTrackerStates[c] \notin {"", "ContainerTrackerDone"}}
  IN [d EXCEPT !.State = "Deleted", !.lastObject = Nil, !.LastStatus = BlankStatus,
               !.ContainerTrackerStates = [c \in Container |-> ""],
               !.out = ToContainers(d, undone) \o Told("Deleted", BlankStatus)]

\* The bug LogsEndBeforeSuccess looks for: no container is tracked when one is done.
ContainerDoneForAll(d, c) ==
  LET rest == [d EXCEPT !.TrackedContainers = {}]
  IN IF d.lastObject = Nil THEN rest ELSE HandleState(rest, d.lastObject)

\* The bug CompletionIsNoticed looks for: the status is not computed again.
ContainerDoneInSilence(d, c) == [d EXCEPT !.TrackedContainers = @ \ {c}]

ContainerDone(d, c) ==
  LET rest == [d EXCEPT !.TrackedContainers = @ \ {c}]
  IN IF d.lastObject = Nil THEN rest ELSE HandleState(rest, d.lastObject)

-----------------------------------------------------------------------------
(***************************************************************************)
(* The select cases of Start, and its sends to the containers.             *)
(***************************************************************************)
Selecting == pc = "running" /\ t.out = <<>>

Delivers(type) == events # <<>> /\ Head(events).type = type /\ events' = Tail(events)

\* The first object starts the goroutines of the containers.
HandleObject(type) ==
  /\ Selecting
  /\ Delivers(type)
  /\ t' = HandleState(t, Head(events).object)
  /\ goroutines' = IF t.State = "Initial" THEN [c \in Container |-> "waiting"] ELSE goroutines
  /\ UNCHANGED <<pod, failure, changes, channel, ctxDone, pc>>

HandleObjectAdded    == HandleObject("Added")
HandleObjectModified == HandleObject("Modified")

HandleObjectDeleted ==
  /\ Selecting
  /\ Delivers("Deleted")
  /\ t' = ResetOnDelete(t)
  /\ UNCHANGED <<pod, failure, changes, containers, ctxDone, pc>>

\* handleProbeTriggeredRestart, handleReadinessProbeFailure: the error of a container
\* comes with the last status; that of a readiness probe may be ignored.
HandleObjectFailed ==
  /\ Selecting
  /\ failure
  /\ failure' = FALSE
  /\ \E cs \in {{}} \cup {{c} : c \in Container} :
       t' = [t EXCEPT !.out = ContainerErrors(cs, t.LastStatus)]
  /\ UNCHANGED <<pod, events, changes, containers, ctxDone, pc>>

HandleContainerDone(c) ==
  /\ Selecting
  /\ goroutines[c] = "exiting"
  /\ goroutines' = [goroutines EXCEPT ![c] = "over"]
  /\ t' = ContainerDone(t, c)
  /\ UNCHANGED <<cluster, channel, ctxDone, pc>>

\* The bug CancellationEndsTracking looks for: the context is looked at only when there
\* is an object.
CtxDoneWithObject ==
  /\ Selecting /\ ctxDone /\ t.lastObject # Nil
  /\ pc' = "returned"
  /\ UNCHANGED <<cluster, containers, ctxDone, t>>

\* Unlike the other trackers Start returns nil here, not the cause.
HandleCtxDone ==
  /\ Selecting /\ ctxDone
  /\ pc' = "returned"
  /\ UNCHANGED <<cluster, containers, ctxDone, t>>

\* An informer does not start.
StartFails ==
  /\ Selecting /\ ~ ctxDone
  /\ t.State = "Initial"
  /\ pc' = "failed"
  /\ UNCHANGED <<cluster, containers, ctxDone, t>>

SendToContainer ==
  /\ t.out # <<>> /\ Head(t.out).ch = "container"
  /\ LET c == Head(t.out).c
     IN /\ channel[c] = "empty"
        /\ channel' = [channel EXCEPT ![c] =
             IF t.State = "Deleted" THEN "ContainerTrackerDone" ELSE NewContainerState(t)]
  /\ t' = [t EXCEPT !.out = Tail(@)]
  /\ UNCHANGED <<cluster, goroutines, ctxDone, pc>>

-----------------------------------------------------------------------------
(***************************************************************************)
(* The goroutine of a container.                                           *)
(***************************************************************************)
ContainerStep == UNCHANGED <<cluster, ctxDone, pc, t>>

\* trackContainer
TakeState(c) ==
  /\ goroutines[c] = "waiting"
  /\ channel[c] # "empty"
  /\ channel' = [channel EXCEPT ![c] = "empty"]
  /\ goroutines' = [goroutines EXCEPT ![c] =
       IF channel[c] = "FollowingContainerLogs" /\ ~ t.ignoreLogs THEN "following" ELSE "exiting"]
  /\ ContainerStep

ContainerCancelled(c) ==
  /\ goroutines[c] = "waiting"
  /\ ctxDone
  /\ goroutines' = [goroutines EXCEPT ![c] = "exiting"]
  /\ UNCHANGED channel
  /\ ContainerStep

FollowingEnds(c) ==
  /\ goroutines[c] = "following"
  /\ goroutines' = [goroutines EXCEPT ![c] = "exiting"]
  /\ UNCHANGED channel
  /\ ContainerStep

\* followContainerLogs: the stream ends with the container, and with the context.
LogsEnd(c) == (ctxDone \/ pod = Nil \/ (pod # Nil /\ pod.cs[c] \in Ended)) /\ FollowingEnds(c)

\* An error of the stream, or its timeout of three hours, after which it is not resumed.
StreamBreaks(c) == FollowingEnds(c)

-----------------------------------------------------------------------------
(***************************************************************************)
(* The cluster and the handler of the informer.                            *)
(***************************************************************************)
\* What happens in the cluster after the end of the context is left out.
Change == ~ ctxDone /\ changes < MaxChanges /\ changes' = changes + 1

Notify(type, o) == events' = Append(events, [type |-> type, object |-> o])

PodChange == UNCHANGED <<failure, containers, ctxDone, pc, t>>

\* Also a Pod of the same name as one that is gone.
ObjectAdded ==
  /\ pod = Nil
  /\ Change
  /\ pod' \in First
  /\ Notify("Added", pod')
  /\ PodChange

ObjectModified ==
  /\ pod # Nil
  /\ Change
  /\ pod' \in Successor(pod)
  /\ Notify("Modified", pod')
  /\ PodChange

ObjectDeleted ==
  /\ pod # Nil
  /\ Change
  /\ pod' = Nil
  /\ Notify("Deleted", pod)
  /\ PodChange

\* The events informer runs since the first object was handled.
ProbeEvent ==
  /\ t.State # "Initial"
  /\ ~ failure
  /\ Change
  /\ failure' = TRUE
  /\ UNCHANGED <<pod, events, containers, ctxDone, pc, t>>

\* SendOrDone may as well take the context.
EventDropped ==
  /\ ctxDone /\ events # <<>>
  /\ events' = Tail(events)
  /\ UNCHANGED <<pod, failure, changes, containers, ctxDone, pc, t>>

Init ==
  /\ \E ignoreLogs \in BOOLEAN :
       t = [ignoreLogs |-> ignoreLogs, State |-> "Initial", lastObject |-> Nil,
            LastStatus |-> BlankStatus, TrackedContainers |-> {},
            ContainerTrackerStates |-> [c \in Container |-> ""], out |-> <<>>]
  /\ pod \in First \cup {Nil}
  /\ events = IF pod = Nil THEN <<>> ELSE <<[type |-> "Added", object |-> pod]>>
  /\ failure = FALSE
  /\ goroutines = [c \in Container |-> "none"]
  /\ channel = [c \in Container |-> "empty"]
  /\ changes = 0 /\ ctxDone = FALSE /\ pc = "running"
=============================================================================
