-------------------------- MODULE CompletionTracker --------------------------
(***************************************************************************)
(* The Track loops of pkg/tracker/job and pkg/tracker/canary: resources    *)
(* that come to an end.  Unlike the other trackers they take the events of *)
(* their object through unbuffered channels, from a handler that waits in  *)
(* its send until Track or the end of the context lets it go.              *)
(*                                                                         *)
(* The struct *Tracker is the record t; a select case is one action that   *)
(* computes the whole handler, and the message it sends stays in t.out     *)
(* until it is taken.  The tracker of a Pod and the relay beside it are one *)
(* goroutine, which reports what there is to see of the Pod.  A Canary has *)
(* no Pods, nobody writes to its objectFailed, and Track has no case for   *)
(* its objectDeleted.  Log chunks and messages of events are left out.     *)
(***************************************************************************)
EXTENDS Integers, Sequences, ReadinessTask

CONSTANTS
  Kinds,         \* the kinds that are looked at
  RelayCapacity, \* bound: the places of each relay, 10 in the code
  MaxChanges,    \* bound: changes of the object and its Pods, and failure events
  Nil            \* nil, a missing map entry

\* The conditions of a Job, the phase of a Canary: Complete and Failed, Succeeded or
\* Initialized and Failed.
Object == {"active", "complete", "failed"}

Terminated == {"succeeded", "failed"}

\* What a status says of a Pod; that of a Pod that is gone is blank.  Both "failed" and
\* "failing" are IsFailed: a Pod that is failing goes on, which the code cannot see.
PodStatus    == {"active", "blank", "failing"} \cup Terminated

ASSUME CompletionConstantsAssumption ==
  /\ Kinds \subseteq {"Job", "Canary"}
  /\ {RelayCapacity, MaxChanges} \subseteq Nat
  /\ Nil \notin Pod \cup Object \cup PodStatus
  /\ \A ps \in SUBSET Pod : Nil # ps

VARIABLES
  object,     \* the object in the API server, or Nil
  events,     \* the events its handler has yet to deliver: it is in the send of the first
  failure,    \* is there a failure in the channel objectFailed?
  pods,       \* the Pods in the API server
  announced,  \* the Pods that the handler of the Pods informer was called for, once it runs
  added,      \* podAddedRelay
  runs,       \* the tracker of each Pod
  statuses,   \* podStatusesRelay
  errs,       \* podContainerErrorsRelay
  dones,      \* donePodsRelay
  changes,    \* changes of the cluster so far
  ctxDone,    \* has the context of Track been cancelled?
  pc,         \* "running" until Track returns
  failures,   \* history: the failure events that Track has handled
  followed,   \* history: the Pods that Track was told of since the last deletion
  t           \* the tracker

relays  == <<statuses, errs, dones>>
podSide == <<pods, announced, added, runs, relays>>
history == <<failures, followed>>
vars    == <<object, events, failure, podSide, changes, ctxDone, pc, history, t>>

TrackerState == {"Initial", "Added", "Succeeded", "Failed", "Deleted"}
Relayed      == [pod : Pod, status : PodStatus]

Report ==
  [ch        : {"Added", "Succeeded", "Failed", "Status", "AddedPod", "PodError"},
   succeeded : BOOLEAN,           \* IsSucceeded
   failed    : BOOLEAN,           \* IsFailed
   pods      : SUBSET Pod,        \* Pods with a name
   pod       : Pod \cup {Nil}]    \* of AddedPod and PodError

Tracker ==
  [kind             : Kinds,
   State            : TrackerState,
   lastObject       : Object \cup {Nil},
   podStatuses      : [Pod -> PodStatus \cup {Nil}],
   TrackedPodsNames : SUBSET Pod,
   out              : Seq(Report)]

TrackerTypeOK ==
  /\ object \in Object \cup {Nil}
  /\ events \in Seq([type : {"Added", "Modified", "Deleted"}, object : Object])
  /\ failure \in BOOLEAN
  /\ pods \in [Pod -> {"absent", "active", "gone"} \cup Terminated]
  /\ announced \in (SUBSET Pod) \cup {Nil}
  /\ added \in Seq(Pod)
  /\ runs \in [Pod -> [phase : {"none", "starting", "running", "cancelled", "done"},
                       last : PodStatus]]
  /\ \A relay \in {statuses, errs, dones} : relay \in Seq(Relayed)
  /\ changes \in 0 .. MaxChanges
  /\ ctxDone \in BOOLEAN /\ pc \in {"running", "returned"}
  /\ failures \in Nat /\ followed \subseteq Pod
  /\ t \in Tracker

-----------------------------------------------------------------------------
(***************************************************************************)
(* What the handlers do to the tracker.                                    *)
(***************************************************************************)

\* IsFailed or IsSucceeded.
CountsAsTerminated == Terminated \cup {"failing"}

\* The bug NoPodIsLeftRunning looks for: a Pod of which no status has come yet is
\* passed over.
TerminatedIfKnown(d) ==
  \A p \in d.TrackedPodsNames : d.podStatuses[p] \in CountsAsTerminated \cup {Nil}

\* NewJobStatus looks at the conditions only when no tracked Pod is unterminated; one
\* without a status is.
PodsTerminated(d) == \A p \in d.TrackedPodsNames : d.podStatuses[p] \in CountsAsTerminated

IsSucceeded(d) == PodsTerminated(d) /\ d.lastObject = "complete"

\* Whether the tracker has failed goes into every status that is not a success.
IsFailed(d) ==
  /\ ~ IsSucceeded(d)
  /\ (PodsTerminated(d) /\ d.lastObject = "failed") \/ d.State = "Failed"

\* The blank status of a Pod that is gone has no name either: the dependency that the
\* consumer adds by that name is left out.
NewStatus(d, ch) ==
  [ch |-> ch, succeeded |-> IsSucceeded(d), failed |-> IsFailed(d),
   pods |-> {p \in Pod : d.podStatuses[p] \notin {"blank", Nil}}, pod |-> Nil]

BlankStatus(ch) ==
  [ch |-> ch, succeeded |-> FALSE, failed |-> ch = "Failed", pods |-> {}, pod |-> Nil]

Send(d, r) == [d EXCEPT !.out = <<r>>]

\* The channel for the new status; a Canary says again that it has succeeded.
Channel(d) ==
  CASE d.State = "Succeeded" -> IF d.kind = "Job" THEN "Status" ELSE "Succeeded"
    [] d.State # "Succeeded" /\ IsSucceeded(d) -> "Succeeded"
    [] d.State # "Succeeded" /\ IsFailed(d) -> "Failed"
    [] d.State \in {"Initial", "Deleted"} /\ ~ IsSucceeded(d) /\ ~ IsFailed(d) -> "Added"
    [] d.State \in {"Added", "Failed"} /\ ~ IsSucceeded(d) /\ ~ IsFailed(d) -> "Status"

\* handleJobState and handleCanaryState
HandleState(d, o) ==
  LET seen == [d EXCEPT !.lastObject = o]
      ch == Channel(seen)
  IN Send([seen EXCEPT !.State = IF ch = "Status" THEN @ ELSE ch], NewStatus(seen, ch))

\* The cases that compute the status of the same object again.
HandleSameState(d) == IF d.lastObject = Nil THEN d ELSE HandleState(d, d.lastObject)

ResetOnDelete(d) ==
  Send([d EXCEPT !.State = "Deleted", !.lastObject = Nil, !.TrackedPodsNames = {}],
       BlankStatus("Status"))

\* The bug EveryFailureIsCharged looks for: the status is computed before the tracker
\* has failed.
FailureAfterStatus(d) ==
  Send([d EXCEPT !.State = "Failed"],
       IF d.lastObject = Nil THEN BlankStatus("Failed") ELSE NewStatus(d, "Failed"))

HandleFailure(d) ==
  LET failed == [d EXCEPT !.State = "Failed"]
  IN Send(failed, IF d.lastObject = Nil THEN BlankStatus("Failed") ELSE NewStatus(failed, "Failed"))

PodReport(d, ch, p) ==
  IF d.lastObject = Nil THEN d ELSE Send(d, [NewStatus(d, ch) EXCEPT !.pod = p])

-----------------------------------------------------------------------------
(***************************************************************************)
(* The select cases.                                                       *)
(***************************************************************************)
Selecting == pc = "running" /\ t.out = <<>>

Delivers(type) == events # <<>> /\ Head(events).type = type /\ events' = Tail(events)

\* The first object of a Job starts the informers of its Pods and events.
HandleObject(type) ==
  /\ Selecting
  /\ Delivers(type)
  /\ announced' = IF t.State = "Initial" /\ t.kind = "Job" THEN {} ELSE announced
  /\ t' = HandleState(t, Head(events).object)
  /\ UNCHANGED <<object, failure, pods, added, runs, relays, changes, ctxDone, pc, history>>

HandleObjectAdded    == HandleObject("Added")
HandleObjectModified == HandleObject("Modified")

HandleObjectDeleted ==
  /\ Selecting
  /\ t.kind = "Job"
  /\ Delivers("Deleted")
  /\ t' = ResetOnDelete(t)
  /\ followed' = {}
  /\ UNCHANGED <<object, failure, podSide, changes, ctxDone, pc, failures>>

HandleObjectFailed ==
  /\ Selecting
  /\ failure
  /\ failure' = FALSE
  /\ t' = HandleFailure(t)
  /\ failures' = failures + 1
  /\ UNCHANGED <<object, events, podSide, changes, ctxDone, pc, followed>>

\* podAddedRelay and runPodTracker: what the tracker of the Pod finds before the report
\* is taken waits in the relays.
HandlePodAdded ==
  /\ Selecting
  /\ added # <<>>
  /\ LET p == Head(added)
     IN /\ t' = [PodReport(t, "AddedPod", p) EXCEPT !.TrackedPodsNames = @ \cup {p}]
        /\ runs' = [runs EXCEPT ![p].phase = "starting"]
        /\ followed' = followed \cup {p}
  /\ added' = Tail(added)
  /\ UNCHANGED <<object, events, failure, pods, announced, relays, changes, ctxDone, pc, failures>>

FinalStatus(d, r) ==
  IF r.pod \in d.TrackedPodsNames /\ d.podStatuses[r.pod] # Nil
    THEN [d EXCEPT !.podStatuses[r.pod] = r.status] ELSE d

\* The bug SuccessIsNoticed looks for: the status is not computed again.
PodDoneInSilence(d, r) == [FinalStatus(d, r) EXCEPT !.TrackedPodsNames = @ \ {r.pod}]

\* A Pod that is done is no longer tracked, but its final status is kept.
PodDone(d, r) ==
  HandleSameState([FinalStatus(d, r) EXCEPT !.TrackedPodsNames = @ \ {r.pod}])

HandleDonePods ==
  /\ Selecting
  /\ dones # <<>>
  /\ t' = PodDone(t, Head(dones))
  /\ dones' = Tail(dones)
  /\ UNCHANGED <<object, events, failure, pods, announced, added, runs, statuses, errs, changes,
                 ctxDone, pc, history>>

WithStatus(r) == [t EXCEPT !.podStatuses[r.pod] = r.status]

HandlePodStatuses ==
  /\ Selecting
  /\ statuses # <<>>
  /\ t' = HandleSameState(WithStatus(Head(statuses)))
  /\ statuses' = Tail(statuses)
  /\ UNCHANGED <<object, events, failure, pods, announced, added, runs, errs, dones, changes,
                 ctxDone, pc, history>>

HandlePodContainerErrors ==
  /\ Selecting
  /\ errs # <<>>
  /\ t' = PodReport(WithStatus(Head(errs)), "PodError", Head(errs).pod)
  /\ errs' = Tail(errs)
  /\ UNCHANGED <<object, events, failure, pods, announced, added, runs, statuses, dones, changes,
                 ctxDone, pc, history>>

Return ==
  /\ Selecting
  /\ pc' = "returned"
  /\ UNCHANGED <<object, events, failure, podSide, changes, ctxDone, history, t>>

\* The bug CancellationEndsTracking looks for: the context is looked at only when there
\* is an object.
CtxDoneWithObject == ctxDone /\ t.lastObject # Nil /\ Return

HandleCtxDone == ctxDone /\ Return

\* An error of an informer, or of the tracker of a Pod.
HandleError == ~ ctxDone /\ Return

-----------------------------------------------------------------------------
(***************************************************************************)
(* The cluster and the handlers of the informers.                          *)
(***************************************************************************)
\* When the context is done no handler sends any more: what happens in the cluster
\* after that is left out.
Change == ~ ctxDone /\ changes < MaxChanges /\ changes' = changes + 1

Notify(type, o) == events' = Append(events, [type |-> type, object |-> o])

ObjectChanges == UNCHANGED <<failure, podSide, ctxDone, pc, history, t>>

ObjectAdded ==
  /\ object = Nil
  /\ Change
  /\ object' \in Object
  /\ Notify("Added", object')
  /\ ObjectChanges

\* A Job that has finished stays so; a Canary is rolled out again.
ObjectModified ==
  /\ object # Nil
  /\ Change
  /\ object' \in IF t.kind = "Job" /\ object # "active" THEN {object} ELSE Object
  /\ Notify("Modified", object')
  /\ ObjectChanges

ObjectDeleted ==
  /\ object # Nil
  /\ Change
  /\ object' = Nil
  /\ Notify("Deleted", object)
  /\ ObjectChanges

FailureEvent ==
  /\ announced # Nil
  /\ ~ failure
  /\ Change
  /\ failure' = TRUE
  /\ UNCHANGED <<object, events, podSide, ctxDone, pc, history, t>>

\* A Job's Pod is created, terminates and is gone; it does not come back by its name.
PodChanges(p) ==
  /\ t.kind = "Job"
  /\ Change
  /\ \E state \in CASE pods[p] = "absent"        -> {"active"}
                    [] pods[p] = "active"        -> Terminated \cup {"gone"}
                    [] pods[p] \in Terminated    -> {"gone"}
                    [] pods[p] = "gone"          -> {} :
       pods' = [pods EXCEPT ![p] = state]
  /\ UNCHANGED <<object, events, failure, announced, added, runs, relays, ctxDone, pc, history, t>>

\* AddFunc of the Pods informer, whose selector is that of the first object.
PodAnnounced(p) ==
  /\ announced # Nil
  /\ p \notin announced /\ pods[p] \notin {"absent", "gone"}
  /\ added = <<>> /\ ~ ctxDone
  /\ announced' = announced \cup {p}
  /\ added' = <<p>>
  /\ UNCHANGED <<object, events, failure, pods, runs, relays, changes, ctxDone, pc, history, t>>

-----------------------------------------------------------------------------
(***************************************************************************)
(* The tracker of a Pod and its relay.                                     *)
(***************************************************************************)
Relay(relay, p, s) ==
  IF Len(relay) < RelayCapacity THEN {Append(relay, [pod |-> p, status |-> s])} ELSE {}

PodRunSteps ==
  UNCHANGED <<object, events, pods, failure, announced, added, ctxDone, pc, history, t>>

\* A status that says something new, which may come with the error of a container.  Only
\* success cancels the tracker.
HandlePodState(p, s) ==
  /\ runs[p].phase \in {"starting", "running"}
  /\ pods[p] \in {"active"} \cup Terminated
  /\ runs[p].last \notin Terminated \cup {s}
  /\ runs' = [runs EXCEPT ![p] = [phase |-> IF s = "succeeded" THEN "cancelled" ELSE "running",
                                   last |-> s]]
  /\ statuses' \in Relay(statuses, p, s)
  /\ errs' \in {errs} \cup Relay(errs, p, s)
  /\ UNCHANGED dones
  /\ PodRunSteps

\* While its containers are tracked a Pod that has terminated is taken for active, and a
\* failing one stays so until it is ready or has come to its end.
ReportPod(p) ==
  \E s \in {"active", pods[p]} :
    /\ runs[p].last = "failing" => s \in Terminated
    /\ HandlePodState(p, s)
    /\ UNCHANGED changes

\* An init container ends in an error and is started again, or an event of the Pod says
\* that something failed; later the Pod may be ready.
PodWavers(p) ==
  /\ Change
  /\ \E s \in {"failing", "active"} : HandlePodState(p, s)

\* A Pod that was gone before its tracker has seen it is never reported.
HandlePodDeleted(p) ==
  /\ runs[p].phase \in {"running", "cancelled"}
  /\ pods[p] = "gone" /\ runs[p].last # "blank"
  /\ runs' = [runs EXCEPT ![p] = [phase |-> "cancelled", last |-> "blank"]]
  /\ statuses' \in Relay(statuses, p, "blank")
  /\ UNCHANGED <<errs, dones, changes>>
  /\ PodRunSteps

StartReturns(p) ==
  /\ runs[p].phase = "cancelled"
  /\ runs' = [runs EXCEPT ![p].phase = "done"]
  /\ dones' \in Relay(dones, p, runs[p].last)
  /\ UNCHANGED <<statuses, errs, changes>>
  /\ PodRunSteps

Init ==
  /\ \E kind \in Kinds :
       t = [kind |-> kind, State |-> "Initial", lastObject |-> Nil,
            podStatuses |-> [p \in Pod |-> Nil], TrackedPodsNames |-> {}, out |-> <<>>]
  /\ object \in Object \cup {Nil}
  /\ events = IF object = Nil THEN <<>> ELSE <<[type |-> "Added", object |-> object]>>
  /\ failure = FALSE
  /\ pods \in [Pod -> IF t.kind = "Job" /\ object # Nil THEN {"absent", "active"} ELSE {"absent"}]
  /\ announced = Nil /\ added = <<>>
  /\ runs = [p \in Pod |-> [phase |-> "none", last |-> "blank"]]
  /\ statuses = <<>> /\ errs = <<>> /\ dones = <<>>
  /\ changes = 0 /\ ctxDone = FALSE /\ pc = "running" /\ failures = 0 /\ followed = {}
=============================================================================
