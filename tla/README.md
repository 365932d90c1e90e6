# TLA+ verification of kubedog

kubedog is a library that waits until Kubernetes resources are ready, present or
absent, and collects their events and logs on the way. Its users start one
*dynamic tracker* per resource; the dynamic tracker runs a *tracker* of the
resource's kind in a goroutine, which watches shared informers and sends what it
finds on a dozen Go channels, and keeps a *task state* from which it decides
whether the wait is over and how.

Almost everything that is hard about this code is in the order in which things
are heard: one `select` over many channels, some buffered and some not, fed by
informers, timers and goroutines that do not wait for each other. That is what
these modules model.

Paths below are relative to `src/pkg/`.

## 1. Inventory

| Component | Code | State | Operations | What is hard |
|---|---|---|---|---|
| Deployment tracker | `tracker/deployment/` | `State`, `lastObject`, known, deleted and reported ReplicaSets, quota suspicions, Pod statuses | one case of the `select` in `Track` per channel | events out of order, replaced incarnations, failures that flap, timers |
| ReplicaSet informer | `tracker/replicaset/informer.go` | which ReplicaSets were listed | Added, Modified, Deleted, Unselected, Synced | ordered sends from one handler; the initial list |
| Pod tracker | `tracker/pod/` | state of the Pod, its containers, probes | `Start`, one goroutine per container | chains of waits, deletion and re-creation, windows of time |
| StatefulSet, DaemonSet trackers | `tracker/{statefulset,daemonset}/` | as Deployment, without ReplicaSets | as Deployment | sticky failures, names of Pods used again |
| Job, Canary trackers | `tracker/{job,canary}/` | state, statuses of the Pods, the object that waits for a next look | as Deployment, through unbuffered channels | success that waits for Pods, handlers that wait in their sends |
| Generic tracker | `tracker/generic/` | a state, an object being stabilized | added/modified, deleted, event, tick, inactivity | the ticker's goroutine races with the loop |
| Event informer | `tracker/event/informer.go` | UIDs of the events that existed before | `Run`, the handler, the cleanup | which events are new; a cleanup beside a handler that waits in a send |
| Readiness tracker | `dyntracker/dynamic_readiness_tracker.go` | readiness task | one consumer per kind, one case per channel | reordering between channels, timeout against answer |
| Task states | `dyntracker/statestore/` | statuses, errors and a graph of resources | add, set, conditions | budget of failures |
| Absence, presence trackers | `dyntracker/dynamic_{absence,presence}_tracker.go` | absence or presence task | one poll | timeout, error between two answers |
| Informer factory | `informer/` | informers by resource and namespace | get or create, watch errors | sharing by trackers that ask for different things, errors of a watch that nobody reads, the order of the end |
| Indicators, logs, ids, helpers | `tracker/indicators`, `dyntracker/logstore`, `resid`, `log`, `utils` | none, or lists | formatting | nothing to check |

How they interact. The consumer (`trackDeployment`) starts `Track` with a
derived context and selects over the tracker's channels and over the result of
`Track`; when it returns it cancels that context. `Track` starts the informers,
whose handlers send into its channels and give up when the context ends. For each
Pod, `Track` starts the Pod's tracker and a relay goroutine that selects over the
channels of the Pod's tracker and passes on what it finds into channels of
`Track`; the relay cancels the Pod's tracker when the Pod is over, and its last
message is the final status. The task state is shared under a lock and changed by
the consumer only.

What makes each component correct:

- Deployment tracker: what it knows of ReplicaSets is what the informer has; the
  failure of the new ReplicaSet is reported, once, whichever event made it the
  new one or made it fail; the tracker is not stuck with a failure that is over;
  a quota failure is fatal only when confirmed, and is always decided.
- Readiness task and consumer: the budget of failures is kept exactly; readiness
  and failure are given out only while they hold; a timeout is an answer.
- Pods: an error is charged when its Pod is new, to a resource that counts; a
  Pod that is over is released and its final status stands.
- Generic tracker: a verdict is about the newest object it has heard of; readiness
  seen while the status stabilizes is not lost; every wait ends.
- StatefulSet, DaemonSet: every failure is charged, at least once (section 4 says why not
  exactly once); a deletion leaves the tracker able to hear what follows.
- Job, Canary: every failure is charged; a Job has succeeded only when its Pods are
  over, or called failed (section 4), and then it is noticed, whichever of them is the last
  and whatever came before.
- Pod: success waits for the logs; the end of a Pod and of the context end the wait.
- Quota inspection: a rollout that goes on is not called stuck, a stuck one is not called
  able to go on.
- Pollers: the status that is left in the task agrees with what is returned, and
  both with what the server has answered.
- Event informer: every change of an event is told, but for one old version of it; its
  cleanup returns, whatever its handler and the shared informer are doing.
- Informer factory: an error of a watch is judged as each tracker asked for; the informers
  stop when the user stops them, though nobody reads their errors any more.

The hazards, each at its line and with the properties that would catch it, are
listed in `PROJECT.json`.

## 2. Modules

| Module | Models | Composes |
|---|---|---|
| `DeploymentTracker` | `Track` of the Deployment tracker, its informers, timers and context | |
| `DeploymentHistory` | history variables over it, to say what its bookkeeping is for | `DeploymentTracker` |
| `ReadinessTask` | the readiness task state, as operators on a record | |
| `DeploymentConsumer` | the handlers of `trackDeployment`, as operators on the task | `ReadinessTask` |
| `ReadinessVerdict` | abstract: what the user of a readiness tracker is promised | |
| `DeploymentReadiness` | the consumer and the tracker side by side, with their channels | `DeploymentTracker`, `DeploymentConsumer`, `ReadinessVerdict` |
| `DeploymentProofs` | theorems about the tracker alone, about its bookkeeping, and about the two together | `DeploymentHistory`, `DeploymentReadiness` |
| `PodRelay` | the tracker and the relay of each Pod, `Track` and the consumer | `DeploymentConsumer` |
| `PodRelayProofs` | theorems about them | `PodRelay` |
| `GenericTracker` | `Track` of the generic tracker, its informers and the goroutine of its ticker | |
| `GenericReadiness` | `trackGeneric` beside it, with the channels between them | `GenericTracker`, `ReadinessTask`, `ReadinessVerdict` |
| `GenericReadinessProofs` | theorems about both | `GenericReadiness` |
| `SharedInformer` | the factory, an informer that trackers share, the errors of its watch, its end | |
| `EventInformer` | `Run`, the handlers and the cleanups of the event informers | `SharedInformer` |
| `EventInformerProofs` | theorems about both | `EventInformer` |
| `ExistencePollers` | the absence and the presence tracker with their task states | |
| `ControllerTracker` | `Track` of the StatefulSet and the DaemonSet tracker, their informers and their Pods | `ReadinessTask` |
| `ControllerReadiness` | `trackStatefulSet` or `trackDaemonSet` beside it, with the channels between them | `ControllerTracker` |
| `ControllerReadinessProofs` | theorems about both | `ControllerReadiness` |
| `QuotaRelease` | the quota inspection of the Deployment tracker among the controllers of the cluster | |
| `ApiAnswersProofs` | theorems about the quota inspection and about the pollers, which draw conclusions from answers of the server | `QuotaRelease`, `ExistencePollers` |
| `CompletionTracker` | `Track` of the Job and the Canary tracker, their informers, and the Pods of a Job | `ReadinessTask` |
| `CompletionReadiness` | `trackJob` or `trackCanary` beside it, with the channels between them | `CompletionTracker` |
| `CompletionReadinessProofs` | theorems about both | `CompletionReadiness` |
| `PodTracker` | `Start` of the Pod tracker, the goroutines of the containers, the handler of the informer | `ReadinessTask` |
| `PodReadiness` | `trackPod`, or the relay of a controller's tracker, beside it | `PodTracker` |
| `PodReadinessProofs` | a theorem about it | `PodReadiness` |
| `MC...` | values of the constants for TLC | |

### DeploymentTracker

The struct `*Tracker` is the record `t`, with a field for each field of the Go
struct that a decision reads. Each case of the `select` is one action that
computes the whole handler: `HandleResourceAdded`, `HandleReplicaSetModified`
and so on, down to `HandleNewReplicaSetFailure`, which most of them end in. The
messages a handler sends go into `t.out`; the loop selects again only when all
have been taken (`Sent`), and a handler blocked in the one send that minds the
context may leave it (`AbortFailedSend`). Computing the handler at once loses
nothing: between two of its sends it reads only what it wrote itself.

The Deployment's three channels have one place each (`buf`). The ReplicaSet
channels are unbuffered: `rsOffer` is what the informer's handler, which is one
goroutine, still has to send. The cluster changes by `DeploymentAdded`,
`ReplicaSetUpdated` and the like, which also compute the event the handler
makes of it: an update that changes the labels is an Unselected or an Added, an
update that changes the UID is a Deleted and an Added.

A ReplicaSet is an incarnation (`UID`) with a name, a template and a place in the
order of creation, which are constants, and an owner, a selection and a failure,
which change. Failures are "transient" (counted), "invalid" (fatal at once) and
"quota" (fatal once confirmed). What the quota inspection of the cluster answers
(`replicaset_failure.go:153-335`) is a free choice of each check; `QuotaRelease` is about
that answer. Time is the age
of a suspicion: "young", "due" when `quotaDeadlockConfirmation` has passed, "ripe"
when its timer has fired; a timer whose entry has been deleted is counted in
`staleTimers`.

### ReadinessTask, DeploymentConsumer, DeploymentReadiness, ReadinessVerdict

The graph of resources is a star, as the consumer of a Deployment builds it. The
consumer's cases are operators from task to task, applied in the order of the
code; the report they read keeps only what they read. In `DeploymentReadiness` a
message leaves the tracker either into a buffer (`Enqueue`) or by the consumer's
receive (`ConsumeReady`, `ConsumeFailed`). The consumer ends by its own verdict or
by the result of `Track` (`trackErr`), and then cancels (`ConsumerReturns`). The
replicas indicator of a report is any value the Deployment's status allows, so no
relation between the indicator and the readiness of the Deployment is assumed
beyond the code's.

`ReadinessVerdict` has four variables and three actions: a failure is charged, the
task succeeds, the tracker gives up. `BudgetIsKept` is that
`DeploymentReadiness` implements it, with the number of errors the search from
the root counts as `spent`, and whether a fatal failure has been received as
`fatal`.

### PodRelay

Each Pod has the goroutine of `pod.Tracker.Start` (`view`, `last`, `status`,
`offer`) and the relay of `runPodTracker` (`run`); the relays' channels are
sequences, and so are the buffered channels to the consumer. `status` joins the
Pod tracker's `Added` and `Status`: both are buffered and relayed alike. A status
is "named" or "blank" (the `PodStatus{}` of a Pod that is gone), which is what the
consumer tells apart. Which Pods are new follows from the ReplicaSets that
`Track` knows; here it changes freely (`HandleOther`), for `DeploymentTracker`
says how it really does, but a Deployment that is deleted is forgotten with its ReplicaSets
and Pods (`ForgetPods`), whose trackers go on.

### GenericTracker, GenericReadiness

An object is what `NewResourceStatus` makes of it: "ready", "failed",
"progressing", or "malformed" when that fails. `pending` is what the informer's
handler, one goroutine, still has to send; `loop` and `out` are `Track`, `ticker`
is its goroutine. Three mutexes protect three fields, and each is taken for one
access, so that an access is a step where the other goroutine may come between:
`ReadStabilizing` and `SaveObject`, `TickerSwitches` and `TickerReads`. `Settle`
reads and writes the state at once, which loses nothing: the ticker writes only
`Started`, and `Started` is treated as `ResourceAdded` is. The ticker sends on the
channel of modifications, which is unbuffered, so the receive is one action
(`HandleReplay`), while another of `Track`'s cases may be taken before it.

`heard` and `stale` are history: the object of the last notification that `Track`
has taken, and whether a replay has since been handled that differs from it.

The consumer's cases are `ConsumeAdded`, `ConsumeRegular` and so on. The task has
the root only, so the constant `Pod` of `ReadinessTask` is empty here. This consumer keeps
the promise of `ReadinessVerdict` as well (`BudgetIsKept`); no failure of a generic resource
is fatal. The consumers of the other kinds do not: one report of theirs may charge two
errors, one to the resource and one to its Pod.

### ControllerTracker, ControllerReadiness

The two trackers are the same code but for three things: when the object is ready
(`StatefulSetReady`, `DaemonSetReady`), what a status of a failed tracker says
(`Failed`), and that a StatefulSet takes one message of an event for a warning
(`HandleResourceFailed`). `t.kind` is chosen at the start. There are no ReplicaSets: a
Pod is new when its revision is the object's (`NewPods`).

`pods` holds for each name the Pods that have had it, by their revisions, since a
StatefulSet creates a Pod again under its name. The informer announces one after the
other (`PodAnnounced`), and each gets a tracker of its own (`RunPodTracker`), which knows
the name only: `runs[i].view` says which Pod of the name its informer shows. A Pod's
tracker and its relay are one goroutine here; `PodRelay` has them apart. `failures` is
history: the failure events that `Track` has handled.

`StatusChannel` is the switch of `handleStatefulSetState`. It has a case for the state
Succeeded, which these trackers never reach, and none for Ready, so that a tracker that
was ready says nothing more until the object is deleted.

The consumer is like that of Deployments but takes the error of any Pod, old or new.
The panic of `ResourceState` is the verdict "panic".

### QuotaRelease

The new ReplicaSet cannot create a Pod because of a quota, and the tracker asks
(`deploymentCanReleaseQuota`) whether the rollout itself may still release some. The
tracker's part is a record of the ReplicaSets it knows (`cache`) and a check in three
steps, as the code has it: `StartCheck` computes from what is known, `ListPods` reads the
Pods, `GetQuota` the quota; `RequestFails` is an error of either request. What the check
is right or wrong about is the cluster: the Deployment controller (`ScaleDownOld`,
`ScaleUpNew`, with its own rounding, `SurgeOf` and `UnavailableOf`), the ReplicaSet
controller (`SyncReplicaSet`), the kubelet, the quota controller (`ResyncQuota`) and
others who use the quota. These are external; the rules are the ones that the comments of
the inspection name. So the tracker's arithmetic (`RolloutCanReleaseQuota`) is compared
with what the controllers do, not with a second formula. It has the two strategies that the
API server admits, with their parameters filled in; the answer of the code for any other
(`replicaset_failure.go:200-203`) and the errors of scaling are left out. `verdict` is what was answered
last, and sums over ReplicaSets are the sizes of sets (`Total`), which needs no recursion.

`current` and `sure` are history. The answer "no" is final when it was read from what was
so (`current`): the specifications of the ReplicaSets were known as they were when the Pods
were listed, no Pod was created between that and the reading of the quota, and the use of
the quota was counted by then. Without that condition the statement is false: a Pod that is
created in the meantime is in the quota and not in the list. That is why the code asks a
second time before it fails the deploy, which `DeploymentTracker` has; the delay makes such
a race unlikely and does not exclude it. `sure` is that the rollout was stuck, and
all of it to be seen, during the whole check.

### CompletionTracker, CompletionReadiness

The Job and the Canary tracker take the events of their object through unbuffered
channels, so `events` is the queue of a handler that waits in the send of the first. The
record `t`, `out` and the consumer are as for the other kinds. Three things are their own:

- A Job that is complete is not a success before its Pods have terminated
  (`PodsTerminated`). `Track` looks again when a Pod is done or its status changes
  (`HandleDonePods`, `HandlePodStatuses`), with the object it saw last.
- The statuses of a Pod come by three relays (`statuses`, `errs`, `dones`), of which
  `select` takes any. The tracker of a Pod and its relay are one goroutine here, which
  reports in order; `PodReadiness` and `PodRelay` have them apart. What it reports of a
  Pod need not be what the Pod is: one that has terminated is active while its containers
  are tracked (`ReportPod`), and one that goes on is failed when an init container ends in
  an error or an event says that something failed (`PodWavers`, status "failing"). It then
  stays failed until it is ready or over (`tracker/pod/status.go:137-153`), and counts as
  terminated all the while (`CountsAsTerminated`).
- `Track` of a Canary has no case for `objectDeleted`: the handler stays in its send
  (`HandlerIsStuck`) until the context ends. Nobody writes to its `objectFailed`.

`failures` and `followed` are history. A Job that has failed once and has budget left is
charged once; its later conditions are the same state, so the wait then ends by the
timeout. That every failure is charged (`EveryFailureIsCharged`, here and for StatefulSets
and DaemonSets) is said of steps: the step that takes a failure's report adds an error. A
count over the whole behaviour would let a charge that is repeated hide one that is lost.
`IsOver` is the end of a Pod and of its logs: the Pod has ended, and its tracker has said
so or was told to stop. A Pod that is gone has a status without a name; the dependency that
the consumer adds by that name is left out.

### PodTracker, PodReadiness

`PodTracker` has three kinds of goroutines: `Start`, whose handler is one action and whose
sends are `t.out`; the goroutine of each container (`goroutines`), which waits for its
state (`TakeState`), follows the logs and ends (`LogsEnd`, `StreamBreaks`), and tells
`Start` (`HandleContainerDone`); and the handler of the informer (`events`). A container's
channel has one place (`channel`). A deletion makes new maps, so that a container has no
channel any more, while the goroutines are started for the first object only
(`RunContainersTrackers`): the send to a channel that is nil is the message "nil", which
nobody takes.

`PodReadiness` puts the reader beside it: `trackPod`, which has no case for the messages
ContainerError and Deleted, or the relay of a controller's tracker, which takes everything
and cancels `Start` after success or deletion (`RelayCancels`). `Deaf` names the sends
that nobody will take; the liveness properties have it as their exception, and all three
of its cases are reached.

A stream of logs is open or over. Whether a failure of a readiness probe is ignored is a
free choice, so the window that `probes.go` computes is left out.

### SharedInformer, EventInformer

`informer` has the informers of events of one namespace, by the key under which the
factory keeps them, which includes the options: one for which "403 Forbidden" is a warning
(`lenient`) and one for which it is an error. Each has a store and the handlers of the
trackers that use it; client-go's part is modelled from how it is used: a reflector that
fills the store (`Receive`, which may skip versions, as a list after an error does), a
queue and a goroutine per handler (`listener`), and an end that holds the lock of the
handlers while it waits for their goroutines (`stopping`). `WatchError` is
`setWatchErrorHandler`; an informer that is `erring` waits for the user to read
`watchErrCh` or for `stopCh`.

`EventInformer` adds the trackers. `Run` is three steps, with the lock of the factory
(`Unlocked`) taken for each transaction: it gets the informer, reads the store for the
events that exist already (`HandleInitialEvents`), and adds its handler, which is given
what is in the store by then. The handler drops the first notification of an event that
existed and sends a message and a failure of any other; a send ends when `Track` takes it
(`Tell`) or the context is done (`GiveUp`). `Cleanup` ends that context and then removes
the handler. `first` and `told` are history.

Every event is a failure here. The watcher of the generic tracker is written in the same
way, and sends once where this one sends twice.

### ExistencePollers

`pc` walks through one poll: `Get`, an action for each kind of answer, and then
`PollOn` (which waits, or gives up if this was the last try), an error, or `Found`,
which sets the status after `wait.PollImmediate` has returned. Both trackers are
one module with `wanted`, as they differ in what they wait for and in whether
there is always a timeout. `missed` is history: was the resource ever not as
wanted since the timer fired?

## 3. Runs

| Run | Asks | Bounds |
|---|---|---|
| `deployment_replicasets` | ReplicaSets fail, recover, are replaced, adopted, orphaned, unselected: known exactly; failures reported once, attributed, confirmed | 3 ReplicaSets, 2 names, 2 templates, 3 changes |
| `deployment_liveness` | a suspected quota deadlock is decided | 2 ReplicaSets of one name, one after the other, quota failures, selection, 3 changes, cancellation, timers |
| `deployment_readiness` | the budget, and verdicts that hold, through all reorderings; a ready Deployment and a timeout both end the wait | 1 ReplicaSet, 3 fail modes, budgets 0 and 1, 1 place per buffer, 1 change after any start, cancellation |
| `pod_relay` | which container errors are charged and counted; a deleted Pod is released | 1 Pod, 1 ReplicaSet, 2 events, 1 place per channel |
| `pod_error_panic` | finds: the error of a Pod without a resource state | 1 Pod, 3 events, 2 places per relay |
| `generic_readiness` | verdicts are about the newest object through all races of ticker, loop and consumer; the budget; readiness, inactivity and cancellation end the wait | 2 fail modes, budget 1, 2 changes or events, 2 timeouts, 1 place, cancellation |
| `existence_pollers` | a timeout is true; what is wanted is noticed, polling ends | 3 changes, 2 empty answers, with and without timeout, cancellation |
| `controller_readiness` | every failure is charged, a Pod that came back is tracked, verdicts are current; readiness ends the wait | both kinds, 1 name, 2 revisions, 2 objects of each kind, 2 changes, 1 place per channel, budget 2, cancellation |
| `quota_release` | a rollout that goes on is not called stuck, nor a stuck one able to go on | 7 Deployments of up to 3 replicas, quotas of 1 to 3 Pods, 1 old ReplicaSet, 1 Pod of others, 1 change by others |
| `completion_readiness` | a Job succeeds only when its Pods are over, or called failed; failures are charged; success and cancellation end the wait | both kinds, 1 Pod, 2 changes, 1 place per channel, budget 1, cancellation |
| `pod_readiness` | success waits for the logs; the end of the Pod and of the context end the wait | both readers, 2 containers, 3 objects to begin with, 2 changes or probe events, 1 place per channel, no failure allowed, cancellation |
| `event_informer` | "403 Forbidden" is judged as each tracker asked; no change of an event is missed; the informers stop, and the cleanups return, whatever they wait for | 2 trackers with any options, 1 event, 2 versions, 1 watch error, 1 place in `watchErrCh` |

Why the bounds are enough. Three changes of the cluster allow a ReplicaSet to
fail, recover and fail again, or to be deleted and re-created while an event of it
is on its way; two ReplicaSets of one template are a new one and one that is promoted
when it goes, the third is the second incarnation of a name; a change of the
Deployment's template makes all of them old and new again. The changes count what
the cluster does, not what the tracker does with it, so all interleavings of three
changes are explored, together with any number of steps of the tracker and its timers.
A buffer of one place already lets the consumer take a newer message of another
channel first, which is what reordering is; more places add no new order of two
channels. The consumer of a Deployment is checked with every object the
Deployment may start with, without a ReplicaSet or with a failing one, and with one
change after that; a ReplicaSet that fails from the start and a failure event
exceed the budget of one failure. One Pod exercises the whole chain of goroutines, since
the relays of different Pods share only the channels of `Track`; with two Pods the
state space is out of reach. The generic tracker starts with any object or none, so that two
changes are three states of the resource: one that is saved, one that comes while
the ticker replays it, and one that comes after the verdict. An event changes
nothing but the time `Track` spends in a send, and counts as a change. Two timeouts
exceed the budget of one failure. The objects of a StatefulSet and
a DaemonSet, their Pods and the events share two changes, after any start: a failure
event and the deletion of the object, or a Pod that goes and its successor; that a
Pod is looked at for the first time is no change. A budget of two errors lets the wait go
on after a failure and its repetition. Only the resource itself and one Pod are errors'
places, so a second name adds no order that matters. A Job and its Pod share two changes in the
same way, and each status of the Pod takes as many steps of its tracker as there are channels
in between; that a Pod is called failed while it goes on, or is ready after that, is a
change. The Deployments of `QuotaRelease` are one for each rule of rounding: percentages
that round up and down, both to zero, more unavailable than there are replicas, a
recreation; quotas of one to three Pods leave room for all, some or none of the surge. A
second old ReplicaSet only splits a sum. Of the two containers of a Pod one is done before
the other, which is what its status may get wrong; the first object is one with a container
still running, one complete, or one that has failed already. Two trackers share an informer or have one each, for all four choices of their options;
an event that is there before, written once more, has an old version and a new one;
`watchErrCh` is full at the start with an error of another informer. What the cluster does after the
context is done is left out, as no handler sends it any more. A poller keeps nothing of an answer but the last status, and three changes let the
resource come, go and come again around the last try.

`DeploymentTracker` has no symmetry to use: ReplicaSets are ordered by creation.

Fairness. `FairSpec` assumes that a timer fires, that the consumer receives until
it cancels, and that `select` takes a ready case again and again (strong fairness
of `HandleQuotaDeadlockRecheck`: Go's `select` chooses at random). It assumes
nothing of the cluster. `FairReadinessSpec` replaces the first two by the
consumer itself, and assumes strong fairness of the cases for the result of
`Track` and for the end of the context, for the same reason. `PodFairness` assumes
that the goroutines of a Pod, `Track` and the consumer run, with strong fairness
for what is taken by a `select`. The generic tracker's fairness is of the same kind: weak for the
goroutines and for the two timers, which fire when nothing else is ready for long
enough, and strong for the cases of `Track`'s and the consumer's `select`. For a
StatefulSet, a DaemonSet, a Job and a Canary the cases of the object are fair too, as `ReadyIsNoticed` and `SuccessIsNoticed`
are about an object that stays as it is. For a Pod the goroutines run, and the kubelet
closes the log of a container that has ended; the error of a stream and its timeout are
not fair. Of the event informers the goroutines of the handlers, of the watches and of the
cleanups run, and a `Track` that has not been cancelled reads; that `Track` returns, that
the context ends or that the user reads errors is not assumed. The
pollers need that the goroutine runs, that time passes, and that `select` sees a
timeout that is over. No liveness property needs the cluster or the user to do
anything; of the API server only the pollers need that it answers or refuses a
request.

The runs with `MayStop = FALSE` leave out cancellation and the errors of
informers: after the context is done, events are dropped by design, and most
properties say nothing then. The theorems have no such restriction.

Deadlock is checked in all runs but `quota_release`, where a stuck rollout is what
the check is for. The states in which a system may really stop are actions of their own:
`Returned`, `Quiet`, `Hangs` for a Pod's tracker in a send that nobody takes, and `Over`
for a consumer that has returned, or when all informers have stopped.

## 4. Findings

A run shows a disagreement of the code with a statement of the repository:

- **An error of a Pod may panic the consumer** (`pod_error_panic`). When the Pod is
  deleted before the consumer has read any message that names it, and a probe
  event is handled after its deletion, the report carries an empty status and
  `ResourceState` fails its assertion (`readiness_task_state.go:103`).

Seven more disagreements are no runs of their own; the models have the behaviour, and the
properties that hold name it as an exception or are silent about it:

- A complete Job waits for a Pod that has terminated. The error of a
  container comes with the status of its Pod, by a relay of its own, and `Track` writes
  either into `podStatuses` (`tracker/job/tracker.go:211-225`). When `select` takes the last
  status of a failed Pod before an older error, the older status stays, and the Job's
  success is withheld because "unterminated pods exists" (`status.go:51`).
  `SuccessIsNoticed` names this as its exception `IsOverwritten`.
- A Job has succeeded while a Pod of it still runs. A Pod counts as terminated when it
  `IsFailed` (`tracker/job/status.go:50-51`, whose comment says that otherwise "unterminated
  pods exists"; its message is "pods should be terminated"). But a Pod with an init
  container that ended in an error and will be started again `IsFailed`, as does one of which
  an event said that something failed, until it is ready or over
  (`tracker/pod/status.go:137-153`, `tracker/pod/tracker.go:201`). When the Job is complete by
  then, the consumer returns and the rest of that Pod's logs is lost. `NoPodIsLeftRunning`
  names this as its exception `IsCalledFailed`; without it, the property is violated within a
  dozen steps.
- An old event is reported. `Run` is to "skip existing events"
  (`tracker/event/informer.go:101`) and takes for these what is in the store. A shared
  informer that has just been created has nothing there yet, or not everything, so that
  events from before are told as messages and failures of this tracker.
- A deleted Deployment is tracked again. The channels for Added, Modified and Deleted are
  buffered and separate, so `select` may handle the deletion before a modification that
  precedes it; failures of ReplicaSets are then reported although the Deployment is gone,
  against `tracker_test.go:268` and the reason the code gives for the ReplicaSet channels
  (`tracker/deployment/tracker.go:141-143`).
- The final status of a Pod does not stand: it comes by `donePodsRelay`, earlier ones by
  `podStatusesRelay`, and `select` may take the final one first
  (`tracker/deployment/tracker.go:351-390`).
- A generic resource that is not ready is reported as succeeded. The ticker takes the saved
  object and waits for `Track` to receive it (`tracker/generic/tracker.go:140-143`); a
  modification or deletion that is received first does not withdraw it
  (`tracker_ai_test.go:50-52`: "succeed only on Ready=True"). `VerdictIsCurrent`, which is
  proved, shows that this replay is the only such way.
- One failure of a StatefulSet or a DaemonSet is charged many times: once the tracker is
  Failed, every status says so (`tracker/statefulset/tracker.go:459`) and is charged, the
  mistake of which `tracker/deployment/tracker.go:763-764` warns.

The exceptions of the liveness properties are found behaviours as well: a Canary that is
deleted and comes back is not heard of (`HandlerIsStuck`), a Job waits for a Pod that was
gone before its tracker saw it (`IsMissed`), a Pod that is tracked for itself and is
deleted, or whose container cannot start, holds `Start` in a send (`Deaf`), which not even
the timeout ends, and so does a Pod that returns under its name. A Pod's tracker whose
timeout is heard returns nil, and `trackPod` with it.

## 5. Proofs

There are eight modules of proofs. `DeploymentProofs` has three parts. The first proves of
the tracker alone, for every value of the constants (any finite set of ReplicaSets, names,
templates, any bound on changes), with cancellation and informer errors:

| Theorem | Property | In words |
|---|---|---|
| `TypeCorrect` | `TypeOK` | the types |
| `DeletedNeverReturn` | `DeletedStayUnknown` | a ReplicaSet whose deletion was handled stays unknown |
| `NoStaleSnapshot` | `KnownIsCurrent` | what is known is what the informer has, or its event is being sent |
| `NoOrphanFailure` | `FailureIsAttributable` | the tracker is not stuck with a failure that is over |
| `NoFailureIsLost` | `NothingSuppressed` | the failure of the new ReplicaSet is reported or will be decided |

`TypeOK`, the type invariants of the other components, `DeletedStayUnknown` and, below,
`ResultAgreesWithStatus` and `SuccessIsAnswered` are proved, so no run checks them. Every
safety invariant and every action property that a passing run checks is stated by a theorem.

Assumptions: `ConstantsAssumption` (types of the constants, ranks are distinct, so
that "the oldest" is one), `InitialAssumption` (at most one live object of a name
when the tracker starts, which the API server guarantees) and `NoneAssumption`.

The argument. None of the four invariants is inductive: what the tracker knows
is right only because events come in order, and that is a fact about the
informer. `IInv` adds it:

- `Surroundings`: at most one live ReplicaSet of each name; nothing is seen
  before the watch is on; what is being listed is there; and `OfferIsCurrent` -
  the last event a handler still has to send about a ReplicaSet carries the state
  that the informer has, and a deletion is followed only by another incarnation.
- `Bookkeeping`: every ReplicaSet is filed under its own name, deleted ones are
  unknown, known ones are current.
- `FailureIsAttributable` and `NothingSuppressed`.

The steps of `Next` are sorted into three kinds: those that change neither what the
informer has nor what the tracker knows (`CalmStep`), those that receive an
event of a ReplicaSet (`ReceiveStep`) and those that make one (`OfferStep`). The
surroundings need work only for the last two, the bookkeeping only for the
middle one; the failures rest on `HandleNewIs`, the lemma that says what
`HandleNewReplicaSetFailure` leaves: whatever state it is called in, the failure
of the new ReplicaSet is settled, and one that is not the new one's is let go.

`GenericReadinessProofs` proves, for any number of changes, events and timeouts, any
budget and any size of the channel:

| Theorem | Property | In words |
|---|---|---|
| `SavedObjectIsLatest` | `SavedIsLatest` | the ticker finds the newest object, as long as the status stabilizes |
| `VerdictsAreCurrent` | `VerdictIsCurrent` | a task becomes ready or failed by the newest object, by the timer, or by an overtaken replay |
| `BudgetIsRefined` | `BudgetIsKept` | tracker, ticker, channel and consumer implement `ReadinessVerdict` |

The second is a fact about a channel: between the `Settle` that makes a status and
the receive that makes a verdict of it, `Track` must hear of nothing newer. That
is so for the unbuffered channels, as `Track` waits in the send (`OutIsCurrent`), and
false for the buffered one; so `GenericInv` also says that what waits in the
buffered channel makes no verdict: it is sent only of objects that are neither
ready nor failed, or after the first success, which the consumer has then taken
already and so ended (`ConsumerInv`). The refinement maps the number of errors to `spent`,
so it needs that a failure or a timeout is one error more. The code numbers the errors of
a resource by how many there are, and `Open` says that while the task is undecided they are
numbered from 0 on without gaps (`Numbered`): then the next number is not taken
(`NextNumber`). `TickerFollows` keeps the ticker in step: once
it has switched, the state is never `Stabilizing` again.

The second part of `DeploymentProofs` shows what the bookkeeping of the tracker is for:

| Theorem | Property | In words |
|---|---|---|
| `NoReplicaSetIsLost` | `KnownIsComplete` | until the Deployment is deleted, no ReplicaSet that was shown is missing from the map |
| `NoDoubleCharge` | `ChargedOncePerFailure` | one failure is sent once, whatever repeats it |
| `NoHastyVerdict` | `FatalQuotaIsConfirmed` | no quota failure is fatal that was not suspected and held |

`HInv` adds to `IInv`: a ReplicaSet that the tracker has heard of for the last time stays
unheard of (`GoneForGood`); a failure that was charged is either on the list of those
reported or is one that nothing still to come can tell of (`ChargedAreReported`), which is
why forgetting a report on deletion is safe; a ready Deployment has cleared its new
ReplicaSet (`ReadyIsCleared`); and the ages that the tracker keeps of its suspicions agree
with what was consumed (`Suspicions`). After the end of the context nothing is consumed any
more, and the failures forgotten then cannot come back; that was the one case in which the
list of reports alone did not suffice.

The third part is about the tracker with its consumer, for any fail mode, budget and size
of the channels:

| Theorem | Property | In words |
|---|---|---|
| `ReadinessTypeCorrect` | `ReadinessTypeOK` | the types, and no channel holds more than it has places |
| `ReadyIsNeverStale` | `ReadyIsCurrent` | success is given out only while the newest object seen is ready |
| `FailureIsNeverStale` | `FailureIsCurrent` | failure is given out only while the tracker is Failed, by something that fails |
| `BudgetIsRefined` | `BudgetIsKept` | the composition implements `ReadinessVerdict` |
| `TrackerUndisturbed` | `NothingSuppressed` and others | the theorems about the tracker alone hold here too |

The first two verdicts need that a message which waits in a send is still true
(`Truthful`), and that a tracker that has seen a ready object does nothing before its
consumer has heard of it (`Awaited`); the channels for success and failure have no buffer,
and `Queued` says that what waits in those with one carries neither. For the refinement the errors of
the task are numbered without gaps (`Ledger`), so that a new error is one error more. Its
mapping is that of the run: what the search from the root counts is `spent`.

`ControllerReadinessProofs` proves of StatefulSets and DaemonSets with their consumers, for
any objects, Pods, revisions, budget and size of the channels:

| Theorem | Property | In words |
|---|---|---|
| `TypeCorrect` | `ControllerTypeOK` | the types, and no channel holds more than it has places |
| `NoFailureIsLost` | `EveryFailureIsCharged` | the step that takes the report of a failure event charges it |
| `NoPodIsForgotten` | `LivePodIsTracked` | the Pod that is there has a tracker that an older one of its name does not end |
| `ReadyIsNeverStale` | `ReadyIsCurrent` | success is given out only while the newest object seen is ready |

The last rests on an equivalence that ties the tracker to its send (`Announces`): while the
consumer waits, the tracker's object is ready exactly when the report of success is in the
send, and only a tracker with such an object is in the state Ready. That a tracker which
was ready says nothing more does no harm, therefore: its consumer has left. `Open` says that
the task has decided nothing by itself, so that only that report makes it ready. For
`EveryFailureIsCharged` it takes the numbering of errors (`Ledger`), which makes a new error
one error more, and that a failure is always sent, with an object or without
(`HandleFailureIs`); `ChargesKept` then holds of each step, trivially of those that charge
nothing (`NothingCharged`). For `LivePodIsTracked` it takes
that the handler of the informer is never ahead of the store (`KnownIsThere`); the step that
matters is `HandlePodDeletedKeeps`, in which a tracker that shows the Pod that is there
cannot be the one that is ended.

`CompletionReadinessProofs` proves of Jobs and Canaries with their consumers, for any Pods,
fail mode, budget and size of the channels and relays:

| Theorem | Property | In words |
|---|---|---|
| `TypeCorrect` | `CompletionTypeOK` | the types, and no channel holds more than it has places |
| `NoFailureIsLost` | `EveryFailureIsCharged` | the step that takes the report of a failure event charges it |
| `DoneMeansEnded` | `NoPodIsLeftRunning` | a Job is called done only when every Pod its tracker was told of is over, logs included, or was last called failed while it goes on |

`DoneMeansEnded` follows a Pod along everything that may tell of it: its tracker, the three
relays, the statuses `Track` keeps, the list of Pods it tracks. None of them says that a Pod
has terminated, and by its own end, before it is over (`RunsAreTrue`, `RelaysAreTrue`,
`KnowsEnded`), and a Pod that is over stays so; what is old in a relay, then, may delay a
success but not hasten it. A Pod that was followed is still tracked or is over (`Follows`),
which is what makes it safe to give up Pods. What remains is the Pod that is called failed
and goes on: the success that waits in the send is true of the statuses that `Track` still
has when the consumer takes it (`Announces`), so that the exception is about the statuses
that decided the verdict and no older ones. That a Pod is over stays true because no Pod is
announced twice (`AnnouncedOnce`): a second tracker would take the place of the one that has
ended. `NoFailureIsLost` and the verdict rest on `Announces` and `Ledger`, as for
StatefulSets.

`PodRelayProofs` proves of the Pods of a Deployment, for any Pods and ReplicaSets, any fail
mode, budget and size of the channels and relays:

| Theorem | Property | In words |
|---|---|---|
| `TypeCorrect` | `PodTypeOK` | the types, and no channel holds more than it has places |
| `NoErrorIsUncounted` | `ChargedErrorsCount` | an error is charged to a resource that the search from the root reaches |
| `NoOldPodIsCharged` | `OnlyNewPodsAreCharged` | an error is charged while there is a Deployment, to a Pod that is new |

The first needs of the task that every vertex is reached, the Pods without an error too
(`Counts`), as an error may be charged to any of them later. The second is about what
`Track` knew when it sent the error: while it waits in that send it hears of nothing else,
so that what was judged is still so when the error is taken (`Judged`); that channel has no
buffer, and what waits in the others is no error (`Queued`).

`EventInformerProofs` proves, for any trackers, options and finite set of events:

| Theorem | Property | In words |
|---|---|---|
| `TypeCorrect` | `EventInformerTypeOK` | the types, and the size of `watchErrCh` |
| `AlwaysJudgedAsAsked` | `ForbiddenIsJudgedAsAsked` | "403 Forbidden" is judged as each of the trackers that share an informer asked for |
| `NoChangeIsMissed` | `EveryChangeIsTold` | the newest version of each event is told, but for the one given first |

An event is followed from the store to what was told. `EndsNew`: the last notification of
it that waits, or is being told, or was told, is the version in the store, unless that is
no newer than what the handler was given first. `StartsOld`: as long as the tracker would
drop a notification of an event as old, the first one that waits carries the version that
the handler was given first, so that what is dropped is never a change. Between listing the
store and adding the handler the store only grows (`Waiting`); the handler then gets every
event of the store once (`GivenIs`, which rests on `Listing`: the order that `SetToSeq`
chooses for a finite set repeats nothing and leaves nothing out).

`ApiAnswersProofs` is about conclusions from answers that may be old when they are used. Its
first part is the quota inspection, for any finite set of old ReplicaSets, any strategy,
surge, unavailability, numbers of replicas and quota:

| Theorem | Property | In words |
|---|---|---|
| `TypeCorrect` | `QuotaTypeOK` | the types: no controller removes a Pod that there is not |
| `EveryDeadlockIsSeen` | `NoDeadlockIsMissed` | a rollout that is stuck, all of it to be seen, is not answered to be able to go on |
| `FatalIsJustified` | `FatalIsFinal` | after an answer "no" that was read from what was so, no controller creates a Pod of the new ReplicaSet until others release quota |

`QuotaInv` says what being stuck is: no Pod goes away, there is none too many and no old
ReplicaSet can be scaled down (`Blocked`), and the quota admits no Pod and counts those
there are (`Full`). In a blocked rollout a controller can only scale the new ReplicaSet up
or lose an available Pod (`CalmSteps`), and while the quota is full no number of Pods
changes at all unless others intervene (`SteadySteps`). That the surplus grows with the
new Pods (`SurplusGrows`) is the fact about the rounding that carries this. What the check
has computed implies `Blocked`, from the arithmetic of `RolloutCanReleaseQuota` and what
`ListPods` finds, and `Seen` says that a rollout stuck in plain sight leaves that
arithmetic nothing to hope for.

Its second part proves of the pollers `ResultAgreesWithStatus`, `SuccessIsAnswered` and
`NoFalseTimeout` (`ResultAndStatusAgree`, `SuccessfulMeansAnswered`,
`TimeoutsAreTrue`), for any number of changes and empty answers. `Asked` ties the
program counter to the answer, `Recorded` says that a resource not as wanted after
the timer is on record: the last try is made after the timer fired, and so its
answer cannot be one from before.

`PodReadinessProofs` proves `LogsEndFirst`, that `PodReadiness` has the property
`LogsEndBeforeSuccess`, for any finite set of containers, any Pod to begin with and
any number of changes. `NewPodStatus` lets a Pod succeed only when no container is
tracked, so what must be shown is that a container which is not tracked is one whose
goroutine is over (`UntrackedAreOver`). There is an exception that makes it
interesting: a Pod whose deletion is the first that `Start` hears of leaves a state
in which no container is tracked and no goroutine was ever started. There the
argument is another one (`NeverStarted`): a Pod that comes later under the same name
cannot be called succeeded, since the handler that would say so has first to send to a
container without a channel.

Their assumptions are the types of the constants (`GenericConstantsAssumption`,
`GenericReadinessAssumption`, `PollerAssumption`, `CapacityAssumption`,
`ReplicasAssumption`, `RootAssumption`, `ControllerReadinessAssumption`,
`CompletionConstantsAssumption`, `CompletionReadinessAssumption`,
`PodReadinessAssumption`, `FirstAssumption`; `QuotaConstantsAssumption` that the old
ReplicaSets are finitely many; `PodConstantsAssumption` of `PodTracker` and
`InformerAssumption` also say that the containers of a Pod and the events of a namespace
are finitely many; `ControllerConstantsAssumption` that a name whose Pod is there has had
one).

Each inductive invariant was checked by TLC, on the instance of the run, before it was
proved.

Checked by TLC only is liveness: `QuotaFailureIsDecided`, `ReadyIsDelivered`,
`CancellationEndsTracking`, `DeletedPodIsReleased`, `TrackingEnds`, `ReadyIsNoticed`,
`SuccessIsNoticed`, `CompletionIsNoticed`, `InformersStop`, `CleanupReturns`, `PollingEnds`
and `WantedIsNoticed`. Liveness under fairness and `ENABLED` are out of the prover's reach,
and so is what a definition by recursion computes for every input, since induction theorems
take an operator as a parameter and none of the provers used instantiates it; the modules
here use no recursion. The quantities that are sums in the code are sizes of sets instead,
about which the library has theorems. `PodErrorHasResource` does not hold.

## 6. Plan

In this order; what is not done is 11.

1. `DeploymentTracker`, its history and its proofs.
2. `ReadinessTask`, `DeploymentConsumer` and `DeploymentReadiness`, which implements
   `ReadinessVerdict`.
3. `PodRelay`.
4. Proofs for 1 and 2: the history; `ReadinessSpec => Verdict!Spec` for any budget, and
   that the consumer disturbs nothing of what is proved of the tracker. Proofs for 3:
   `OnlyNewPodsAreCharged`, `ChargedErrorsCount`.
5. `GenericTracker`, `GenericReadiness` and their proofs, `ReadinessVerdict` included.
6. `ExistencePollers` and its proofs.
7. `QuotaRelease`: `deploymentCanReleaseQuota` among the controllers of the cluster, and a
   proof of `NoDeadlockIsMissed` and `FatalIsFinal`.
8. `ControllerTracker` and `ControllerReadiness`: StatefulSet and DaemonSet.
   `CompletionTracker` and `CompletionReadiness`: Job and Canary. Proofs of
   `LivePodIsTracked`, `EveryFailureIsCharged` and `NoPodIsLeftRunning`.
9. `PodTracker` and `PodReadiness`: containers, their goroutines, log streams, re-creation.
   Their proof.
10. `SharedInformer` and `EventInformer`: the factory, old events, the end of informers.
   Their proof.
11. The window of the readiness probes; which ready condition of a generic resource is
   chosen.

## 7. Not modelled

Formatting and display (indicators, log store, ids, colours), the rules for the
status of particular kinds of resources, which are data, JSON conversion, and the
shared informers of client-go themselves, which are modelled from how the code
uses them: a store, and one goroutine that calls the handlers in order.
Also left out of the modelled components: the start of the generic tracker's first
informer, which may fail before anything happens; the removal of events, for which nobody
has a handler, events that are no failures, the informers of other resources than events,
which differ in their handlers only, and what a tracker hears that wants to know of "403
Forbidden" (it reads the same code over the other informer); a StatefulSet of another update strategy than the two
there are, at which `NewStatefulSetStatus` panics; the window of time in
which the failures of a readiness probe are ignored; log chunks, messages of events, the
error return of a Pod's tracker, and the 1.5 seconds that `handleDeploymentState`
sleeps between starting the informers of ReplicaSets and Pods.
