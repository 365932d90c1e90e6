---------------------------- MODULE PodRelayProofs ----------------------------
(***************************************************************************)
(* Safety of the relays of Pods, for any Pods and ReplicaSets, any fail    *)
(* mode and budget of failures, and any size of the channels and relays.   *)
(***************************************************************************)
EXTENDS PodRelay, FiniteSetTheorems, SequenceTheorems, TLAPS

-----------------------------------------------------------------------------
(***************************************************************************)
(* The inductive invariant.                                                *)
(***************************************************************************)

\* The cases about Pods say nothing of the Deployment but which Pods are new, and name
\* the Pod that they are about.
Carried ==
  {r \in Report : /\ r.ch \in {"Status", "AddedPod", "PodError"}
                  /\ ~ r.ready /\ ~ r.failed /\ r.replicas = Nil
                  /\ r.ch \in {"AddedPod", "PodError"} => r.pod \in Pod}

\* At most one message is being sent.
OneOut == out \in {<<>>} \cup {<<r>> : r \in Carried}

\* While an error is in the send, the loop goes on with nothing else, and what it knew of
\* the Pod is what it knows.
IsJudged == Head(out).isNew => Head(out).pod \in fresh

Judged == out # <<>> /\ Head(out).ch = "PodError" => deployed /\ IsJudged

\* What waits in a channel was sent to it.
Queued == \A ch \in {"Status", "AddedPod"} : reports[ch] \in Seq({r \in Carried : r.ch = ch})

\* Every vertex of the task is visited from the root, those with an error included.
Counts(ts) ==
  /\ IsFiniteSet(ts.errors)
  /\ ts.vertices = ResourceStates(ts)
  /\ \A e \in ts.errors : e[1] \in ts.vertices

PodInv == PodTypeOK /\ Counts(task) /\ OneOut /\ Judged /\ Queued

-----------------------------------------------------------------------------
(***************************************************************************)
(* Sequences.                                                              *)
(***************************************************************************)

LEMMA HeadAndTail ==
  ASSUME NEW S, NEW s \in Seq(S), s # <<>>
  PROVE  Head(s) \in S /\ Tail(s) \in Seq(S)
OBVIOUS

LEMMA AppendIs ==
  ASSUME NEW S, NEW s \in Seq(S), NEW x \in S
  PROVE  Append(s, x) \in Seq(S)
OBVIOUS

LEMMA SendsAre ==
  ASSUME NEW kinds \in Seq(Send), NEW s \in PodStatus
  PROVE  Sends(kinds, s) \in Seq([kind : Send, status : PodStatus])
<1> DEFINE S == [kind : Send, status : PodStatus]
           n == Len(kinds)
<1>1. n \in Nat /\ DOMAIN kinds = 1 .. n /\ \A i \in 1 .. n : kinds[i] \in Send
  OBVIOUS
<1> HIDE DEF n
<1>2. \A i \in 1 .. n : [kind |-> kinds[i], status |-> s] \in S
  BY <1>1
<1> HIDE DEF S
<1>3. Sends(kinds, s) \in [1 .. n -> S]
  BY <1>1, <1>2 DEF Sends
<1>4. [1 .. n -> S] \subseteq Seq(S)
  BY <1>1, SeqDef
<1>5. QED
  BY <1>3, <1>4 DEF S

-----------------------------------------------------------------------------
(***************************************************************************)
(* The reports of the loop.                                                *)
(***************************************************************************)

LEMMA StatusReportIs ==
  ASSUME NEW ps, NEW keys \in SUBSET Pod
  PROVE  StatusReport(ps, keys) \in Carried /\ StatusReport(ps, keys).ch = "Status"
<1>1. NewPods(ps, keys) \in SUBSET Pod
  BY DEF NewPods
<1>2. QED
  BY <1>1 DEF StatusReport, Carried, Report, ReportChannel

LEMMA PodReportIs ==
  ASSUME NEW ch \in {"AddedPod", "PodError"}, NEW p \in Pod, NEW ps, NEW keys \in SUBSET Pod
  PROVE  LET r == PodReport(ch, p, ps, keys)
         IN r \in Carried /\ r.ch = ch /\ r.pod = p /\ (r.isNew => p \in fresh)
<1> DEFINE s == StatusReport(ps, keys)
           new == p \in fresh
           r == [s EXCEPT !.ch = ch, !.pod = p, !.isNew = new]
<1>1. s \in Carried
  BY StatusReportIs
<1>2. new \in BOOLEAN
  OBVIOUS
<1>3. PodReport(ch, p, ps, keys) = r
  BY DEF PodReport
<1> HIDE DEF s, new
<1>4. r \in Carried /\ r.ch = ch /\ r.pod = p /\ r.isNew = new
  BY <1>1, <1>2 DEF Carried, Report, ReportChannel
<1>5. QED
  BY <1>3, <1>4 DEF new

\* What a handler that reports nothing, or a report, leaves in the send.
LEMMA IfDeployedIs ==
  ASSUME NEW r \in Carried, deployed \in BOOLEAN
  PROVE  /\ IfDeployed(r) \in {<<>>} \cup {<<x>> : x \in Carried}
         /\ IfDeployed(r) # <<>> => deployed /\ Head(IfDeployed(r)) = r
BY DEF IfDeployed

-----------------------------------------------------------------------------
(***************************************************************************)
(* The consumer.                                                           *)
(***************************************************************************)

LEMMA PodsAreAdded ==
  ASSUME NEW ts \in ReadinessTaskState, Counts(ts), NEW ps \in SUBSET Pod
  PROVE  LET e == AddDependencies(AddResourceStates(ts, ps), ps)
         IN e \in ReadinessTaskState /\ Counts(e) /\ e.errors = ts.errors
<1> DEFINE v == ts.vertices \cup ps
           d == ts.edges \cup ps
           e == [[ts EXCEPT !.vertices = v] EXCEPT !.edges = d]
<1>1. v \in SUBSET Resource /\ d \in SUBSET Resource
  BY DEF ReadinessTaskState, Resource
<1>2. v = {Root} \cup d
  BY DEF Counts, ResourceStates
<1>3. \A x \in ts.errors : x[1] \in v
  BY DEF Counts
<1>4. AddDependencies(AddResourceStates(ts, ps), ps) = e
  BY DEF AddDependencies, AddResourceStates, ReadinessTaskState
<1> HIDE DEF v, d
<1>5. /\ e \in ReadinessTaskState /\ e.vertices = v /\ e.edges = d /\ e.errors = ts.errors
  BY <1>1 DEF ReadinessTaskState
<1> HIDE DEF e
<1>6. Counts(e)
  BY <1>2, <1>3, <1>5 DEF Counts, ResourceStates
<1>7. QED
  BY <1>4, <1>5, <1>6

LEMMA AddErrorIs ==
  ASSUME NEW ts \in ReadinessTaskState, Counts(ts), NEW r \in ts.vertices
  PROVE  /\ AddError(ts, r) \in ReadinessTaskState /\ Counts(AddError(ts, r))
         /\ \A e \in AddError(ts, r).errors \ ts.errors : e[1] = r
<1> DEFINE E == ErrorsOf(ts, r)
           n == Cardinality(E)
           es == ts.errors \cup {<<r, n>>}
           e == [ts EXCEPT !.errors = es]
<1>1. r \in Resource /\ ts.errors \in SUBSET (Resource \X Nat)
  BY DEF ReadinessTaskState
<1>2. n \in Nat
  <2>1. E \subseteq ts.errors
    BY DEF ErrorsOf
  <2>2. IsFiniteSet(E)
    BY <2>1, FS_Subset DEF Counts
  <2>3. QED
    BY <2>2, FS_CardinalityType
<1> HIDE DEF n
<1>3. es \in SUBSET (Resource \X Nat)
  BY <1>1, <1>2
<1>4. IsFiniteSet(es)
  BY FS_AddElement DEF Counts
<1>5. \A x \in es : x[1] \in ts.vertices /\ (x \notin ts.errors => x[1] = r)
  BY DEF Counts
<1>6. AddError(ts, r) = e
  BY DEF AddError, n
<1> HIDE DEF es
<1>7. /\ e \in ReadinessTaskState /\ e.errors = es
      /\ e.vertices = ts.vertices /\ e.edges = ts.edges
  BY <1>3 DEF ReadinessTaskState
<1> HIDE DEF e
<1>8. Counts(e)
  BY <1>4, <1>5, <1>7 DEF Counts, ResourceStates
<1>9. QED
  BY <1>5, <1>6, <1>7, <1>8

\* A report charges nothing but the error it brings, to the Pod it is about.
LEMMA HandleReportIs ==
  ASSUME NEW ts \in ReadinessTaskState, Counts(ts), NEW r \in Carried,
         ~ Panics(HandleStatus(ts, r), r)
  PROVE  LET e == HandleReport(ts, r)
         IN /\ e \in ReadinessTaskState /\ Counts(e)
            /\ \A x \in e.errors \ ts.errors :
                 r.ch = "PodError" /\ r.isNew /\ x[1] = r.pod
<1> DEFINE h == HandlePodsFromDeploymentStatus(ts, r)
<1>1. /\ r.ch \in {"Status", "AddedPod", "PodError"} /\ r.ready = FALSE /\ r.failed = FALSE
      /\ r.replicas = Nil /\ r.pods \in SUBSET Pod /\ r.isNew \in BOOLEAN
      /\ r.ch \in {"AddedPod", "PodError"} => r.pod \in Pod
  BY DEF Carried, Report
<1>2. h \in ReadinessTaskState /\ Counts(h) /\ h.errors = ts.errors
  BY <1>1, PodsAreAdded DEF HandlePodsFromDeploymentStatus
<1>3. \A x : HandleDeploymentStatus(x, r) = x
  BY <1>1 DEF HandleDeploymentStatus
<1>4. HandleStatus(ts, r) = h
  BY <1>3 DEF HandleStatus
<1> HIDE DEF h
<1>5. CASE r.ch = "Status"
  <2>1. HandleReport(ts, r) = h
    BY <1>4, <1>5 DEF HandleReport
  <2>2. QED
    BY <1>2, <2>1
<1>6. CASE r.ch = "AddedPod"
  <2>1. HandleReport(ts, r) = HandlePodsFromPodAddedReport(h, r)
    BY <1>3, <1>6 DEF HandleReport, HandleAddedPod, h
  <2>2. CASE r.isNew
    <3>1. {r.pod} \in SUBSET Pod
      BY <1>1, <1>6
    <3>2. HandleReport(ts, r) = AddDependencies(AddResourceStates(h, {r.pod}), {r.pod})
      BY <2>1, <2>2 DEF HandlePodsFromPodAddedReport
    <3>3. QED
      BY <1>2, <3>1, <3>2, PodsAreAdded
  <2>3. CASE ~ r.isNew
    BY <1>2, <2>1, <2>3 DEF HandlePodsFromPodAddedReport
  <2>4. QED
    BY <2>2, <2>3
<1>7. CASE r.ch = "PodError"
  <2>1. HandleReport(ts, r) = HandleReplicaSetPodError(h, r)
    BY <1>4, <1>7 DEF HandleReport, HandlePodError
  <2>2. CASE r.isNew
    <3>1. r.pod \in h.vertices
      BY <1>4, <1>7, <2>2 DEF Panics
    <3>2. HandleReport(ts, r) = AddError(h, r.pod)
      BY <2>1, <2>2 DEF HandleReplicaSetPodError
    <3>3. QED
      BY <1>2, <1>7, <2>2, <3>1, <3>2, AddErrorIs
  <2>3. CASE ~ r.isNew
    BY <1>2, <2>1, <2>3 DEF HandleReplicaSetPodError
  <2>4. QED
    BY <2>2, <2>3
<1>8. QED
  BY <1>1, <1>5, <1>6, <1>7

-----------------------------------------------------------------------------
(***************************************************************************)
(* The steps of the cluster, of the trackers of Pods and of their relays.  *)
(***************************************************************************)

\* A step that is none of Track or of the consumer.
LEMMA PodSideStep ==
  ASSUME PodInv, PodTypeOK', UNCHANGED <<loop, consumer>>
  PROVE  PodInv'
BY DEF PodInv, OneOut, Judged, IsJudged, Queued, Counts, ResourceStates, loop, consumer

LEMMA EventIsCounted ==
  ASSUME events \in 0 .. MaxEvents, Event
  PROVE  events' \in 0 .. MaxEvents
<1>1. MaxEvents \in Nat
  BY PodConstantsAssumption
<1>2. QED
  BY <1>1 DEF Event

LEMMA RelayIs ==
  ASSUME NEW relay \in Seq(Relayed), NEW p \in Pod, NEW s \in PodStatus
  PROVE  Relay(relay, p, s) \in Seq(Relayed)
<1>1. [pod |-> p, status |-> s] \in Relayed
  BY DEF Relayed
<1>2. QED
  BY <1>1, AppendIs DEF Relay

LEMMA ClusterKeeps ==
  ASSUME PodInv, NEW p \in Pod, PodCreated(p) \/ PodGone(p) \/ PodAnnounced(p)
  PROVE  PodInv'
<1>1. UNCHANGED <<loop, consumer>>
  BY DEF PodCreated, PodGone, PodAnnounced
<1>2. PodTypeOK'
  <2> USE DEF PodInv, PodTypeOK, podTracker, relays, loop, consumer
  <2>1. CASE PodCreated(p)
    BY <2>1 DEF PodCreated
  <2>2. CASE PodGone(p)
    BY <2>2 DEF PodGone
  <2>3. CASE PodAnnounced(p)
    BY <2>3 DEF PodAnnounced
  <2>4. QED
    BY <2>1, <2>2, <2>3
<1>3. QED
  BY <1>1, <1>2, PodSideStep

\* What the handlers of the tracker of a Pod offer to its relay.
LEMMA OfferIs ==
  ASSUME PodTypeOK, NEW p \in Pod, NEW kinds \in Seq(Send), NEW s \in PodStatus,
         offer' = [offer EXCEPT ![p] = Sends(kinds, s)]
  PROVE  offer' \in [Pod -> Seq([kind : Send, status : PodStatus])]
<1>1. Sends(kinds, s) \in Seq([kind : Send, status : PodStatus])
  BY SendsAre
<1>2. QED
  BY <1>1 DEF PodTypeOK

LEMMA HandlePodStateKeeps ==
  ASSUME PodInv, NEW p \in Pod, HandlePodState(p)
  PROVE  PodInv'
<1>1. PICK errors \in {<<>>, <<"ContainerError">>},
           kind \in {"Status", "Succeeded", "Ready", "Failed"} :
        offer' = [offer EXCEPT ![p] = Sends(Append(errors, kind), "named")]
  BY DEF HandlePodState
<1>2. Append(errors, kind) \in Seq(Send)
  <2>1. "ContainerError" \in Send /\ kind \in Send
    BY DEF Send
  <2>2. <<>> \in Seq(Send) /\ <<"ContainerError">> \in Seq(Send)
    BY <2>1
  <2>3. QED
    BY <2>1, <2>2, AppendIs
<1>3. PodTypeOK /\ "named" \in PodStatus
  BY DEF PodInv, PodStatus
<1> DEFINE kinds == Append(errors, kind)
<1> HIDE DEF kinds
<1>4. offer' \in [Pod -> Seq([kind : Send, status : PodStatus])]
  BY <1>1, <1>2, <1>3, OfferIs DEF kinds
<1>5. events' \in 0 .. MaxEvents
  BY <1>3, EventIsCounted DEF HandlePodState, PodTypeOK
<1>6. /\ view' = [view EXCEPT ![p] = "present"] /\ last' = [last EXCEPT ![p] = "named"]
      /\ UNCHANGED <<cluster, added, announced, run, status, relays, loop, consumer>>
  BY DEF HandlePodState
<1>7. PodTypeOK'
  BY <1>3, <1>4, <1>5, <1>6 DEF PodTypeOK, relays, loop, consumer
<1>8. QED
  BY <1>6, <1>7, PodSideStep

\* The other handlers offer one message.
LEMMA OtherHandlersKeep ==
  ASSUME PodInv, NEW p \in Pod,
         HandlePodDeleted(p) \/ HandleProbeEvent(p) \/ HandleRegularFailure(p)
  PROVE  PodInv'
<1>1. PodTypeOK
  BY DEF PodInv
<1>2. /\ view' \in [Pod -> {"nothing", "coming", "present", "deleted"}]
      /\ last' \in [Pod -> PodStatus]
      /\ events' \in 0 .. MaxEvents
      /\ UNCHANGED <<cluster, added, announced, run, status, relays, loop, consumer>>
      /\ \E kind \in Send, s \in PodStatus : offer' = [offer EXCEPT ![p] = Sends(<<kind>>, s)]
  <2> USE <1>1 DEF PodTypeOK, Send, PodStatus
  <2>1. CASE HandlePodDeleted(p)
    BY <2>1 DEF HandlePodDeleted
  <2>2. CASE HandleProbeEvent(p)
    <3>1. events' \in 0 .. MaxEvents
      BY <2>2, EventIsCounted DEF HandleProbeEvent
    <3>2. QED
      BY <2>2, <3>1 DEF HandleProbeEvent
  <2>3. CASE HandleRegularFailure(p)
    <3>1. events' \in 0 .. MaxEvents
      BY <2>3, EventIsCounted DEF HandleRegularFailure
    <3>2. last' \in [Pod -> PodStatus] /\ last'[p] \in PodStatus
      BY <2>3 DEF HandleRegularFailure
    <3>3. QED
      BY <2>3, <3>1, <3>2 DEF HandleRegularFailure
  <2>4. QED
    BY <2>1, <2>2, <2>3
<1>3. PICK kind \in Send, s \in PodStatus : offer' = [offer EXCEPT ![p] = Sends(<<kind>>, s)]
  BY <1>2
<1>4. <<kind>> \in Seq(Send)
  OBVIOUS
<1>5. offer' \in [Pod -> Seq([kind : Send, status : PodStatus])]
  BY <1>1, <1>3, <1>4, OfferIs
<1>6. PodTypeOK'
  BY <1>1, <1>2, <1>5 DEF PodTypeOK, relays, loop, consumer
<1>7. QED
  BY <1>2, <1>6, PodSideStep

\* A send that is completed.
LEMMA OfferedIs ==
  ASSUME PodTypeOK, NEW p \in Pod, offer[p] # <<>>
  PROVE  /\ Head(offer[p]).status \in PodStatus
         /\ [offer EXCEPT ![p] = Tail(@)] \in [Pod -> Seq([kind : Send, status : PodStatus])]
<1>1. offer[p] \in Seq([kind : Send, status : PodStatus])
  BY DEF PodTypeOK
<1>2. /\ Head(offer[p]) \in [kind : Send, status : PodStatus]
      /\ Tail(offer[p]) \in Seq([kind : Send, status : PodStatus])
  BY <1>1, HeadAndTail
<1>3. QED
  BY <1>2 DEF PodTypeOK

LEMMA SendBufferedKeeps ==
  ASSUME PodInv, NEW p \in Pod, SendBuffered(p)
  PROVE  PodInv'
<1>1. /\ offer[p] # <<>> /\ offer' = [offer EXCEPT ![p] = Tail(@)]
      /\ status' = [status EXCEPT ![p] = Append(@, Head(offer[p]).status)]
      /\ UNCHANGED <<cluster, added, announced, view, run, last, relays, loop, consumer, events>>
  BY DEF SendBuffered
<1>2. PodTypeOK
  BY DEF PodInv
<1> DEFINE s == Head(offer[p]).status
<1>3. /\ s \in PodStatus
      /\ offer' \in [Pod -> Seq([kind : Send, status : PodStatus])]
  BY <1>1, <1>2, OfferedIs
<1> HIDE DEF s
<1>4. status' \in [Pod -> Seq(PodStatus)]
  <2>1. Append(status[p], s) \in Seq(PodStatus)
    BY <1>2, <1>3, AppendIs DEF PodTypeOK
  <2>2. status' = [status EXCEPT ![p] = Append(status[p], s)]
    BY <1>1 DEF s
  <2>3. QED
    BY <1>2, <2>1, <2>2 DEF PodTypeOK
<1>5. PodTypeOK'
  BY <1>1, <1>2, <1>3, <1>4 DEF PodTypeOK, relays, loop, consumer
<1>6. QED
  BY <1>1, <1>5, PodSideStep

LEMMA StartReturnsKeeps ==
  ASSUME PodInv, NEW p \in Pod, StartReturns(p)
  PROVE  PodInv'
<1>1. /\ run' = [run EXCEPT ![p] = "stopped"]
      /\ UNCHANGED <<cluster, added, announced, view, last, status, offer, relays, loop,
                     consumer, events>>
  BY DEF StartReturns
<1>2. PodTypeOK'
  BY <1>1 DEF PodInv, PodTypeOK, relays, loop, consumer
<1>3. QED
  BY <1>1, <1>2, PodSideStep

LEMMA RelayBufferedKeeps ==
  ASSUME PodInv, NEW p \in Pod, RelayBuffered(p)
  PROVE  PodInv'
<1>1. /\ status[p] # <<>> /\ statuses' = Relay(statuses, p, Head(status[p]))
      /\ status' = [status EXCEPT ![p] = Tail(@)]
      /\ UNCHANGED <<cluster, added, announced, view, run, last, offer, errs, dones, loop,
                     consumer, events>>
  BY DEF RelayBuffered
<1>2. PodTypeOK
  BY DEF PodInv
<1>3. Head(status[p]) \in PodStatus /\ Tail(status[p]) \in Seq(PodStatus)
  BY <1>1, <1>2, HeadAndTail DEF PodTypeOK
<1>4. statuses' \in Seq(Relayed)
  BY <1>1, <1>2, <1>3, RelayIs DEF PodTypeOK
<1>5. status' \in [Pod -> Seq(PodStatus)]
  BY <1>1, <1>2, <1>3 DEF PodTypeOK
<1>6. PodTypeOK'
  BY <1>1, <1>2, <1>4, <1>5 DEF PodTypeOK, loop, consumer
<1>7. QED
  BY <1>1, <1>6, PodSideStep

\* What the relay takes from the sends of the tracker.
LEMMA RelayOfferKeeps ==
  ASSUME PodInv, NEW p \in Pod, RelayUnbuffered(p) \/ RelayContainerError(p)
  PROVE  PodInv'
<1>1. /\ offer[p] # <<>> /\ offer' = [offer EXCEPT ![p] = Tail(@)]
      /\ statuses' \in {statuses, Relay(statuses, p, Head(offer[p]).status)}
      /\ errs' \in {errs, Relay(errs, p, Head(offer[p]).status)}
      /\ run' \in {run, [run EXCEPT ![p] = "cancelled"]}
      /\ UNCHANGED <<cluster, added, announced, view, last, status, dones, loop, consumer, events>>
  BY DEF RelayUnbuffered, RelayContainerError
<1>2. PodTypeOK
  BY DEF PodInv
<1>3. /\ Head(offer[p]).status \in PodStatus
      /\ offer' \in [Pod -> Seq([kind : Send, status : PodStatus])]
  BY <1>1, <1>2, OfferedIs
<1>4. statuses' \in Seq(Relayed) /\ errs' \in Seq(Relayed)
  <2> DEFINE s == Head(offer[p]).status
  <2>1. statuses \in Seq(Relayed) /\ errs \in Seq(Relayed)
    BY <1>2 DEF PodTypeOK
  <2> HIDE DEF s
  <2>2. Relay(statuses, p, s) \in Seq(Relayed) /\ Relay(errs, p, s) \in Seq(Relayed)
    BY <1>3, <2>1, RelayIs DEF s
  <2>3. QED
    BY <1>1, <2>1, <2>2 DEF s
<1>5. run' \in [Pod -> {"none", "starting", "running", "cancelled", "stopped", "done"}]
  BY <1>1, <1>2 DEF PodTypeOK
<1>6. PodTypeOK'
  BY <1>1, <1>2, <1>3, <1>4, <1>5 DEF PodTypeOK, loop, consumer
<1>7. QED
  BY <1>1, <1>6, PodSideStep

LEMMA RelayDoneKeeps ==
  ASSUME PodInv, NEW p \in Pod, RelayDone(p)
  PROVE  PodInv'
<1>1. /\ dones' = Relay(dones, p, last[p]) /\ run' = [run EXCEPT ![p] = "done"]
      /\ UNCHANGED <<cluster, added, announced, view, last, status, offer, statuses, errs, loop,
                     consumer, events>>
  BY DEF RelayDone
<1>2. PodTypeOK
  BY DEF PodInv
<1>3. dones' \in Seq(Relayed)
  BY <1>1, <1>2, RelayIs DEF PodTypeOK
<1>4. PodTypeOK'
  BY <1>1, <1>2, <1>3 DEF PodTypeOK, loop, consumer
<1>5. QED
  BY <1>1, <1>4, PodSideStep

-----------------------------------------------------------------------------
(***************************************************************************)
(* The steps of Track.                                                     *)
(***************************************************************************)

\* A case of Track that says nothing of an error, or says it of a Pod it knows.
LEMMA LoopStep ==
  ASSUME PodInv, PodTypeOK', OneOut', Judged', UNCHANGED consumer
  PROVE  PodInv'
BY DEF PodInv, Queued, Counts, ResourceStates, consumer

LEMMA OutIsTyped ==
  ASSUME NEW o \in {<<>>} \cup {<<r>> : r \in Carried}
  PROVE  o \in Seq(Report)
<1>1. CASE o = <<>>
  BY <1>1
<1>2. ASSUME NEW r \in Carried, o = <<r>>
      PROVE  o \in Seq(Report)
  <2>1. r \in Report
    BY DEF Carried
  <2>2. QED
    BY <1>2, <2>1
<1>3. QED
  BY <1>1, <1>2

LEMMA RunPodTrackerKeeps ==
  ASSUME PodInv, NEW p \in Pod, RunPodTracker(p)
  PROVE  PodInv'
<1>1. /\ out = <<>> /\ tracked' = tracked \cup {p} /\ run' = [run EXCEPT ![p] = "running"]
      /\ view' = [view EXCEPT ![p] = IF cluster[p] = "live" THEN "coming" ELSE "nothing"]
      /\ UNCHANGED <<cluster, added, announced, last, status, offer, relays, deployed, fresh,
                     filed, podStatuses, out, consumer, events>>
  BY DEF RunPodTracker
<1>2. PodTypeOK'
  BY <1>1 DEF PodInv, PodTypeOK, relays, consumer
<1>3. OneOut' /\ Judged'
  BY <1>1 DEF OneOut, Judged
<1>4. QED
  BY <1>1, <1>2, <1>3, LoopStep

LEMMA HandlePodAddedKeeps ==
  ASSUME PodInv, HandlePodAdded
  PROVE  PodInv'
<1>1. PodTypeOK
  BY DEF PodInv
<1>2. PICK p \in added :
        /\ filed' = filed \cup {p}
        /\ out' = IfDeployed(PodReport("AddedPod", p, podStatuses, filed'))
        /\ run' = [run EXCEPT ![p] = "starting"]
  BY DEF HandlePodAdded
<1>3. /\ added' = {}
      /\ UNCHANGED <<cluster, announced, view, last, status, offer, relays, deployed, fresh,
                     podStatuses, tracked, consumer, events>>
  BY DEF HandlePodAdded
<1>4. p \in Pod /\ filed' \in SUBSET Pod /\ deployed \in BOOLEAN
  BY <1>1, <1>2 DEF PodTypeOK
<1> DEFINE r == PodReport("AddedPod", p, podStatuses, filed')
<1>5. r \in Carried /\ r.ch = "AddedPod"
  BY <1>4, PodReportIs
<1> HIDE DEF r
<1>6. /\ out' \in {<<>>} \cup {<<x>> : x \in Carried}
      /\ out' # <<>> => Head(out') = r
  BY <1>2, <1>4, <1>5, IfDeployedIs DEF r
<1>7. OneOut' /\ Judged'
  BY <1>5, <1>6 DEF OneOut, Judged, Carried, Report
<1>8. PodTypeOK'
  <2>1. out' \in Seq(Report)
    BY <1>6, OutIsTyped
  <2>2. QED
    BY <1>1, <1>2, <1>3, <1>4, <2>1 DEF PodTypeOK, relays, consumer
<1>9. QED
  BY <1>3, <1>7, <1>8, LoopStep

\* What the loop writes down of a Pod.
LEMMA StatusesAre ==
  ASSUME PodTypeOK, NEW d \in Relayed
  PROVE  [podStatuses EXCEPT ![d.pod] = d.status] \in [Pod -> PodStatus \cup {"absent"}]
BY DEF PodTypeOK, Relayed

\* A case that sends a status of the Deployment.
LEMMA StatusStep ==
  ASSUME PodInv,
         UNCHANGED <<cluster, added, announced, podTracker, deployed, fresh, filed, consumer,
                     events>>,
         podStatuses' \in [Pod -> PodStatus \cup {"absent"}], tracked' \in SUBSET Pod,
         statuses' \in Seq(Relayed), errs' \in Seq(Relayed), dones' \in Seq(Relayed),
         out' = IfDeployed(StatusReport(podStatuses', filed))
  PROVE  PodInv'
<1> DEFINE r == StatusReport(podStatuses', filed)
<1>1. PodTypeOK
  BY DEF PodInv
<1>2. filed \in SUBSET Pod /\ deployed \in BOOLEAN
  BY <1>1 DEF PodTypeOK
<1>3. r \in Carried /\ r.ch = "Status"
  BY <1>2, StatusReportIs
<1> HIDE DEF r
<1>4. /\ out' \in {<<>>} \cup {<<x>> : x \in Carried}
      /\ out' # <<>> => Head(out') = r
  BY <1>2, <1>3, IfDeployedIs DEF r
<1>5. OneOut' /\ Judged'
  BY <1>3, <1>4 DEF OneOut, Judged, Carried, Report
<1>6. PodTypeOK'
  <2>1. out' \in Seq(Report)
    BY <1>4, OutIsTyped
  <2>2. QED
    BY <1>1, <2>1 DEF PodTypeOK, podTracker, consumer
<1>7. QED
  BY <1>5, <1>6, LoopStep

LEMMA HandleDonePodsKeeps ==
  ASSUME PodInv, HandleDonePods
  PROVE  PodInv'
<1> DEFINE d == Head(dones)
<1>1. /\ dones # <<>> /\ dones' = Tail(dones)
      /\ podStatuses' \in {podStatuses, [podStatuses EXCEPT ![d.pod] = d.status]}
      /\ tracked' = tracked \ {d.pod}
      /\ out' = IfDeployed(StatusReport(podStatuses', filed))
      /\ UNCHANGED <<cluster, added, announced, podTracker, statuses, errs, deployed, fresh,
                     filed, consumer, events>>
  BY DEF HandleDonePods
<1>2. PodTypeOK
  BY DEF PodInv
<1>3. d \in Relayed /\ dones' \in Seq(Relayed)
  BY <1>1, <1>2, HeadAndTail DEF PodTypeOK
<1> HIDE DEF d
<1>4. podStatuses' \in [Pod -> PodStatus \cup {"absent"}]
  <2>1. [podStatuses EXCEPT ![d.pod] = d.status] \in [Pod -> PodStatus \cup {"absent"}]
    BY <1>2, <1>3, StatusesAre
  <2>2. podStatuses \in [Pod -> PodStatus \cup {"absent"}]
    BY <1>2 DEF PodTypeOK
  <2>3. QED
    BY <1>1, <2>1, <2>2
<1>5. tracked' \in SUBSET Pod /\ statuses' \in Seq(Relayed) /\ errs' \in Seq(Relayed)
  BY <1>1, <1>2 DEF PodTypeOK
<1>6. QED
  BY <1>1, <1>3, <1>4, <1>5, StatusStep

LEMMA HandlePodStatusesKeeps ==
  ASSUME PodInv, HandlePodStatuses
  PROVE  PodInv'
<1> DEFINE d == Head(statuses)
<1>1. /\ statuses # <<>> /\ statuses' = Tail(statuses)
      /\ podStatuses' = [podStatuses EXCEPT ![d.pod] = d.status]
      /\ out' = IfDeployed(StatusReport(podStatuses', filed))
      /\ UNCHANGED <<cluster, added, announced, podTracker, errs, dones, deployed, fresh,
                     filed, tracked, consumer, events>>
  BY DEF HandlePodStatuses
<1>2. PodTypeOK
  BY DEF PodInv
<1>3. d \in Relayed /\ statuses' \in Seq(Relayed)
  BY <1>1, <1>2, HeadAndTail DEF PodTypeOK
<1> HIDE DEF d
<1>4. podStatuses' \in [Pod -> PodStatus \cup {"absent"}]
  BY <1>1, <1>2, <1>3, StatusesAre
<1>5. tracked' \in SUBSET Pod /\ dones' \in Seq(Relayed) /\ errs' \in Seq(Relayed)
  BY <1>1, <1>2 DEF PodTypeOK
<1>6. QED
  BY <1>1, <1>3, <1>4, <1>5, StatusStep

\* The error of a Pod of the new ReplicaSet says so.
LEMMA HandlePodContainerErrorsKeeps ==
  ASSUME PodInv, HandlePodContainerErrors
  PROVE  PodInv'
<1> DEFINE d == Head(errs)
           r == PodErrorReport(d.pod)
<1>1. /\ errs # <<>> /\ errs' = Tail(errs)
      /\ podStatuses' = [podStatuses EXCEPT ![d.pod] = d.status]
      /\ out' \in {<<>>, IfDeployed(r)}
      /\ UNCHANGED <<cluster, added, announced, podTracker, statuses, dones, deployed, fresh,
                     filed, tracked, consumer, events>>
  BY DEF HandlePodContainerErrors
<1>2. PodTypeOK
  BY DEF PodInv
<1>3. d \in Relayed /\ errs' \in Seq(Relayed) /\ d.pod \in Pod
  <2>1. d \in Relayed /\ errs' \in Seq(Relayed)
    BY <1>1, <1>2, HeadAndTail DEF PodTypeOK
  <2>2. QED
    BY <2>1 DEF Relayed
<1>4. podStatuses' \in [Pod -> PodStatus \cup {"absent"}]
  BY <1>1, <1>2, <1>3, StatusesAre
<1>5. filed \in SUBSET Pod /\ deployed \in BOOLEAN
  BY <1>2 DEF PodTypeOK
<1> HIDE DEF d
<1>6. r \in Carried /\ r.ch = "PodError" /\ r.pod = d.pod /\ (r.isNew => d.pod \in fresh)
  BY <1>3, <1>5, PodReportIs DEF PodErrorReport
<1> HIDE DEF r
<1>7. /\ out' \in {<<>>} \cup {<<x>> : x \in Carried}
      /\ out' # <<>> => deployed /\ Head(out') = r
  BY <1>1, <1>5, <1>6, IfDeployedIs
<1>8. OneOut' /\ Judged'
  <2>1. fresh' = fresh /\ deployed' = deployed
    BY <1>1
  <2>2. QED
    BY <1>6, <1>7, <2>1 DEF OneOut, Judged, IsJudged
<1>9. PodTypeOK'
  <2>1. out' \in Seq(Report)
    BY <1>7, OutIsTyped
  <2>2. QED
    BY <1>1, <1>2, <1>3, <1>4, <2>1 DEF PodTypeOK, podTracker, consumer
<1>10. QED
  BY <1>1, <1>8, <1>9, LoopStep

\* Which Pods are new changes only while nothing is in the send.
LEMMA HandleOtherKeeps ==
  ASSUME PodInv, HandleOther
  PROVE  PodInv'
<1> DEFINE s == StatusReport(podStatuses, filed)
           ps == IF deployed' THEN {p \in fresh' \cap filed : podStatuses[p] = "named"} ELSE {}
           r == [s EXCEPT !.pods = ps]
<1>1. /\ Event /\ deployed' \in BOOLEAN /\ fresh' \in Freshness /\ out' = <<r>>
      /\ ForgetPods \/ UNCHANGED <<filed, podStatuses, tracked>>
      /\ UNCHANGED <<cluster, added, announced, podTracker, relays, consumer>>
  BY DEF HandleOther
<1>2. PodTypeOK
  BY DEF PodInv
<1>3. filed \in SUBSET Pod /\ fresh' \in SUBSET Pod /\ events' \in 0 .. MaxEvents
  BY <1>1, <1>2, EventIsCounted DEF PodTypeOK, Freshness
<1>4. ps \in SUBSET Pod
  BY <1>3
<1>5. s \in Carried /\ s.ch = "Status"
  BY <1>3, StatusReportIs
<1> HIDE DEF s, ps
<1>6. r \in Carried /\ r.ch = "Status"
  BY <1>4, <1>5 DEF Carried, Report, ReportChannel
<1> HIDE DEF r
<1>7. OneOut' /\ Judged'
  BY <1>1, <1>6 DEF OneOut, Judged, Carried, Report
<1>8. PodTypeOK'
  <2>1. out' \in Seq(Report)
    BY <1>7, OutIsTyped DEF OneOut, Carried, Report
  <2>2. /\ filed' \in SUBSET Pod /\ tracked' \in SUBSET Pod
        /\ podStatuses' \in [Pod -> PodStatus \cup {"absent"}]
    BY <1>1, <1>2 DEF PodTypeOK, ForgetPods
  <2>3. QED
    BY <1>1, <1>2, <1>3, <2>1, <2>2 DEF PodTypeOK, podTracker, relays, consumer
<1>9. QED
  BY <1>1, <1>7, <1>8, LoopStep

-----------------------------------------------------------------------------
(***************************************************************************)
(* The channels to the consumer, and the consumer.                         *)
(***************************************************************************)
Buffered == {"Status", "AddedPod"}

LEMMA EnqueueKeeps ==
  ASSUME PodInv, NEW ch \in DOMAIN reports, EnqueueReport(ch)
  PROVE  PodInv'
<1> DEFINE r == Head(out)
           S == {x \in Carried : x.ch = ch}
           q == Append(reports[ch], r)
<1>1. /\ out # <<>> /\ r.ch = ch /\ out' = <<>>
      /\ reports' = [reports EXCEPT ![ch] = q]
      /\ UNCHANGED <<cluster, added, announced, podTracker, relays, deployed, fresh, filed,
                     podStatuses, tracked, task, verdict, events>>
  BY DEF EnqueueReport
<1>2. PodTypeOK /\ ch \in Buffered
  BY DEF PodInv, PodTypeOK, Buffered
<1>3. r \in S /\ r \in Report
  BY <1>1 DEF PodInv, OneOut, Carried
<1> HIDE DEF r
<1>4. reports[ch] \in Seq(S) /\ reports[ch] \in Seq(Report)
  BY <1>2 DEF PodInv, Queued, PodTypeOK, Buffered
<1> HIDE DEF S
<1>5. q \in Seq(S) /\ q \in Seq(Report)
  BY <1>3, <1>4, AppendIs
<1> HIDE DEF q
<1>6. /\ reports' \in [Buffered -> Seq(Report)] /\ reports'[ch] = q
      /\ \A c \in Buffered : c # ch => reports'[c] = reports[c]
  BY <1>1, <1>2, <1>5 DEF PodTypeOK, Buffered
<1>7. Queued'
  BY <1>5, <1>6 DEF PodInv, Queued, Buffered, S
<1>8. PodTypeOK'
  <2>1. out' \in Seq(Report)
    BY <1>1
  <2>2. QED
    BY <1>1, <1>2, <1>6, <2>1 DEF PodTypeOK, podTracker, relays, Buffered
<1>9. QED
  BY <1>1, <1>7, <1>8 DEF PodInv, OneOut, Judged, Counts, ResourceStates

LEMMA VerdictIs ==
  ASSUME NEW ts \in ReadinessTaskState
  PROVE  VerdictOf(ts) \in {"tracking", "ready", "failed"}
<1>1. ts.status \in {"", "Ready"}
  BY DEF ReadinessTaskState
<1>2. FailureCondition(ts) \in BOOLEAN
  BY DEF FailureCondition
<1>3. Status(ts) \in TaskStatus
  BY <1>1, <1>2 DEF Status, TaskStatus
<1>4. QED
  BY <1>3 DEF VerdictOf, TaskStatus

\* What a report is charged for.
LEMMA ConsumeIs ==
  ASSUME PodInv, NEW r \in Carried, Consume(r)
  PROVE  /\ task' \in ReadinessTaskState /\ Counts(task)'
         /\ verdict' \in {"tracking", "ready", "failed", "panic"}
         /\ \A e \in task'.errors \ task.errors :
              r.ch = "PodError" /\ r.isNew /\ e[1] = r.pod
<1>1. task \in ReadinessTaskState /\ Counts(task)
  BY DEF PodInv, PodTypeOK
<1>2. CASE Panics(HandleStatus(task, r), r)
  <2>1. verdict' = "panic" /\ task' = task
    BY <1>2 DEF Consume
  <2>2. QED
    BY <1>1, <2>1 DEF Counts, ResourceStates
<1>3. CASE ~ Panics(HandleStatus(task, r), r)
  <2> DEFINE e == HandleReport(task, r)
  <2>1. task' = e /\ verdict' = VerdictOf(task')
    BY <1>3 DEF Consume
  <2>2. /\ e \in ReadinessTaskState /\ Counts(e)
        /\ \A x \in e.errors \ task.errors :
             r.ch = "PodError" /\ r.isNew /\ x[1] = r.pod
    BY <1>1, <1>3, HandleReportIs
  <2> HIDE DEF e
  <2>3. verdict' \in {"tracking", "ready", "failed"}
    BY <2>1, <2>2, VerdictIs
  <2>4. Counts(task)'
    BY <2>1, <2>2 DEF Counts, ResourceStates
  <2>5. QED
    BY <2>1, <2>2, <2>3, <2>4
<1>4. QED
  BY <1>2, <1>3

LEMMA ConsumeReportKeeps ==
  ASSUME PodInv, NEW ch \in DOMAIN reports, ConsumeReport(ch)
  PROVE  PodInv' /\ task'.errors \subseteq task.errors
<1> DEFINE r == Head(reports[ch])
           S == {x \in Carried : x.ch = ch}
           q == Tail(reports[ch])
<1>1. /\ reports[ch] # <<>> /\ Consume(r) /\ reports' = [reports EXCEPT ![ch] = q]
      /\ UNCHANGED <<cluster, added, announced, podTracker, relays, loop, events>>
  BY DEF ConsumeReport
<1>2. PodTypeOK /\ ch \in Buffered
  BY DEF PodInv, PodTypeOK, Buffered
<1>3. reports[ch] \in Seq(S) /\ reports[ch] \in Seq(Report)
  BY <1>2 DEF PodInv, Queued, PodTypeOK, Buffered
<1>4. r \in S /\ q \in Seq(S) /\ q \in Seq(Report)
  BY <1>1, <1>3, HeadAndTail
<1>5. r \in Carried /\ r.ch # "PodError"
  BY <1>2, <1>4 DEF Buffered
<1> HIDE DEF r, S, q
<1>6. /\ task' \in ReadinessTaskState /\ Counts(task)'
      /\ verdict' \in {"tracking", "ready", "failed", "panic"}
      /\ task'.errors \subseteq task.errors
  BY <1>1, <1>5, ConsumeIs
<1>7. /\ reports' \in [Buffered -> Seq(Report)] /\ reports'[ch] = q
      /\ \A c \in Buffered : c # ch => reports'[c] = reports[c]
  BY <1>1, <1>2, <1>4 DEF PodTypeOK, Buffered
<1>8. Queued'
  BY <1>4, <1>7 DEF PodInv, Queued, Buffered, S
<1>9. PodTypeOK'
  BY <1>1, <1>2, <1>6, <1>7 DEF PodTypeOK, podTracker, relays, loop, Buffered
<1>10. OneOut' /\ Judged'
  BY <1>1 DEF PodInv, OneOut, Judged, IsJudged, loop
<1>11. QED
  BY <1>6, <1>8, <1>9, <1>10 DEF PodInv

LEMMA ConsumePodErrorKeeps ==
  ASSUME PodInv, ConsumePodError
  PROVE  /\ PodInv'
         /\ \A e \in task'.errors \ task.errors : deployed /\ e[1] \in fresh
<1> DEFINE r == Head(out)
<1>1. /\ out # <<>> /\ r.ch = "PodError" /\ Consume(r) /\ out' = <<>>
      /\ UNCHANGED <<cluster, added, announced, podTracker, relays, deployed, fresh, filed,
                     podStatuses, tracked, reports, events>>
  BY DEF ConsumePodError
<1>2. PodTypeOK /\ r \in Carried
  BY <1>1 DEF PodInv, OneOut
<1>3. deployed /\ (r.isNew => r.pod \in fresh)
  BY <1>1 DEF PodInv, Judged, IsJudged
<1> HIDE DEF r
<1>4. /\ task' \in ReadinessTaskState /\ Counts(task)'
      /\ verdict' \in {"tracking", "ready", "failed", "panic"}
      /\ \A e \in task'.errors \ task.errors : r.isNew /\ e[1] = r.pod
  BY <1>1, <1>2, ConsumeIs
<1>5. PodTypeOK'
  <2>1. out' \in Seq(Report)
    BY <1>1
  <2>2. QED
    BY <1>1, <1>2, <1>4, <2>1 DEF PodTypeOK, podTracker, relays
<1>6. OneOut' /\ Judged' /\ Queued'
  BY <1>1 DEF PodInv, OneOut, Judged, Queued
<1>7. QED
  BY <1>3, <1>4, <1>5, <1>6 DEF PodInv

-----------------------------------------------------------------------------
(***************************************************************************)
(* The invariant holds.                                                    *)
(***************************************************************************)

LEMMA PodInvBegins == PodInit => PodInv
<1> SUFFICES ASSUME PodInit PROVE PodInv
  OBVIOUS
<1> DEFINE ts == NewReadinessTaskState(Mode, Allow)
<1>1. ts \in ReadinessTaskState
  BY PodConstantsAssumption
     DEF NewReadinessTaskState, ReadinessTaskState, Resource, ResourceStatus
<1>2. ts.errors = {} /\ ts.vertices = {Root} /\ ts.edges = {} /\ task = ts
  BY DEF NewReadinessTaskState, PodInit
<1>3. IsFiniteSet({})
  BY FS_EmptySet
<1> HIDE DEF ts
<1>4. Counts(task)
  BY <1>2, <1>3 DEF Counts, ResourceStates
<1>5. \A S : <<>> \in Seq(S)
  OBVIOUS
<1>6. PodTypeOK
  <2>1. 0 \in 0 .. MaxEvents
    BY PodConstantsAssumption
  <2>2. /\ fresh \subseteq Pod /\ task \in ReadinessTaskState
        /\ statuses \in Seq(Relayed) /\ errs \in Seq(Relayed) /\ dones \in Seq(Relayed)
        /\ out \in Seq(Report) /\ reports \in [{"Status", "AddedPod"} -> Seq(Report)]
    BY <1>1, <1>2, <1>5 DEF PodInit, Freshness
  <2>3. /\ status \in [Pod -> Seq(PodStatus)]
        /\ offer \in [Pod -> Seq([kind : Send, status : PodStatus])]
    BY <1>5 DEF PodInit
  <2>4. QED
    BY <2>1, <2>2, <2>3 DEF PodInit, PodTypeOK, PodStatus
<1>7. OneOut /\ Judged /\ Queued
  BY <1>5 DEF PodInit, OneOut, Judged, Queued
<1>8. QED
  BY <1>4, <1>6, <1>7 DEF PodInv

LEMMA PodStep ==
  ASSUME PodInv, [PodNext]_podVars
  PROVE  /\ PodInv'
         /\ \A e \in task'.errors \ task.errors : deployed /\ e[1] \in fresh
<1>1. ASSUME NEW p \in Pod,
             \/ PodCreated(p) \/ PodGone(p) \/ PodAnnounced(p) \/ PodStart(p) \/ PodRelays(p)
      PROVE  PodInv' /\ task' = task
  <2>1. CASE PodCreated(p) \/ PodGone(p) \/ PodAnnounced(p)
    BY <2>1, ClusterKeeps DEF PodCreated, PodGone, PodAnnounced, consumer
  <2>2. CASE PodStart(p)
    <3>1. PodInv'
      BY <2>2, HandlePodStateKeeps, OtherHandlersKeep, SendBufferedKeeps, StartReturnsKeeps
         DEF PodStart
    <3>2. task' = task
      BY <2>2
         DEF PodStart, HandlePodState, HandlePodDeleted, HandleProbeEvent, HandleRegularFailure,
             SendBuffered, StartReturns, consumer
    <3>3. QED
      BY <3>1, <3>2
  <2>3. CASE PodRelays(p)
    <3>1. PodInv'
      BY <2>3, RelayBufferedKeeps, RelayOfferKeeps, RelayDoneKeeps DEF PodRelays
    <3>2. task' = task
      BY <2>3
         DEF PodRelays, RelayBuffered, RelayUnbuffered, RelayContainerError, RelayDone, consumer
    <3>3. QED
      BY <3>1, <3>2
  <2>4. QED
    BY <1>1, <2>1, <2>2, <2>3
<1>2. CASE Track
  <2>1. PodInv'
    BY <1>2, RunPodTrackerKeeps, HandlePodAddedKeeps, HandleDonePodsKeeps,
       HandlePodStatusesKeeps, HandlePodContainerErrorsKeeps, HandleOtherKeeps DEF Track
  <2>2. task' = task
    BY <1>2
       DEF Track, RunPodTracker, HandlePodAdded, HandleDonePods, HandlePodStatuses,
           HandlePodContainerErrors, HandleOther, consumer
  <2>3. QED
    BY <2>1, <2>2
<1>3. ASSUME NEW ch \in DOMAIN reports, EnqueueReport(ch)
      PROVE  PodInv' /\ task' = task
  BY <1>3, EnqueueKeeps DEF EnqueueReport
<1>4. CASE Consumer
  BY <1>4, ConsumeReportKeeps, ConsumePodErrorKeeps DEF Consumer
<1>5. CASE UNCHANGED podVars
  <2>1. /\ PodTypeOK' /\ task' = task
        /\ UNCHANGED <<loop, consumer>>
    BY <1>5 DEF PodInv, PodTypeOK, podVars, podTracker, relays, loop, consumer
  <2>2. QED
    BY <2>1, PodSideStep
<1>6. QED
  BY <1>1, <1>2, <1>3, <1>4, <1>5 DEF PodNext, Over, Quiet

LEMMA PodInvariance == PodSpec => []PodInv
<1>1. PodInit => PodInv
  BY PodInvBegins
<1>2. PodInv /\ [PodNext]_podVars => PodInv'
  BY PodStep
<1>3. QED
  BY <1>1, <1>2, PTL DEF PodSpec

\* Whatever the tracker of a Pod, its relay and the loop have done, each of them holds
\* what it may hold.
THEOREM TypeCorrect == PodSpec => []PodTypeOK
<1>1. PodInv => PodTypeOK
  BY DEF PodInv
<1>2. QED
  BY <1>1, PodInvariance, PTL

\* handlePodsFromDeploymentStatus, handlePodsFromPodAddedReport and
\* handleReplicaSetPodError: no error is charged to a Pod that the search from the root,
\* which counts the errors of the task, does not reach.
THEOREM NoErrorIsUncounted == PodSpec => []ChargedErrorsCount
<1>1. PodInv => ChargedErrorsCount
  BY DEF PodInv, Counts, ChargedErrorsCount
<1>2. QED
  BY <1>1, PodInvariance, PTL

\* The case podContainerErrorsRelay of Track and handleReplicaSetPodError: an error is
\* charged only while there is a Deployment, and to a Pod that the loop takes for new at
\* that moment.
THEOREM NoOldPodIsCharged == PodSpec => OnlyNewPodsAreCharged
<1>1. PodInv /\ [PodNext]_podVars =>
        [\A e \in task'.errors \ task.errors : deployed /\ e[1] \in fresh]_podVars
  BY PodStep
<1>2. QED
  BY <1>1, PodInvariance, PTL DEF PodSpec, OnlyNewPodsAreCharged
=============================================================================
