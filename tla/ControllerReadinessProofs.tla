---------------------- MODULE ControllerReadinessProofs ----------------------
(***************************************************************************)
(* Safety of the trackers of StatefulSets and DaemonSets and of their       *)
(* consumers, for any objects, Pods and revisions, any fail mode and budget *)
(* of failures, and any size of the channels.                               *)
(***************************************************************************)
EXTENDS ControllerReadiness, FiniteSetTheorems, TLAPS

-----------------------------------------------------------------------------
(***************************************************************************)
(* The inductive invariant.                                                *)
(***************************************************************************)

\* A report of a Pod names it, a report of a failure says so, and only one report
\* says that the resource is ready.
Carried ==
  {r \in Report : /\ r.ch \in {"AddedPod", "PodError"} => r.pod \in Pod
                  /\ r.ready => r.ch = "Ready"
                  /\ r.ch = "Failed" => r.failed}

\* At most one message is being sent.
OneOut(d) == d.out \in {<<>>} \cup {<<r>> : r \in Carried}

Shines(d) == d.lastObject # Nil /\ IsReady(d.lastObject)

\* While its consumer waits, a tracker that has seen a ready object is in the send that
\* says so, and does nothing else.
Announces(d) ==
  /\ d.State = "Ready" => Shines(d)
  /\ Shines(d) <=> d.out # <<>> /\ Head(d.out).ready

\* Nothing has been decided yet.
Open(ts) == ts.status = "" /\ \A r \in Resource : ts.statuses[r] # "Ready"

\* The errors of a resource are numbered from 0 on, without gaps.
Row(ts, r) ==
  /\ IsFiniteSet(ErrorsOf(ts, r))
  /\ ErrorsOf(ts, r) = {r} \X (0 .. Cardinality(ErrorsOf(ts, r)) - 1)

Ledger(ts) == \A r \in Resource : Row(ts, r)

\* What waits in a channel was sent to it.
Queued == \A ch \in Buffered : queue[ch] \in Seq({r \in Carried : r.ch = ch})

\* The handler of the Pods informer is called for what there is.
KnownIsThere == \A p \in Pod : announced[p] # Nil => announced[p] <= Len(pods[p].revisions)

ControllerInv ==
  /\ ControllerTypeOK
  /\ OneOut(t)
  /\ Queued
  /\ KnownIsThere /\ LivePodIsTracked
  /\ Ledger(task)
  /\ verdict = "tracking" => Announces(t) /\ Open(task)

\* What EveryFailureIsCharged says of a step.
ChargesKept ==
  verdict' = "tracking" => RootErrors' - RootErrors >= FailuresTaken' - FailuresTaken

Kept == ControllerInv' /\ ChargesKept

-----------------------------------------------------------------------------
(***************************************************************************)
(* The handlers of the tracker.                                            *)
(***************************************************************************)

LEMMA OneMessage ==
  ASSUME NEW S, NEW r \in S
  PROVE  <<r>> # <<>> /\ Head(<<r>>) = r /\ <<r>> \in Seq(S)
OBVIOUS

LEMMA HeadAndTail ==
  ASSUME NEW S, NEW s \in Seq(S), s # <<>>
  PROVE  Head(s) \in S /\ Tail(s) \in Seq(S)
OBVIOUS

LEMMA AppendIs ==
  ASSUME NEW S, NEW s \in Seq(S), NEW x \in S
  PROVE  /\ Append(s, x) \in Seq(S) /\ Append(s, x) # <<>>
         /\ Len(Append(s, x)) = Len(s) + 1 /\ Len(s) \in Nat
OBVIOUS

LEMMA ObjectIs ==
  ASSUME NEW o \in Objects
  PROVE  /\ o # Nil /\ o \in StatefulSet \cup DaemonSet
         /\ o.kind \in {"StatefulSet", "DaemonSet"} /\ o.revision \in Revision
         /\ IsReady(o) \in BOOLEAN
         /\ RequiredReplicas(o) \in Nat \cup {Nil}
<1>1. o # Nil /\ o \in StatefulSet \cup DaemonSet
  BY ControllerConstantsAssumption
<1>2. o.kind \in {"StatefulSet", "DaemonSet"} /\ o.revision \in Revision
  BY <1>1 DEF StatefulSet, DaemonSet
<1>3. IsReady(o) \in BOOLEAN
  BY DEF IsReady, StatefulSetReady, DaemonSetReady
<1>4. RequiredReplicas(o) \in Nat \cup {Nil}
  <2>1. CASE o \in StatefulSet
    BY <2>1 DEF RequiredReplicas, StatefulSet
  <2>2. CASE o \in DaemonSet
    BY <2>2 DEF RequiredReplicas, DaemonSet
  <2>3. QED
    BY <1>1, <2>1, <2>2
<1>5. QED
  BY <1>1, <1>2, <1>3, <1>4

Channel == {"Added", "Ready", "Failed", "Status", "AddedPod", "PodError"}

LEMMA StatusIs ==
  ASSUME NEW d \in Tracker, d.lastObject # Nil, NEW ch \in Channel
  PROVE  /\ NewStatus(d, ch) \in Report /\ NewStatus(d, ch).ch = ch
         /\ NewStatus(d, ch).ready = IsReady(d.lastObject)
         /\ NewStatus(d, ch).failed = Failed(d)
         /\ IsReady(d.lastObject) \in BOOLEAN /\ Failed(d) \in BOOLEAN
<1>1. d.lastObject \in Objects
  BY DEF Tracker
<1>2. IsReady(d.lastObject) \in BOOLEAN /\ RequiredReplicas(d.lastObject) \in Nat \cup {Nil}
  BY <1>1, ObjectIs
<1>3. Failed(d) \in BOOLEAN
  BY DEF Failed
<1>4. NewPods(d) \in SUBSET Pod
  BY DEF NewPods
<1>5. QED
  BY <1>2, <1>3, <1>4 DEF NewStatus, Report, Channel

LEMMA SendIs ==
  ASSUME NEW d \in Tracker, NEW r \in Carried
  PROVE  LET e == Send(d, r)
         IN /\ e \in Tracker /\ OneOut(e)
            /\ e.out = <<r>> /\ e.out # <<>> /\ Head(e.out) = r
            /\ e.State = d.State /\ e.lastObject = d.lastObject
            /\ e.podStatuses = d.podStatuses /\ e.podRevisions = d.podRevisions
            /\ e.TrackedPodsNames = d.TrackedPodsNames /\ e.kind = d.kind
<1>1. r \in Report
  BY DEF Carried
<1>2. <<r>> \in Seq(Report)
  BY <1>1
<1> DEFINE m == <<r>>
<1>3. m # <<>> /\ Head(m) = r /\ m \in {<<s>> : s \in Carried}
  OBVIOUS
<1>4. m \in Seq(Report)
  BY <1>2
<1> HIDE DEF m
<1>5. /\ [d EXCEPT !.out = m] \in Tracker
      /\ [d EXCEPT !.out = m].out = m
  BY <1>4 DEF Tracker
<1>6. Send(d, r) = [d EXCEPT !.out = m]
  BY DEF Send, m
<1>7. QED
  BY <1>3, <1>5, <1>6 DEF OneOut, Tracker, m

\* A tracker that can select, with nothing left to say.
Idle(d) == d \in Tracker /\ d.out = <<>> /\ Announces(d)

Good(d) == d \in Tracker /\ OneOut(d) /\ Announces(d)

LEMMA IdleIs ==
  ASSUME NEW d, Idle(d)
  PROVE  d.State # "Ready" /\ ~ Shines(d) /\ Good(d)
BY DEF Idle, Announces, Good, OneOut

LEMMA HandleStateIs ==
  ASSUME NEW d \in Tracker, d.out = <<>>, d.State # "Ready", NEW o \in Objects
  PROVE  Good(HandleState(d, o))
<1> DEFINE seen == [d EXCEPT !.lastObject = o]
           channel == StatusChannel(d.State, IsReady(o), Failed(seen))
           ch == CHOOSE c \in channel : TRUE
           f == [seen EXCEPT !.State = IF ch = "Status" THEN @ ELSE ch]
           r == NewStatus(seen, ch)
<1>1. /\ seen \in Tracker /\ seen.lastObject = o /\ seen.State = d.State /\ seen.kind = d.kind
      /\ d.State \in TrackerState
  BY DEF Tracker
<1>2. IsReady(o) \in BOOLEAN /\ o # Nil
  BY ObjectIs
<1>3. \/ IsReady(o) /\ channel = {"Ready"}
      \/ ~ IsReady(o) /\ Failed(seen) /\ channel = {"Failed"}
      \/ ~ IsReady(o) /\ channel \in {{"Added"}, {"Status"}}
  BY <1>1 DEF StatusChannel, TrackerState
<1> HIDE DEF channel
<1>4. \/ IsReady(o) /\ ch = "Ready"
      \/ ~ IsReady(o) /\ Failed(seen) /\ ch = "Failed"
      \/ ~ IsReady(o) /\ ch \in {"Added", "Status"}
  BY <1>3
<1>5. HandleState(d, o) = Send(f, r)
  BY <1>3 DEF HandleState, channel
<1> HIDE DEF seen, ch
<1>6. /\ f \in Tracker /\ f.lastObject = o
      /\ f.State = IF ch = "Status" THEN d.State ELSE ch
  BY <1>1, <1>4 DEF Tracker, TrackerState
<1>7. /\ r \in Report /\ r.ch = ch
      /\ (r.ready <=> IsReady(o)) /\ (r.failed <=> Failed(seen))
  <2>1. ch \in Channel
    BY <1>4 DEF Channel
  <2>2. QED
    BY <1>1, <1>2, <2>1, StatusIs
<1> HIDE DEF f, r
<1>8. r \in Carried
  BY <1>4, <1>7 DEF Carried
<1>9. /\ Send(f, r) \in Tracker /\ OneOut(Send(f, r))
      /\ Send(f, r).out # <<>> /\ Head(Send(f, r).out) = r
      /\ Send(f, r).lastObject = o /\ Send(f, r).State = f.State
  BY <1>6, <1>8, SendIs
<1>10. Announces(Send(f, r))
  <2>1. Shines(Send(f, r)) <=> IsReady(o)
    BY <1>2, <1>9 DEF Shines
  <2>2. f.State = "Ready" => IsReady(o)
    BY <1>4, <1>6
  <2>3. QED
    BY <1>7, <1>9, <2>1, <2>2 DEF Announces
<1>11. QED
  BY <1>5, <1>9, <1>10 DEF Good

LEMMA HandleSameStateIs ==
  ASSUME NEW d, Idle(d)
  PROVE  Good(HandleSameState(d))
<1>1. d \in Tracker /\ d.out = <<>> /\ d.State # "Ready" /\ Good(d)
  BY IdleIs DEF Idle
<1>2. CASE d.lastObject = Nil
  BY <1>1, <1>2 DEF HandleSameState
<1>3. CASE d.lastObject # Nil
  <2>1. d.lastObject \in Objects
    BY <1>1, <1>3 DEF Tracker
  <2>2. QED
    BY <1>1, <1>3, <2>1, HandleStateIs DEF HandleSameState
<1>4. QED
  BY <1>2, <1>3

LEMMA ResetOnDeleteIs ==
  ASSUME NEW d \in Tracker
  PROVE  Good(ResetOnDelete(d))
<1> DEFINE e == [d EXCEPT !.State = "Deleted", !.lastObject = Nil, !.TrackedPodsNames = {},
                          !.podStatuses = [p \in Pod |-> Nil], !.podRevisions = [p \in Pod |-> Nil]]
           r == BlankStatus("Status")
<1>1. e \in Tracker /\ e.State = "Deleted" /\ e.lastObject = Nil
  BY DEF Tracker, TrackerState
<1>2. r \in Carried /\ ~ r.ready
  BY DEF BlankStatus, Carried, Report
<1> HIDE DEF e, r
<1>3. Good(Send(e, r))
  BY <1>1, <1>2, SendIs DEF Good, Announces, Shines
<1>4. ResetOnDelete(d) = Send(e, r)
  BY DEF ResetOnDelete, e, r
<1>5. QED
  BY <1>3, <1>4

LEMMA HandleFailureIs ==
  ASSUME NEW d, Idle(d)
  PROVE  LET e == HandleFailure(d)
         IN Good(e) /\ e.out # <<>> /\ Head(e.out).ch = "Failed"
<1> DEFINE f == [d EXCEPT !.State = "Failed"]
           r == IF d.lastObject = Nil THEN BlankStatus("Failed") ELSE NewStatus(f, "Failed")
<1>1. d \in Tracker /\ ~ Shines(d)
  BY IdleIs DEF Idle
<1>2. f \in Tracker /\ f.State = "Failed" /\ f.lastObject = d.lastObject /\ f.kind \in Kinds
  BY <1>1 DEF Tracker, TrackerState
<1>3. r \in Carried /\ r.ch = "Failed" /\ ~ r.ready
  <2>1. CASE d.lastObject = Nil
    BY <2>1 DEF BlankStatus, Carried, Report
  <2>2. CASE d.lastObject # Nil
    <3>1. "Failed" \in Channel
      BY DEF Channel
    <3>2. f.lastObject # Nil /\ ~ IsReady(f.lastObject)
      BY <1>1, <1>2, <2>2 DEF Shines
    <3>3. Failed(f)
      BY <1>2, <3>2 DEF Failed
    <3> HIDE DEF f
    <3>4. r \in Report /\ r.ch = "Failed" /\ ~ r.ready /\ r.failed
      BY <1>2, <2>2, <3>1, <3>2, <3>3, StatusIs
    <3>5. QED
      BY <3>4 DEF Carried
  <2>3. QED
    BY <2>1, <2>2
<1>4. HandleFailure(d) = Send(f, r)
  BY DEF HandleFailure
<1> HIDE DEF f, r
<1>5. QED
  BY <1>1, <1>2, <1>3, <1>4, SendIs DEF Good, Announces, Shines

LEMMA PodReportIs ==
  ASSUME NEW d, Idle(d), NEW p \in Pod, NEW ch \in {"AddedPod", "PodError"}
  PROVE  Good(PodReport(d, ch, p))
<1>1. d \in Tracker /\ ~ Shines(d) /\ d.State # "Ready" /\ Good(d)
  BY IdleIs DEF Idle
<1>2. CASE d.lastObject = Nil
  BY <1>1, <1>2 DEF PodReport
<1>3. CASE d.lastObject # Nil
  <2> DEFINE r == [NewStatus(d, ch) EXCEPT !.pod = p]
  <2>1. /\ r \in Report /\ r.ch = ch /\ r.pod = p
        /\ (r.ready <=> IsReady(d.lastObject))
    <3> DEFINE s == NewStatus(d, ch)
    <3>1. /\ s \in Report /\ s.ch = ch
          /\ s.ready = IsReady(d.lastObject) /\ IsReady(d.lastObject) \in BOOLEAN
      BY <1>1, <1>3, StatusIs DEF Channel
    <3> HIDE DEF s
    <3>2. [s EXCEPT !.pod = p] \in Report /\ [s EXCEPT !.pod = p].pod = p
      BY <3>1 DEF Report
    <3>3. [s EXCEPT !.pod = p].ch = s.ch /\ [s EXCEPT !.pod = p].ready = s.ready
      BY <3>1 DEF Report
    <3>4. QED
      BY <3>1, <3>2, <3>3 DEF s
  <2> HIDE DEF r
  <2>2. ~ r.ready /\ r \in Carried
    BY <1>1, <1>3, <2>1 DEF Shines, Carried
  <2>3. Good(Send(d, r))
    BY <1>1, <2>2, SendIs DEF Good, Announces, Shines
  <2>4. QED
    BY <1>3, <2>3 DEF PodReport, r
<1>4. QED
  BY <1>2, <1>3

\* What a handler writes down before it makes its report.
LEMMA StatusKeepsIdle ==
  ASSUME NEW d, Idle(d), NEW p \in Pod, NEW status \in PodStatus
  PROVE  Idle([d EXCEPT !.podStatuses[p] = status])
<1>1. d \in Tracker
  BY DEF Idle
<1>2. [d EXCEPT !.podStatuses[p] = status] \in Tracker
  BY <1>1 DEF Tracker
<1>3. QED
  BY <1>1, <1>2 DEF Idle, Announces, Shines, Tracker

LEMMA RevisionKeepsIdle ==
  ASSUME NEW d, Idle(d), NEW p \in Pod, NEW revision \in Revision
  PROVE  Idle([d EXCEPT !.podRevisions[p] = revision])
<1>1. d \in Tracker
  BY DEF Idle
<1>2. [d EXCEPT !.podRevisions[p] = revision] \in Tracker
  BY <1>1 DEF Tracker
<1>3. QED
  BY <1>1, <1>2 DEF Idle, Announces, Shines, Tracker

LEMMA UntrackingKeepsIdle ==
  ASSUME NEW d, Idle(d), NEW p \in Pod
  PROVE  Idle([d EXCEPT !.TrackedPodsNames = @ \ {p}])
<1>1. d \in Tracker
  BY DEF Idle
<1>2. d.TrackedPodsNames \ {p} \in SUBSET Pod
  BY <1>1 DEF Tracker
<1>3. [d EXCEPT !.TrackedPodsNames = @ \ {p}] \in Tracker
  BY <1>1, <1>2 DEF Tracker
<1>4. QED
  BY <1>1, <1>3 DEF Idle, Announces, Shines, Tracker

LEMMA TrackingKeepsGood ==
  ASSUME NEW d, Good(d), NEW p \in Pod
  PROVE  Good([d EXCEPT !.TrackedPodsNames = @ \cup {p}])
<1>1. d \in Tracker
  BY DEF Good
<1>2. d.TrackedPodsNames \cup {p} \in SUBSET Pod
  BY <1>1 DEF Tracker
<1>3. [d EXCEPT !.TrackedPodsNames = @ \cup {p}] \in Tracker
  BY <1>1, <1>2 DEF Tracker
<1>4. QED
  BY <1>1, <1>3 DEF Good, OneOut, Announces, Shines, Tracker

-----------------------------------------------------------------------------
(***************************************************************************)
(* The readiness task.                                                     *)
(***************************************************************************)

\* What of the task does not concern its errors.
LEMMA SameLedger ==
  ASSUME NEW a, NEW b, Ledger(a), b.errors = a.errors
  PROVE  Ledger(b) /\ \A r \in Resource : ErrorsOf(b, r) = ErrorsOf(a, r)
BY DEF Ledger, Row, ErrorsOf

\* An error takes the next number of its resource, and is a new one.
LEMMA AddErrorIs ==
  ASSUME NEW ts \in ReadinessTaskState, Ledger(ts), NEW r \in Resource
  PROVE  /\ AddError(ts, r) \in ReadinessTaskState /\ Ledger(AddError(ts, r))
         /\ Cardinality(ErrorsOf(ts, r)) \in Nat
         /\ Cardinality(ErrorsOf(AddError(ts, r), r)) = Cardinality(ErrorsOf(ts, r)) + 1
         /\ \A s \in Resource : s # r => ErrorsOf(AddError(ts, r), s) = ErrorsOf(ts, s)
         /\ AddError(ts, r).status = ts.status /\ AddError(ts, r).statuses = ts.statuses
<1> DEFINE n == Cardinality(ErrorsOf(ts, r))
           x == <<r, n>>
           e == AddError(ts, r)
           E == ErrorsOf(ts, r)
<1>1. IsFiniteSet(E) /\ n \in Nat /\ E = {r} \X (0 .. n - 1)
  BY FS_CardinalityType DEF Ledger, Row
<1>2. ts.errors \cup {x} \in SUBSET (Resource \X Nat)
  <2>1. x \in Resource \X Nat
    BY <1>1
  <2>2. ts.errors \in SUBSET (Resource \X Nat)
    BY DEF ReadinessTaskState
  <2> HIDE DEF x
  <2>3. QED
    BY <2>1, <2>2
<1>3. e = [ts EXCEPT !.errors = ts.errors \cup {x}]
  BY DEF AddError
<1>4. /\ e \in ReadinessTaskState /\ e.errors = ts.errors \cup {x}
      /\ e.status = ts.status /\ e.statuses = ts.statuses
  <2> HIDE DEF e, x
  <2>1. QED
    BY <1>2, <1>3 DEF ReadinessTaskState
<1> HIDE DEF e
<1>5. ErrorsOf(e, r) = E \cup {x}
  BY <1>4 DEF ErrorsOf
<1>6. \A s \in Resource : s # r => ErrorsOf(e, s) = ErrorsOf(ts, s)
  BY <1>4 DEF ErrorsOf
<1>7. x \notin E
  BY <1>1
<1>8. IsFiniteSet(E \cup {x}) /\ Cardinality(E \cup {x}) = n + 1
  <2> HIDE DEF x, n
  <2>1. QED
    BY <1>1, <1>7, FS_AddElement DEF n
<1>9. E \cup {x} = {r} \X (0 .. n)
  <2> HIDE DEF n, E
  <2>1. 0 .. n = 0 .. (n - 1) \cup {n}
    BY <1>1
  <2>2. QED
    BY <1>1, <2>1
<1>10. Ledger(e)
  <2>1. Row(e, r)
    <3>1. (n + 1) - 1 = n
      BY <1>1
    <3>2. QED
      BY <1>5, <1>8, <1>9, <3>1 DEF Row
  <2>2. \A s \in Resource : s # r => Row(e, s)
    BY <1>6 DEF Ledger, Row
  <2>3. QED
    BY <2>1, <2>2 DEF Ledger
<1>11. Cardinality(ErrorsOf(e, r)) = n + 1
  BY <1>5, <1>8
<1>12. QED
  BY <1>1, <1>4, <1>6, <1>10, <1>11 DEF e

\* The Pods and the replicas of a report go into the task, and change no status.
LEMMA HandleReplicasIs ==
  ASSUME NEW ts \in ReadinessTaskState, NEW r \in Carried
  PROVE  LET e == HandleReplicas(HandlePods(ts, r), r)
         IN /\ e \in ReadinessTaskState /\ e.errors = ts.errors
            /\ e.status = ts.status /\ e.statuses = ts.statuses
<1> DEFINE ps == r.pods \cup (IF r.ch = "AddedPod" THEN {r.pod} ELSE {})
           h == HandlePods(ts, r)
<1>1. ps \in SUBSET Resource /\ r.replicas \in Nat \cup {Nil}
  BY DEF Carried, Report, Resource
<1>2. ts.vertices \cup ps \in SUBSET Resource /\ ts.edges \cup ps \in SUBSET Resource
  BY <1>1 DEF ReadinessTaskState
<1>3. h = [[ts EXCEPT !.vertices = ts.vertices \cup ps] EXCEPT !.edges = ts.edges \cup ps]
  <2> HIDE DEF ps
  <2>1. AddPods(ts, ps) = [[ts EXCEPT !.vertices = ts.vertices \cup ps] EXCEPT !.edges = ts.edges \cup ps]
    BY DEF AddPods, AddResourceStates, AddDependencies, ReadinessTaskState
  <2>2. QED
    BY <2>1 DEF HandlePods, ps
<1> HIDE DEF ps, h
<1>4. /\ h \in ReadinessTaskState /\ h.errors = ts.errors
      /\ h.status = ts.status /\ h.statuses = ts.statuses
  BY <1>2, <1>3 DEF ReadinessTaskState
<1>5. LET e == HandleReplicas(h, r)
      IN /\ e \in ReadinessTaskState /\ e.errors = ts.errors
         /\ e.status = ts.status /\ e.statuses = ts.statuses
  BY <1>1, <1>4 DEF HandleReplicas, ReadinessTaskState
<1>6. QED
  BY <1>5 DEF h

LEMMA SetReadyIs ==
  ASSUME NEW ts \in ReadinessTaskState
  PROVE  /\ SetReady(ts) \in ReadinessTaskState
         /\ SetReady(ts).errors = ts.errors /\ SetReady(ts).status = "Ready"
<1> DEFINE f == [r \in Resource |-> IF r \in ResourceStates(ts) THEN "Ready" ELSE ts.statuses[r]]
<1>1. f \in [Resource -> ResourceStatus]
  BY DEF ReadinessTaskState, ResourceStatus
<1>2. SetReady(ts) = [ts EXCEPT !.status = "Ready", !.statuses = f]
  BY DEF SetReady
<1> HIDE DEF f
<1>3. QED
  BY <1>1, <1>2 DEF ReadinessTaskState

LEMMA SetRootResourceCreatedIs ==
  ASSUME NEW ts \in ReadinessTaskState
  PROVE  LET e == SetRootResourceCreated(ts)
         IN /\ e \in ReadinessTaskState /\ e.errors = ts.errors /\ e.status = ts.status
            /\ \A r \in Resource : e.statuses[r] # "Ready" \/ e.statuses[r] = ts.statuses[r]
<1> DEFINE f == [ts.statuses EXCEPT ![Root] = "Created"]
<1>1. f \in [Resource -> ResourceStatus] /\ ts.statuses \in [Resource -> ResourceStatus]
  BY DEF ReadinessTaskState, ResourceStatus
<1>2. \A r \in Resource : f[r] # "Ready" \/ f[r] = ts.statuses[r]
  BY <1>1
<1>3. SetRootResourceCreated(ts) = [ts EXCEPT !.statuses = f]
  BY DEF SetRootResourceCreated, SetResourceStatus
<1> HIDE DEF f
<1>4. QED
  BY <1>1, <1>2, <1>3 DEF ReadinessTaskState

\* A task that is open stays so, or fails, with every report but that of success.
LEMMA VerdictIs ==
  ASSUME NEW ts \in ReadinessTaskState
  PROVE  /\ Open(ts) => VerdictOf(ts) \in {"tracking", "failed"}
         /\ ts.status = "Ready" => VerdictOf(ts) = "ready"
<1>1. ts.status = "Ready" => VerdictOf(ts) = "ready"
  BY DEF VerdictOf, Status
<1>2. ASSUME Open(ts)
      PROVE  VerdictOf(ts) \in {"tracking", "failed"}
  <2>1. ts.edges \subseteq Resource
    BY DEF ReadinessTaskState
  <2>2. {r \in ResourceStates(ts) : ts.statuses[r] = "Ready"} = {}
    BY <1>2, <2>1 DEF Open, ResourceStates, Resource
  <2>3. Cardinality({r \in ResourceStates(ts) : ts.statuses[r] = "Ready"}) = 0
    BY <2>2, FS_EmptySet, Zenon
  <2>4. ts.replicas \in Nat
    BY DEF ReadinessTaskState
  <2>5. ~ ReadyCondition(ts)
    <3> DEFINE n == Cardinality({r \in ResourceStates(ts) : ts.statuses[r] = "Ready"})
    <3>1. ReadyCondition(ts) => n >= 1 + ts.replicas
      BY DEF ReadyCondition
    <3> HIDE DEF n
    <3>2. n = 0
      BY <2>3 DEF n
    <3>3. QED
      BY <2>4, <3>1, <3>2
  <2>6. Status(ts) \in {"Failed", "Progressing"}
    BY <1>2, <2>5 DEF Status, Open
  <2>7. QED
    BY <2>6 DEF VerdictOf
<1>3. QED
  BY <1>1, <1>2

LEMMA HandleReportIs ==
  ASSUME NEW ts \in ReadinessTaskState, Ledger(ts), NEW r \in Carried
  PROVE  LET e == HandleReport(ts, r)
         IN /\ e \in ReadinessTaskState /\ Ledger(e)
            /\ Cardinality(ErrorsOf(ts, Root)) \in Nat /\ Cardinality(ErrorsOf(e, Root)) \in Nat
            /\ Cardinality(ErrorsOf(e, Root)) >= Cardinality(ErrorsOf(ts, Root))
            /\ r.ch = "Failed" /\ ~ r.ready =>
                 Cardinality(ErrorsOf(e, Root)) >= Cardinality(ErrorsOf(ts, Root)) + 1
            /\ ~ r.ready /\ Open(ts) => Open(e)
            /\ r.ready => e.status = "Ready"
<1> DEFINE k == HandleReplicas(HandlePods(ts, r), r)
           h == HandleResourceStatus(HandlePods(ts, r), r)
           e == HandleReport(ts, r)
           Errors(x) == Cardinality(ErrorsOf(x, Root))
<1>0. /\ r \in Report /\ r.ready \in BOOLEAN /\ r.failed \in BOOLEAN
      /\ r.ch \in Channel /\ Root \in Resource
      /\ r.ready => r.ch = "Ready"
      /\ r.ch = "Failed" => r.failed
      /\ r.ch = "PodError" => r.pod \in Resource
  BY DEF Carried, Report, Channel, Resource
<1>1. /\ k \in ReadinessTaskState /\ k.errors = ts.errors
      /\ k.status = ts.status /\ k.statuses = ts.statuses
  BY HandleReplicasIs
<1>2. h = CASE r.ready -> SetReady(k)
            [] ~ r.ready /\ r.failed -> AddError(k, Root)
            [] ~ r.ready /\ ~ r.failed -> k
  BY DEF HandleResourceStatus
<1>3. e = CASE r.ch = "Added" -> SetRootResourceCreated(h)
            [] r.ch = "PodError" -> AddError(h, r.pod)
            [] r.ch \in {"Ready", "Failed", "Status", "AddedPod"} -> h
  BY DEF HandleReport
<1> HIDE DEF k, h, e
<1>4. Ledger(k) /\ Errors(k) = Errors(ts) /\ (Open(ts) => Open(k))
  <2>1. Ledger(k) /\ ErrorsOf(k, Root) = ErrorsOf(ts, Root)
    BY <1>0, <1>1, SameLedger
  <2>2. QED
    BY <1>1, <2>1 DEF Open
<1>5. Errors(k) \in Nat
  BY <1>0, <1>1, <1>4, AddErrorIs
<1>6. /\ h \in ReadinessTaskState /\ Ledger(h)
      /\ Errors(h) \in Nat /\ Errors(h) >= Errors(ts)
      /\ r.ch = "Failed" /\ ~ r.ready => Errors(h) >= Errors(ts) + 1
      /\ ~ r.ready /\ Open(ts) => Open(h)
      /\ r.ready => h.status = "Ready"
  <2>1. CASE r.ready
    <3>1. h = SetReady(k)
      BY <1>2, <2>1
    <3>2. h \in ReadinessTaskState /\ h.errors = k.errors /\ h.status = "Ready"
      BY <1>1, <3>1, SetReadyIs
    <3>3. Ledger(h) /\ ErrorsOf(h, Root) = ErrorsOf(k, Root)
      BY <1>0, <1>4, <3>2, SameLedger
    <3>4. QED
      BY <1>0, <1>4, <1>5, <2>1, <3>2, <3>3
  <2>2. CASE ~ r.ready /\ r.failed
    <3>1. h = AddError(k, Root)
      BY <1>2, <2>2
    <3>2. /\ h \in ReadinessTaskState /\ Ledger(h) /\ Errors(h) = Errors(k) + 1
          /\ h.status = k.status /\ h.statuses = k.statuses
      BY <1>0, <1>1, <1>4, <3>1, AddErrorIs
    <3>3. Open(ts) => Open(h)
      BY <1>4, <3>2 DEF Open
    <3>4. QED
      BY <1>4, <1>5, <2>2, <3>2, <3>3
  <2>3. CASE ~ r.ready /\ ~ r.failed
    <3>1. h = k
      BY <1>2, <2>3
    <3>2. QED
      BY <1>0, <1>1, <1>4, <1>5, <2>3, <3>1
  <2>4. QED
    BY <1>0, <2>1, <2>2, <2>3
<1>7. /\ e \in ReadinessTaskState /\ Ledger(e)
      /\ Errors(e) \in Nat /\ Errors(e) >= Errors(h)
      /\ e.status = h.status
      /\ Open(h) => Open(e)
  <2>1. CASE r.ch = "Added"
    <3>1. e = SetRootResourceCreated(h)
      BY <1>3, <2>1
    <3>2. /\ e \in ReadinessTaskState /\ e.errors = h.errors /\ e.status = h.status
          /\ \A s \in Resource : e.statuses[s] # "Ready" \/ e.statuses[s] = h.statuses[s]
      BY <1>6, <3>1, SetRootResourceCreatedIs
    <3>3. Ledger(e) /\ ErrorsOf(e, Root) = ErrorsOf(h, Root)
      BY <1>0, <1>6, <3>2, SameLedger
    <3>4. Open(h) => Open(e)
      BY <3>2 DEF Open
    <3>5. QED
      BY <1>6, <3>2, <3>3, <3>4
  <2>2. CASE r.ch = "PodError"
    <3>1. e = AddError(h, r.pod) /\ r.pod \in Resource
      BY <1>0, <1>3, <2>2
    <3>2. /\ e \in ReadinessTaskState /\ Ledger(e)
          /\ Cardinality(ErrorsOf(e, r.pod)) = Cardinality(ErrorsOf(h, r.pod)) + 1
          /\ \A s \in Resource : s # r.pod => ErrorsOf(e, s) = ErrorsOf(h, s)
          /\ e.status = h.status /\ e.statuses = h.statuses
      BY <1>6, <3>1, AddErrorIs
    <3>3. Errors(e) \in Nat /\ Errors(e) >= Errors(h)
      <4>1. CASE r.pod = Root
        BY <1>6, <3>2, <4>1
      <4>2. CASE r.pod # Root
        BY <1>0, <1>6, <3>2, <4>2
      <4>3. QED
        BY <4>1, <4>2
    <3>4. Open(h) => Open(e)
      BY <3>2 DEF Open
    <3>5. QED
      BY <3>2, <3>3, <3>4
  <2>3. CASE r.ch \in {"Ready", "Failed", "Status", "AddedPod"}
    <3>1. e = h
      BY <1>3, <2>3
    <3>2. QED
      BY <1>6, <3>1
  <2>4. QED
    BY <1>0, <2>1, <2>2, <2>3 DEF Channel
<1> HIDE DEF Errors
<1>8. Errors(ts) \in Nat
  BY <1>4, <1>5
<1>9. /\ Errors(e) >= Errors(ts)
      /\ r.ch = "Failed" /\ ~ r.ready => Errors(e) >= Errors(ts) + 1
  BY <1>6, <1>7, <1>8
<1>10. QED
  BY <1>6, <1>7, <1>8, <1>9 DEF e, Errors

-----------------------------------------------------------------------------
(***************************************************************************)
(* What a step needs to keep the invariant.                                *)
(***************************************************************************)

LEMMA CountsAreNumbers ==
  ASSUME Ledger(task)
  PROVE  RootErrors \in Nat /\ FailedInOut \in {0, 1}
<1>1. IsFiniteSet(ErrorsOf(task, Root))
  BY DEF Ledger, Row, Resource
<1>2. RootErrors \in Nat
  BY <1>1, FS_CardinalityType DEF RootErrors
<1>3. QED
  BY <1>2 DEF FailedInOut

LEMMA PodsStay ==
  ASSUME KnownIsThere, LivePodIsTracked, UNCHANGED <<pods, announced, added, runs>>
  PROVE  KnownIsThere' /\ LivePodIsTracked'
BY DEF KnownIsThere, LivePodIsTracked, Announced

\* A step that charges nothing and takes no report.
LEMMA NothingCharged ==
  ASSUME ControllerInv, UNCHANGED <<failures, t, task>>
  PROVE  ChargesKept
<1>1. RootErrors' = RootErrors /\ FailedInOut' = FailedInOut
  BY DEF RootErrors, ErrorsOf, FailedInOut, Sending
<1>2. RootErrors \in Nat /\ FailedInOut \in {0, 1} /\ failures \in Nat
  BY CountsAreNumbers DEF ControllerInv, ControllerTypeOK, TrackerTypeOK
<1>3. QED
  BY <1>1, <1>2 DEF ChargesKept, FailuresTaken

\* A step of the tracker or of the world, while the consumer waits.
LEMMA TrackerStep ==
  ASSUME ControllerInv, verdict = "tracking", UNCHANGED consumer,
         TrackerTypeOK', OneOut(t'), Announces(t'), KnownIsThere', LivePodIsTracked',
         \/ failures' = failures /\ t.out = <<>>
         \/ failures' = failures /\ t' = t
         \/ failures' = failures + 1 /\ t.out = <<>> /\ FailedInOut' = 1
  PROVE  Kept
<1> USE DEF consumer
<1>1. ControllerTypeOK'
  BY DEF ControllerInv, ControllerTypeOK
<1>2. Queued' /\ Ledger(task)' /\ Open(task)'
  BY DEF ControllerInv, Queued, Ledger, Row, Open, ErrorsOf
<1>3. ChargesKept
  <2>1. RootErrors' = RootErrors
    BY DEF RootErrors, ErrorsOf
  <2>2. RootErrors \in Nat /\ FailedInOut \in {0, 1} /\ FailedInOut' \in {0, 1}
    BY CountsAreNumbers DEF ControllerInv, FailedInOut
  <2>3. failures \in Nat
    BY DEF ControllerInv, ControllerTypeOK, TrackerTypeOK
  <2>4. t.out = <<>> => FailedInOut = 0
    BY DEF FailedInOut, Sending
  <2>5. t' = t => FailedInOut' = FailedInOut
    BY DEF FailedInOut, Sending
  <2> HIDE DEF consumer
  <2>6. 0 >= (failures' - FailedInOut') - (failures - FailedInOut)
    BY <2>2, <2>3, <2>4, <2>5
  <2>7. QED
    BY <2>1, <2>2, <2>6 DEF ChargesKept, FailuresTaken
<1>4. QED
  BY <1>1, <1>2, <1>3 DEF Kept, ControllerInv

\* A handler of the tracker, which can select only with nothing left to say.
LEMMA HandlerStep ==
  ASSUME ControllerInv, verdict = "tracking", UNCHANGED consumer, Selecting,
         TrackerTypeOK', Good(t'), KnownIsThere', LivePodIsTracked',
         \/ failures' = failures
         \/ failures' = failures + 1 /\ t'.out # <<>> /\ Head(t'.out).ch = "Failed"
  PROVE  Kept
<1>1. t.out = <<>>
  BY DEF Selecting
<1>2. t'.out # <<>> /\ Head(t'.out).ch = "Failed" => FailedInOut' = 1
  BY DEF FailedInOut, Sending
<1>3. QED
  BY <1>1, <1>2, TrackerStep DEF Good

LEMMA SelectingIsIdle ==
  ASSUME ControllerInv, verdict = "tracking", Selecting
  PROVE  Idle(t) /\ Good(t)
BY IdleIs DEF ControllerInv, ControllerTypeOK, TrackerTypeOK, Idle, Selecting

-----------------------------------------------------------------------------
(***************************************************************************)
(* The steps of the tracker.                                               *)
(***************************************************************************)

LEMMA HandleResourceKeeps ==
  ASSUME ControllerInv, verdict = "tracking", UNCHANGED consumer,
         NEW kind \in {"Added", "Modified"}, HandleResource(kind)
  PROVE  Kept
<1> USE DEF HandleResource
<1>1. TrackerTypeOK /\ Selecting /\ Idle(t) /\ Good(t)
  BY SelectingIsIdle DEF ControllerInv, ControllerTypeOK
<1>2. Good(t')
  <2>1. buf[kind] \in Objects
    BY <1>1 DEF TrackerTypeOK
  <2>2. QED
    BY <1>1, <2>1, IdleIs, HandleStateIs DEF Idle
<1>3. buf' \in [{"Added", "Modified", "Deleted"} -> Objects \cup {Nil}]
  BY <1>1 DEF TrackerTypeOK
<1>4. CASE UNCHANGED announced
  <2>1. TrackerTypeOK'
    BY <1>1, <1>2, <1>3, <1>4 DEF TrackerTypeOK, Good, cluster, relays
  <2>2. KnownIsThere' /\ LivePodIsTracked'
    BY <1>4, PodsStay DEF ControllerInv, cluster
  <2>3. QED
    BY <1>1, <1>2, <2>1, <2>2, HandlerStep
<1>5. CASE announced' = [p \in Pod |-> Len(pods[p].revisions) - (IF pods[p].live THEN 1 ELSE 0)]
  <2>1. \A p \in Pod : /\ Len(pods[p].revisions) \in Nat
                       /\ pods[p].live \in BOOLEAN
                       /\ pods[p].live => Len(pods[p].revisions) # 0
    BY <1>1 DEF TrackerTypeOK, PodHistory
  <2>2. \A p \in Pod : /\ announced'[p] \in Nat /\ announced'[p] <= Len(pods[p].revisions)
                       /\ pods[p].live => announced'[p] # Len(pods[p].revisions)
    <3>1. TAKE p \in Pod
    <3> DEFINE n == Len(pods[p].revisions)
               there == pods[p].live
    <3>2. n \in Nat /\ there \in BOOLEAN /\ (there => n # 0)
      BY <2>1
    <3>3. announced'[p] = n - (IF there THEN 1 ELSE 0)
      BY <1>5
    <3> HIDE DEF n, there, HandleResource
    <3>4. /\ announced'[p] \in Nat /\ announced'[p] <= n
          /\ there => announced'[p] # n
      <4>1. CASE there
        BY <3>2, <3>3, <4>1
      <4>2. CASE ~ there
        BY <3>2, <3>3, <4>2
      <4>3. QED
        BY <4>1, <4>2
    <3>5. QED
      BY <3>4 DEF n, there
  <2>3. announced' \in [Pod -> Nat \cup {Nil}]
    BY <1>5, <2>2
  <2>4. TrackerTypeOK'
    BY <1>1, <1>2, <1>3, <2>3 DEF TrackerTypeOK, Good, cluster, relays
  <2>5. KnownIsThere' /\ LivePodIsTracked'
    BY <2>2 DEF KnownIsThere, LivePodIsTracked, Announced, cluster
  <2>6. QED
    BY <1>1, <1>2, <2>4, <2>5, HandlerStep
<1>6. QED
  BY <1>4, <1>5 DEF StartInformers

LEMMA HandleResourceDeletedKeeps ==
  ASSUME ControllerInv, verdict = "tracking", UNCHANGED consumer, HandleResourceDeleted
  PROVE  Kept
<1> USE DEF HandleResourceDeleted
<1>1. TrackerTypeOK /\ Selecting /\ t \in Tracker
  BY DEF ControllerInv, ControllerTypeOK, TrackerTypeOK
<1>2. Good(t')
  BY <1>1, ResetOnDeleteIs
<1>3. TrackerTypeOK'
  BY <1>1, <1>2 DEF TrackerTypeOK, Good, podSide, relays
<1>4. KnownIsThere' /\ LivePodIsTracked'
  BY PodsStay DEF ControllerInv, podSide
<1>5. QED
  BY <1>1, <1>2, <1>3, <1>4, HandlerStep

LEMMA HandleResourceFailedKeeps ==
  ASSUME ControllerInv, verdict = "tracking", UNCHANGED consumer, HandleResourceFailed
  PROVE  Kept
<1> USE DEF HandleResourceFailed
<1>1. TrackerTypeOK /\ Selecting /\ Idle(t)
  BY SelectingIsIdle DEF ControllerInv, ControllerTypeOK
<1>2. /\ Good(t') /\ failures' \in Nat
      /\ \/ failures' = failures
         \/ failures' = failures + 1 /\ t'.out # <<>> /\ Head(t'.out).ch = "Failed"
  <2>1. CASE t' = HandleSameState(t) /\ UNCHANGED failures
    BY <1>1, <2>1, HandleSameStateIs DEF TrackerTypeOK
  <2>2. CASE t' = HandleFailure(t) /\ failures' = failures + 1
    BY <1>1, <2>2, HandleFailureIs DEF TrackerTypeOK
  <2>3. QED
    BY <2>1, <2>2
<1>3. TrackerTypeOK'
  BY <1>1, <1>2 DEF TrackerTypeOK, Good, podSide, relays
<1>4. KnownIsThere' /\ LivePodIsTracked'
  BY PodsStay DEF ControllerInv, podSide
<1>5. QED
  BY <1>1, <1>2, <1>3, <1>4, HandlerStep

\* The tracker of the Pod that is announced starts with nothing shown to it.
LEMMA HandlePodAddedKeeps ==
  ASSUME ControllerInv, verdict = "tracking", UNCHANGED consumer, HandlePodAdded
  PROVE  Kept
<1> DEFINE p == Head(added).pod
           known == [t EXCEPT !.podRevisions[p] = Head(added).revision]
           run == [pod |-> p, phase |-> "starting", view |-> 0, last |-> "blank"]
<1>1. TrackerTypeOK /\ Selecting /\ Idle(t)
  BY SelectingIsIdle DEF ControllerInv, ControllerTypeOK, HandlePodAdded
<1>2. /\ added # <<>> /\ added' = Tail(added) /\ runs' = Append(runs, run)
      /\ t' = [PodReport(known, "AddedPod", p) EXCEPT !.TrackedPodsNames = @ \cup {p}]
      /\ UNCHANGED <<cluster, buf, failure, announced, relays, ctxDone, pc, failures>>
  BY DEF HandlePodAdded, RunPodTracker
<1>3. /\ added \in Seq([pod : Pod, revision : Revision])
      /\ Head(added) \in [pod : Pod, revision : Revision]
      /\ added' \in Seq([pod : Pod, revision : Revision])
  BY <1>1, <1>2, HeadAndTail DEF TrackerTypeOK
<1>4. p \in Pod /\ Head(added).revision \in Revision
  BY <1>3
<1>5. runs \in Seq(PodRun) /\ run \in PodRun
  BY <1>1, <1>4 DEF TrackerTypeOK, PodRun, PodStatus
<1> HIDE DEF run
<1>6. /\ runs' \in Seq(PodRun) /\ Len(runs') = Len(runs) + 1 /\ runs'[Len(runs) + 1] = run
      /\ \A i \in DOMAIN runs : i \in DOMAIN runs' /\ runs'[i] = runs[i]
      /\ Len(runs) \in Nat
  BY <1>2, <1>5
<1>7. Good(t')
  <2>1. Idle(known)
    BY <1>1, <1>4, RevisionKeepsIdle
  <2> HIDE DEF known, p
  <2>2. Good(PodReport(known, "AddedPod", p))
    BY <1>4, <2>1, PodReportIs
  <2>3. QED
    BY <1>2, <1>4, <2>2, TrackingKeepsGood
<1>8. TrackerTypeOK'
  BY <1>1, <1>2, <1>3, <1>6, <1>7 DEF TrackerTypeOK, Good, cluster, relays
<1>9. KnownIsThere'
  BY <1>2 DEF ControllerInv, KnownIsThere, cluster
<1>10. LivePodIsTracked'
  <2>1. run.pod = p /\ run.phase = "starting" /\ run.view = 0
    BY DEF run
  <2>2. ASSUME NEW q \in Pod, Announced(q)'
        PROVE  \/ \E i \in DOMAIN added' : added'[i].pod = q
               \/ \E i \in DOMAIN runs' : /\ runs'[i].pod = q
                                          /\ runs'[i].phase \in {"starting", "running"}
                                          /\ runs'[i].view \in {0, announced'[q]}
    <3>1. Announced(q) /\ announced' = announced
      BY <1>2, <2>2 DEF Announced, cluster
    <3>2. \/ \E i \in DOMAIN added : added[i].pod = q
          \/ \E i \in DOMAIN runs : /\ runs[i].pod = q
                                    /\ runs[i].phase \in {"starting", "running"}
                                    /\ runs[i].view \in {0, announced[q]}
      BY <3>1 DEF ControllerInv, LivePodIsTracked
    <3>3. ASSUME NEW i \in DOMAIN added, added[i].pod = q
          PROVE  \/ \E j \in DOMAIN added' : added'[j].pod = q
                 \/ q = p
      <4>1. CASE i = 1
        BY <1>2, <1>3, <3>3, <4>1
      <4>2. CASE i # 1
        <5>1. i \in 2 .. Len(added) /\ Len(added) \in Nat
          BY <1>3, <4>2
        <5>2. i - 1 \in 1 .. Len(added) - 1 /\ (i - 1) + 1 = i
          BY <5>1
        <5>3. i - 1 \in DOMAIN added' /\ added'[i - 1] = added[i]
          BY <1>2, <1>3, <5>2
        <5>4. QED
          BY <3>3, <5>3
      <4>3. QED
        BY <4>1, <4>2
    <3>4. CASE q = p
      <4>1. Len(runs) + 1 \in DOMAIN runs'
        BY <1>6
      <4>2. QED
        BY <1>6, <2>1, <3>4, <4>1
    <3>5. CASE \E i \in DOMAIN runs : /\ runs[i].pod = q
                                      /\ runs[i].phase \in {"starting", "running"}
                                      /\ runs[i].view \in {0, announced[q]}
      BY <1>6, <3>1, <3>5
    <3>6. QED
      BY <3>2, <3>3, <3>4, <3>5
  <2>3. QED
    BY <2>2 DEF LivePodIsTracked
<1>11. QED
  BY <1>1, <1>2, <1>7, <1>8, <1>9, <1>10, HandlerStep

LEMMA HandleDonePodsKeeps ==
  ASSUME ControllerInv, verdict = "tracking", UNCHANGED consumer, HandleDonePods
  PROVE  Kept
<1> DEFINE p == Head(dones).pod
           final == IF p \in t.TrackedPodsNames /\ t.podStatuses[p] # Nil
                      THEN [t EXCEPT !.podStatuses[p] = Head(dones).status] ELSE t
           without == [final EXCEPT !.TrackedPodsNames = @ \ {p}]
<1>1. TrackerTypeOK /\ Selecting /\ Idle(t)
  BY SelectingIsIdle DEF ControllerInv, ControllerTypeOK, HandleDonePods
<1>2. /\ dones # <<>> /\ dones' = Tail(dones) /\ t' = HandleSameState(without)
      /\ UNCHANGED <<cluster, buf, failure, announced, added, runs, statuses, errs, ctxDone,
                     pc, failures>>
  BY DEF HandleDonePods
<1>3. Head(dones) \in Relayed /\ dones' \in Seq(Relayed)
  BY <1>1, <1>2, HeadAndTail DEF TrackerTypeOK
<1>4. p \in Pod /\ Head(dones).status \in PodStatus
  BY <1>3 DEF Relayed
<1>5. Good(t')
  <2>1. Idle(final)
    BY <1>1, <1>4, StatusKeepsIdle
  <2> HIDE DEF final, p
  <2>2. Idle(without)
    BY <1>4, <2>1, UntrackingKeepsIdle
  <2> HIDE DEF without
  <2>3. QED
    BY <1>2, <2>2, HandleSameStateIs
<1>6. TrackerTypeOK'
  BY <1>1, <1>2, <1>3, <1>5 DEF TrackerTypeOK, Good, cluster
<1>7. KnownIsThere' /\ LivePodIsTracked'
  BY <1>2, PodsStay DEF ControllerInv, cluster
<1>8. QED
  BY <1>1, <1>2, <1>5, <1>6, <1>7, HandlerStep

LEMMA HandlePodStatusesKeeps ==
  ASSUME ControllerInv, verdict = "tracking", UNCHANGED consumer, HandlePodStatuses
  PROVE  Kept
<1> USE DEF HandlePodStatuses
<1>1. TrackerTypeOK /\ Selecting /\ Idle(t)
  BY SelectingIsIdle DEF ControllerInv, ControllerTypeOK
<1>2. Head(statuses) \in Relayed /\ statuses' \in Seq(Relayed)
  BY <1>1, HeadAndTail DEF TrackerTypeOK
<1>3. Good(t')
  <2>1. Idle(WithStatus(Head(statuses)))
    BY <1>1, <1>2, StatusKeepsIdle DEF WithStatus, Relayed
  <2>2. QED
    BY <2>1, HandleSameStateIs
<1>4. TrackerTypeOK'
  BY <1>1, <1>2, <1>3 DEF TrackerTypeOK, Good, cluster
<1>5. KnownIsThere' /\ LivePodIsTracked'
  BY PodsStay DEF ControllerInv, cluster
<1>6. QED
  BY <1>1, <1>3, <1>4, <1>5, HandlerStep

LEMMA HandlePodContainerErrorsKeeps ==
  ASSUME ControllerInv, verdict = "tracking", UNCHANGED consumer, HandlePodContainerErrors
  PROVE  Kept
<1> USE DEF HandlePodContainerErrors
<1>1. TrackerTypeOK /\ Selecting /\ Idle(t)
  BY SelectingIsIdle DEF ControllerInv, ControllerTypeOK
<1>2. Head(errs) \in Relayed /\ errs' \in Seq(Relayed)
  BY <1>1, HeadAndTail DEF TrackerTypeOK
<1>3. Good(t')
  <2>1. Idle(WithStatus(Head(errs))) /\ Head(errs).pod \in Pod
    BY <1>1, <1>2, StatusKeepsIdle DEF WithStatus, Relayed
  <2>2. QED
    BY <2>1, PodReportIs
<1>4. TrackerTypeOK'
  BY <1>1, <1>2, <1>3 DEF TrackerTypeOK, Good, cluster
<1>5. KnownIsThere' /\ LivePodIsTracked'
  BY PodsStay DEF ControllerInv, cluster
<1>6. QED
  BY <1>1, <1>3, <1>4, <1>5, HandlerStep

\* Track returns between two handlers, and leaves its error for the consumer.
LEMMA ReturnKeeps ==
  ASSUME ControllerInv, Return, trackErr' \in {"error", "stopped"},
         UNCHANGED <<queue, task, verdict>>
  PROVE  Kept
<1> USE DEF Return
<1>1. ControllerTypeOK'
  BY DEF ControllerInv, ControllerTypeOK, TrackerTypeOK, podSide, relays
<1>2. KnownIsThere' /\ LivePodIsTracked'
  BY PodsStay DEF ControllerInv, podSide
<1>3. ControllerInv'
  BY <1>1, <1>2
     DEF ControllerInv, OneOut, Queued, Ledger, Row, ErrorsOf, Announces, Open, Shines
<1>4. ChargesKept
  BY NothingCharged
<1>5. QED
  BY <1>3, <1>4 DEF Kept

-----------------------------------------------------------------------------
(***************************************************************************)
(* The steps of the cluster.                                               *)
(***************************************************************************)

\* A step that leaves the tracker and its Pods alone.
LEMMA WorldStep ==
  ASSUME ControllerInv, verdict = "tracking", UNCHANGED consumer,
         TrackerTypeOK', UNCHANGED <<failures, t>>, KnownIsThere', LivePodIsTracked'
  PROVE  Kept
<1>1. OneOut(t') /\ Announces(t')
  BY DEF ControllerInv
<1>2. QED
  BY <1>1, TrackerStep

LEMMA ChangeIsCounted ==
  ASSUME changes \in 0 .. MaxChanges, Change
  PROVE  changes' \in 0 .. MaxChanges
<1>1. MaxChanges \in Nat
  BY ControllerConstantsAssumption
<1>2. QED
  BY <1>1 DEF Change

LEMMA ObjectChangesKeep ==
  ASSUME ControllerInv, verdict = "tracking", UNCHANGED consumer,
         ObjectAdded \/ ObjectModified \/ ObjectDeleted
  PROVE  Kept
<1>1. TrackerTypeOK
  BY DEF ControllerInv, ControllerTypeOK
<1>2. /\ object' \in Objects \cup {Nil} /\ Change
      /\ buf' \in [{"Added", "Modified", "Deleted"} -> Objects \cup {Nil}]
  BY <1>1 DEF TrackerTypeOK, ObjectAdded, ObjectModified, ObjectDeleted, ObjectOfKind, Notify
<1>3. UNCHANGED <<failure, podSide, ctxDone, pc, failures, t>>
  BY DEF ObjectAdded, ObjectModified, ObjectDeleted, ObjectChanges
<1>4. changes' \in 0 .. MaxChanges
  BY <1>1, <1>2, ChangeIsCounted DEF TrackerTypeOK
<1>5. TrackerTypeOK'
  BY <1>1, <1>2, <1>3, <1>4 DEF TrackerTypeOK, podSide, relays
<1>6. KnownIsThere' /\ LivePodIsTracked'
  BY <1>3, PodsStay DEF ControllerInv, podSide
<1>7. QED
  BY <1>3, <1>5, <1>6, WorldStep

LEMMA FailureEventKeeps ==
  ASSUME ControllerInv, verdict = "tracking", UNCHANGED consumer, FailureEvent
  PROVE  Kept
<1> USE DEF FailureEvent
<1>1. TrackerTypeOK
  BY DEF ControllerInv, ControllerTypeOK
<1>2. changes' \in 0 .. MaxChanges
  BY <1>1, ChangeIsCounted DEF TrackerTypeOK
<1>3. TrackerTypeOK'
  BY <1>1, <1>2 DEF TrackerTypeOK, podSide, relays
<1>4. KnownIsThere' /\ LivePodIsTracked'
  BY PodsStay DEF ControllerInv, podSide
<1>5. QED
  BY <1>3, <1>4, WorldStep

\* The handler of the Pods informer is behind when a Pod comes back.
LEMMA PodCreatedKeeps ==
  ASSUME ControllerInv, verdict = "tracking", UNCHANGED consumer,
         NEW p \in Pod, PodCreated(p)
  PROVE  Kept
<1>1. TrackerTypeOK
  BY DEF ControllerInv, ControllerTypeOK
<1>2. /\ Change
      /\ UNCHANGED <<object, buf, failure, announced, added, runs, relays, ctxDone, pc,
                     failures, t>>
  BY DEF PodCreated
<1>3. PICK r \in Revision :
        pods' = [pods EXCEPT ![p] = [revisions |-> Append(@.revisions, r), live |-> TRUE]]
  BY DEF PodCreated
<1> DEFINE s == Append(pods[p].revisions, r)
           h == [revisions |-> s, live |-> TRUE]
<1>4. /\ pods[p].revisions \in Seq(Revision) /\ Len(pods[p].revisions) \in Nat
      /\ s \in Seq(Revision) /\ s # <<>> /\ Len(s) = Len(pods[p].revisions) + 1
  <2>1. pods[p].revisions \in Seq(Revision)
    BY <1>1 DEF TrackerTypeOK, PodHistory
  <2>2. QED
    BY <2>1, AppendIs
<1> HIDE DEF s
<1>5. h \in PodHistory /\ h.revisions = s
  BY <1>4 DEF PodHistory
<1>6. pods' = [pods EXCEPT ![p] = h]
  BY <1>3 DEF s
<1> HIDE DEF h
<1>7. /\ pods' \in [Pod -> PodHistory] /\ pods'[p] = h
      /\ \A q \in Pod : q # p => pods'[q] = pods[q]
  BY <1>1, <1>5, <1>6 DEF TrackerTypeOK
<1>8. changes' \in 0 .. MaxChanges
  BY <1>1, <1>2, ChangeIsCounted DEF TrackerTypeOK
<1>9. TrackerTypeOK'
  BY <1>1, <1>2, <1>7, <1>8 DEF TrackerTypeOK, relays
<1>10. announced[p] # Nil => announced[p] < Len(s)
  <2>1. announced[p] # Nil =>
          announced[p] \in Nat /\ announced[p] <= Len(pods[p].revisions)
    BY <1>1 DEF ControllerInv, KnownIsThere, TrackerTypeOK
  <2>2. QED
    BY <1>4, <2>1
<1>11. announced[p] # Nil => announced[p] \in Nat /\ Len(s) \in Nat
  BY <1>1, <1>4 DEF TrackerTypeOK
<1>12. KnownIsThere'
  <2>1. \A q \in Pod : announced'[q] # Nil => announced'[q] <= Len(pods'[q].revisions)
    <3>1. TAKE q \in Pod
    <3>2. CASE q = p
      BY <1>2, <1>5, <1>7, <1>10, <1>11, <3>2
    <3>3. CASE q # p
      BY <1>2, <1>7, <3>3 DEF ControllerInv, KnownIsThere
    <3>4. QED
      BY <3>2, <3>3
  <2>2. QED
    BY <2>1 DEF KnownIsThere
<1>13. LivePodIsTracked'
  <2>1. ASSUME NEW q \in Pod, Announced(q)'
        PROVE  Announced(q) /\ announced'[q] = announced[q]
    <3>1. q # p
      BY <1>2, <1>5, <1>7, <1>10, <1>11, <2>1 DEF Announced
    <3>2. QED
      BY <1>2, <1>7, <2>1, <3>1 DEF Announced
  <2>2. QED
    BY <1>2, <2>1 DEF ControllerInv, LivePodIsTracked
<1>14. QED
  BY <1>2, <1>9, <1>12, <1>13, WorldStep

LEMMA PodGoneKeeps ==
  ASSUME ControllerInv, verdict = "tracking", UNCHANGED consumer,
         NEW p \in Pod, PodGone(p)
  PROVE  Kept
<1>1. TrackerTypeOK
  BY DEF ControllerInv, ControllerTypeOK
<1>2. /\ Change
      /\ UNCHANGED <<object, buf, failure, announced, added, runs, relays, ctxDone, pc,
                     failures, t>>
      /\ pods' = [pods EXCEPT ![p].live = FALSE]
  BY DEF PodGone
<1> DEFINE h == [pods[p] EXCEPT !.live = FALSE]
<1>3. h \in PodHistory /\ h.revisions = pods[p].revisions /\ h.live = FALSE
  BY <1>1 DEF PodHistory, TrackerTypeOK
<1>4. pods' = [pods EXCEPT ![p] = h]
  BY <1>2
<1> HIDE DEF h
<1>5. /\ pods' \in [Pod -> PodHistory] /\ pods'[p] = h
      /\ \A q \in Pod : q # p => pods'[q] = pods[q]
  BY <1>1, <1>3, <1>4 DEF TrackerTypeOK
<1>6. changes' \in 0 .. MaxChanges
  BY <1>1, <1>2, ChangeIsCounted DEF TrackerTypeOK
<1>7. TrackerTypeOK'
  BY <1>1, <1>2, <1>5, <1>6 DEF TrackerTypeOK, relays
<1>8. KnownIsThere'
  BY <1>2, <1>3, <1>5 DEF ControllerInv, KnownIsThere
<1>9. LivePodIsTracked'
  <2>1. ASSUME NEW q \in Pod, Announced(q)'
        PROVE  Announced(q) /\ announced'[q] = announced[q]
    <3>1. q # p
      BY <1>3, <1>5, <2>1 DEF Announced
    <3>2. QED
      BY <1>2, <1>5, <2>1, <3>1 DEF Announced
  <2>2. QED
    BY <1>2, <2>1 DEF ControllerInv, LivePodIsTracked
<1>10. QED
  BY <1>2, <1>7, <1>8, <1>9, WorldStep

\* The Pod that is announced waits in podAddedRelay for its tracker.
LEMMA PodAnnouncedKeeps ==
  ASSUME ControllerInv, verdict = "tracking", UNCHANGED consumer,
         NEW p \in Pod, PodAnnounced(p)
  PROVE  Kept
<1> DEFINE n == announced[p] + 1
           x == [pod |-> p, revision |-> pods[p].revisions[announced'[p]]]
<1>1. TrackerTypeOK
  BY DEF ControllerInv, ControllerTypeOK
<1>2. /\ announced[p] # Nil /\ announced[p] < Len(pods[p].revisions) /\ added = <<>>
      /\ announced' = [announced EXCEPT ![p] = n] /\ added' = <<x>>
      /\ UNCHANGED <<cluster, buf, failure, runs, relays, ctxDone, pc, failures, t>>
  BY DEF PodAnnounced
<1>3. announced[p] \in Nat /\ announced \in [Pod -> Nat \cup {Nil}]
  BY <1>1, <1>2 DEF TrackerTypeOK
<1>4. pods[p].revisions \in Seq(Revision) /\ Len(pods[p].revisions) \in Nat
  BY <1>1 DEF TrackerTypeOK, PodHistory
<1>5. n \in Nat /\ n # Nil /\ n \in 1 .. Len(pods[p].revisions)
  BY <1>2, <1>3, <1>4, ControllerConstantsAssumption
<1> HIDE DEF n
<1>6. /\ announced' \in [Pod -> Nat \cup {Nil}] /\ announced'[p] = n
      /\ \A q \in Pod : q # p => announced'[q] = announced[q]
  BY <1>2, <1>3, <1>5
<1>7. x \in [pod : Pod, revision : Revision] /\ x.pod = p
  BY <1>4, <1>5, <1>6
<1> HIDE DEF x
<1>8. added' \in Seq([pod : Pod, revision : Revision]) /\ DOMAIN added' = {1} /\ added'[1] = x
  BY <1>2, <1>7
<1>9. TrackerTypeOK'
  BY <1>1, <1>2, <1>6, <1>8 DEF TrackerTypeOK, cluster, relays
<1>10. KnownIsThere'
  <2>1. \A q \in Pod : announced'[q] # Nil => announced'[q] <= Len(pods'[q].revisions)
    <3>1. TAKE q \in Pod
    <3>2. CASE q = p
      BY <1>2, <1>5, <1>6, <3>2 DEF cluster
    <3>3. CASE q # p
      BY <1>2, <1>6, <3>3 DEF ControllerInv, KnownIsThere, cluster
    <3>4. QED
      BY <3>2, <3>3
  <2>2. QED
    BY <2>1 DEF KnownIsThere
<1>11. LivePodIsTracked'
  <2>1. ASSUME NEW q \in Pod, Announced(q)'
        PROVE  \/ \E i \in DOMAIN added' : added'[i].pod = q
               \/ \E i \in DOMAIN runs' : /\ runs'[i].pod = q
                                          /\ runs'[i].phase \in {"starting", "running"}
                                          /\ runs'[i].view \in {0, announced'[q]}
    <3>1. CASE q = p
      BY <1>7, <1>8, <3>1
    <3>2. CASE q # p
      <4>1. Announced(q) /\ announced'[q] = announced[q]
        BY <1>2, <1>6, <2>1, <3>2 DEF Announced, cluster
      <4>2. ~ \E i \in DOMAIN added : added[i].pod = q
        BY <1>2
      <4>3. \E i \in DOMAIN runs : /\ runs[i].pod = q
                                   /\ runs[i].phase \in {"starting", "running"}
                                   /\ runs[i].view \in {0, announced[q]}
        BY <4>1, <4>2 DEF ControllerInv, LivePodIsTracked
      <4>4. QED
        BY <1>2, <4>1, <4>3
    <3>3. QED
      BY <3>1, <3>2
  <2>2. QED
    BY <2>1 DEF LivePodIsTracked
<1>12. QED
  BY <1>2, <1>9, <1>10, <1>11, WorldStep

-----------------------------------------------------------------------------
(***************************************************************************)
(* The steps of the trackers of Pods.                                      *)
(***************************************************************************)

LEMMA PodRunIs ==
  ASSUME runs \in Seq(PodRun), NEW i \in DOMAIN runs
  PROVE  /\ runs[i] \in PodRun
         /\ runs[i].pod \in Pod /\ runs[i].last \in PodStatus /\ runs[i].view \in Nat
         /\ runs[i].phase \in {"starting", "running", "cancelled", "done"}
<1>1. runs[i] \in PodRun
  OBVIOUS
<1>2. QED
  BY <1>1 DEF PodRun

\* A record that is rewritten field by field.
LEMMA PodRunBecomes ==
  ASSUME NEW x \in PodRun, NEW run \in PodRun
  PROVE  run.pod = x.pod =>
           [[[x EXCEPT !.view = run.view] EXCEPT !.last = run.last] EXCEPT !.phase = run.phase] = run
<1> DEFINE a == [x EXCEPT !.view = run.view]
           b == [a EXCEPT !.last = run.last]
           y == [b EXCEPT !.phase = run.phase]
<1>1. a \in PodRun /\ a.pod = x.pod /\ a.view = run.view
  BY DEF PodRun
<1> HIDE DEF a
<1>2. b \in PodRun /\ b.pod = x.pod /\ b.view = run.view /\ b.last = run.last
  BY <1>1 DEF PodRun
<1> HIDE DEF b
<1>3. /\ y \in PodRun /\ y.pod = x.pod /\ y.view = run.view /\ y.last = run.last
      /\ y.phase = run.phase
  BY <1>2 DEF PodRun
<1> HIDE DEF y
<1>4. run.pod = x.pod => y = run
  BY <1>3 DEF PodRun
<1>5. QED
  BY <1>4 DEF a, b, y

LEMMA RelayIs ==
  ASSUME runs \in Seq(PodRun), NEW i \in DOMAIN runs,
         NEW relay \in Seq(Relayed), NEW s \in PodStatus
  PROVE  Relay(relay, i, s) \subseteq Seq(Relayed)
<1>1. runs[i] \in PodRun
  BY PodRunIs
<1>2. [pod |-> runs[i].pod, status |-> s] \in Relayed
  BY <1>1 DEF PodRun, Relayed
<1>3. Append(relay, [pod |-> runs[i].pod, status |-> s]) \in Seq(Relayed)
  BY <1>2, AppendIs
<1>4. QED
  BY <1>3 DEF Relay

LEMMA RunIs ==
  ASSUME runs \in Seq(PodRun), NEW i \in DOMAIN runs, NEW run \in PodRun,
         runs' = [runs EXCEPT ![i] = run]
  PROVE  /\ runs' \in Seq(PodRun) /\ DOMAIN runs' = DOMAIN runs /\ runs'[i] = run
         /\ \A j \in DOMAIN runs : j # i => runs'[j] = runs[j]
OBVIOUS

\* The tracker of a Pod that takes a step is as good as before for the Pod that is
\* there, if there is one.
LEMMA RunStep ==
  ASSUME ControllerInv, UNCHANGED <<pods, announced, added>>,
         NEW i \in DOMAIN runs, NEW run \in PodRun, runs' = [runs EXCEPT ![i] = run],
         run.pod = runs[i].pod,
         /\ Announced(run.pod)
         /\ runs[i].phase \in {"starting", "running"}
         /\ runs[i].view \in {0, announced[run.pod]}
         => /\ run.phase \in {"starting", "running"}
            /\ run.view \in {0, announced[run.pod]}
  PROVE  runs' \in Seq(PodRun) /\ KnownIsThere' /\ LivePodIsTracked'
<1>1. runs \in Seq(PodRun)
  BY DEF ControllerInv, ControllerTypeOK, TrackerTypeOK
<1>2. /\ runs' \in Seq(PodRun) /\ DOMAIN runs' = DOMAIN runs /\ runs'[i] = run
      /\ \A j \in DOMAIN runs : j # i => runs'[j] = runs[j]
  BY <1>1, RunIs
<1>3. KnownIsThere'
  BY DEF ControllerInv, KnownIsThere
<1>4. ASSUME NEW q \in Pod, Announced(q)'
      PROVE  \/ \E j \in DOMAIN added' : added'[j].pod = q
             \/ \E j \in DOMAIN runs' : /\ runs'[j].pod = q
                                        /\ runs'[j].phase \in {"starting", "running"}
                                        /\ runs'[j].view \in {0, announced'[q]}
  <2>1. Announced(q)
    BY <1>4 DEF Announced
  <2>2. \/ \E j \in DOMAIN added : added[j].pod = q
        \/ \E j \in DOMAIN runs : /\ runs[j].pod = q
                                  /\ runs[j].phase \in {"starting", "running"}
                                  /\ runs[j].view \in {0, announced[q]}
    BY <2>1 DEF ControllerInv, LivePodIsTracked
  <2>3. ASSUME NEW j \in DOMAIN runs, runs[j].pod = q,
               runs[j].phase \in {"starting", "running"}, runs[j].view \in {0, announced[q]}
        PROVE  /\ j \in DOMAIN runs' /\ runs'[j].pod = q
               /\ runs'[j].phase \in {"starting", "running"}
               /\ runs'[j].view \in {0, announced'[q]}
    BY <1>2, <2>1, <2>3
  <2>4. QED
    BY <2>2, <2>3
<1>5. QED
  BY <1>2, <1>3, <1>4 DEF LivePodIsTracked

LEMMA HandlePodStateKeeps ==
  ASSUME ControllerInv, verdict = "tracking", UNCHANGED consumer,
         NEW i \in DOMAIN runs, HandlePodState(i)
  PROVE  Kept
<1> DEFINE p == runs[i].pod
           latest == Len(pods[p].revisions)
           phase == IF runs[i].phase = "starting" THEN "running" ELSE runs[i].phase
           run == [pod |-> p, phase |-> phase, view |-> latest, last |-> "named"]
<1>1. TrackerTypeOK /\ runs \in Seq(PodRun)
  BY DEF ControllerInv, ControllerTypeOK, TrackerTypeOK
<1>2. /\ runs[i].view \in {0, latest}
      /\ IF runs[i].view = latest THEN Change ELSE UNCHANGED changes
      /\ runs' = [runs EXCEPT ![i].view = latest, ![i].last = "named", ![i].phase = phase]
      /\ statuses' \in Relay(statuses, i, "named")
      /\ errs' \in {errs} \cup Relay(errs, i, "named")
      /\ UNCHANGED dones
      /\ UNCHANGED <<object, pods, buf, failure, announced, added, ctxDone, pc, failures, t>>
  BY <1>1 DEF HandlePodState, PodRunSteps
<1>3. /\ runs[i] \in PodRun /\ p \in Pod
      /\ phase \in {"starting", "running", "cancelled", "done"}
  BY <1>1, PodRunIs
<1>4. latest \in Nat
  BY <1>1, <1>3 DEF TrackerTypeOK, PodHistory
<1> HIDE DEF latest
<1>5. run \in PodRun /\ run.pod = p /\ run.phase = phase /\ run.view = latest
  BY <1>3, <1>4 DEF PodRun, PodStatus
<1>6. runs' = [runs EXCEPT ![i] = run]
  <2> DEFINE a == [runs[i] EXCEPT !.view = latest]
             b == [a EXCEPT !.last = "named"]
             y == [b EXCEPT !.phase = phase]
  <2>1. run.pod = runs[i].pod /\ run.view = latest /\ run.last = "named" /\ run.phase = phase
    OBVIOUS
  <2>2. run \in PodRun
    BY <1>5
  <2> HIDE DEF run, phase
  <2>3. y = run
    BY <1>3, <2>1, <2>2, PodRunBecomes
  <2>4. [runs EXCEPT ![i].view = latest] = [runs EXCEPT ![i] = a]
    BY <1>1
  <2>5. [runs EXCEPT ![i].view = latest, ![i].last = "named"] = [runs EXCEPT ![i] = b]
    BY <1>1, <2>4
  <2>6. runs' = [runs EXCEPT ![i] = y]
    BY <1>1, <1>2, <2>5
  <2>7. QED
    BY <2>3, <2>6
<1>7. /\ Announced(p) => announced[p] = latest
      /\ runs[i].phase \in {"starting", "running"} => phase \in {"starting", "running"}
      /\ p = runs[i].pod
  BY DEF Announced, latest
<1> HIDE DEF run, phase, p
<1>8. runs' \in Seq(PodRun) /\ KnownIsThere' /\ LivePodIsTracked'
  <2>1. run \in PodRun /\ run.pod = runs[i].pod
    BY <1>5, <1>7
  <2>2. /\ Announced(run.pod)
        /\ runs[i].phase \in {"starting", "running"}
        /\ runs[i].view \in {0, announced[run.pod]}
        => /\ run.phase \in {"starting", "running"}
           /\ run.view \in {0, announced[run.pod]}
    BY <1>5, <1>7
  <2>3. UNCHANGED <<pods, announced, added>>
    BY <1>2
  <2>4. QED
    BY <1>6, <2>1, <2>2, <2>3, RunStep
<1>9. statuses' \in Seq(Relayed) /\ errs' \in Seq(Relayed)
  BY <1>1, <1>2, RelayIs DEF TrackerTypeOK, PodStatus
<1>10. changes' \in 0 .. MaxChanges
  BY <1>1, <1>2, ChangeIsCounted DEF TrackerTypeOK
<1>11. TrackerTypeOK'
  BY <1>1, <1>2, <1>8, <1>9, <1>10 DEF TrackerTypeOK
<1>12. QED
  BY <1>2, <1>8, <1>11, WorldStep

\* A tracker that has been shown the Pod that is there does not see it deleted.
LEMMA HandlePodDeletedKeeps ==
  ASSUME ControllerInv, verdict = "tracking", UNCHANGED consumer,
         NEW i \in DOMAIN runs, HandlePodDeleted(i)
  PROVE  Kept
<1> DEFINE p == runs[i].pod
           run == [pod |-> p, phase |-> "cancelled", view |-> 0, last |-> "blank"]
<1>1. TrackerTypeOK /\ runs \in Seq(PodRun)
  BY DEF ControllerInv, ControllerTypeOK, TrackerTypeOK
<1>2. /\ runs[i].view # 0
      /\ pods[p].live => runs[i].view < Len(pods[p].revisions)
      /\ runs' = [runs EXCEPT ![i].view = 0, ![i].last = "blank", ![i].phase = "cancelled"]
      /\ statuses' \in Relay(statuses, i, "blank")
      /\ UNCHANGED <<errs, dones, changes>>
      /\ UNCHANGED <<object, pods, buf, failure, announced, added, ctxDone, pc, failures, t>>
  BY DEF HandlePodDeleted, PodRunSteps
<1>3. runs[i] \in PodRun /\ p \in Pod
  BY <1>1, PodRunIs
<1>4. run \in PodRun /\ run.pod = p
  BY <1>3 DEF PodRun, PodStatus
<1>5. runs' = [runs EXCEPT ![i] = run]
  <2> DEFINE a == [runs[i] EXCEPT !.view = 0]
             b == [a EXCEPT !.last = "blank"]
             y == [b EXCEPT !.phase = "cancelled"]
  <2>1. run.pod = runs[i].pod /\ run.view = 0 /\ run.last = "blank" /\ run.phase = "cancelled"
    OBVIOUS
  <2>2. run \in PodRun
    BY <1>4
  <2> HIDE DEF run
  <2>3. y = run
    BY <1>3, <2>1, <2>2, PodRunBecomes
  <2>4. [runs EXCEPT ![i].view = 0] = [runs EXCEPT ![i] = a]
    BY <1>1
  <2>5. [runs EXCEPT ![i].view = 0, ![i].last = "blank"] = [runs EXCEPT ![i] = b]
    BY <1>1, <2>4
  <2>6. runs' = [runs EXCEPT ![i] = y]
    BY <1>1, <1>2, <2>5
  <2>7. QED
    BY <2>3, <2>6
<1>6. ~ (Announced(p) /\ runs[i].view \in {0, announced[p]})
  <2>1. Len(pods[p].revisions) \in Nat
    BY <1>1, <1>3 DEF TrackerTypeOK, PodHistory
  <2>2. QED
    BY <1>2, <2>1 DEF Announced
<1> HIDE DEF run
<1>7. runs' \in Seq(PodRun) /\ KnownIsThere' /\ LivePodIsTracked'
  BY <1>2, <1>4, <1>5, <1>6, RunStep
<1>8. statuses' \in Seq(Relayed)
  BY <1>1, <1>2, RelayIs DEF TrackerTypeOK, PodStatus
<1>9. TrackerTypeOK'
  BY <1>1, <1>2, <1>7, <1>8 DEF TrackerTypeOK
<1>10. QED
  BY <1>2, <1>7, <1>9, WorldStep

LEMMA HandleProbeEventKeeps ==
  ASSUME ControllerInv, verdict = "tracking", UNCHANGED consumer,
         NEW i \in DOMAIN runs, HandleProbeEvent(i)
  PROVE  Kept
<1> USE DEF HandleProbeEvent, PodRunSteps
<1>1. TrackerTypeOK /\ runs[i].last \in PodStatus
  BY PodRunIs DEF ControllerInv, ControllerTypeOK, TrackerTypeOK
<1>2. errs' \in Seq(Relayed)
  BY <1>1, RelayIs DEF TrackerTypeOK
<1>3. changes' \in 0 .. MaxChanges
  BY <1>1, ChangeIsCounted DEF TrackerTypeOK
<1>4. TrackerTypeOK'
  BY <1>1, <1>2, <1>3 DEF TrackerTypeOK
<1>5. KnownIsThere' /\ LivePodIsTracked'
  BY PodsStay DEF ControllerInv
<1>6. QED
  BY <1>4, <1>5, WorldStep

LEMMA StartReturnsKeeps ==
  ASSUME ControllerInv, verdict = "tracking", UNCHANGED consumer,
         NEW i \in DOMAIN runs, StartReturns(i)
  PROVE  Kept
<1> DEFINE run == [runs[i] EXCEPT !.phase = "done"]
<1>1. TrackerTypeOK /\ runs \in Seq(PodRun) /\ runs[i] \in PodRun
  BY DEF ControllerInv, ControllerTypeOK, TrackerTypeOK
<1>2. /\ runs[i].phase = "cancelled"
      /\ runs' = [runs EXCEPT ![i] = run]
      /\ dones' \in Relay(dones, i, runs[i].last)
      /\ UNCHANGED <<statuses, errs, changes>>
      /\ UNCHANGED <<object, pods, buf, failure, announced, added, ctxDone, pc, failures, t>>
  BY DEF StartReturns, PodRunSteps
<1>3. run \in PodRun /\ run.pod = runs[i].pod /\ runs[i].last \in PodStatus
  BY <1>1 DEF PodRun
<1> HIDE DEF run
<1>4. runs' \in Seq(PodRun) /\ KnownIsThere' /\ LivePodIsTracked'
  BY <1>2, <1>3, RunStep
<1>5. dones' \in Seq(Relayed)
  BY <1>1, <1>2, <1>3, RelayIs DEF TrackerTypeOK
<1>6. TrackerTypeOK'
  BY <1>1, <1>2, <1>4, <1>5 DEF TrackerTypeOK
<1>7. QED
  BY <1>2, <1>4, <1>6, WorldStep

-----------------------------------------------------------------------------
(***************************************************************************)
(* The steps of the consumer, and of the channels before it.               *)
(***************************************************************************)

\* A report of success ends the tracking; a report of a failure is charged.
LEMMA ConsumeIs ==
  ASSUME ControllerInv, verdict = "tracking", NEW r \in Carried, Consume(r)
  PROVE  /\ task' \in ReadinessTaskState /\ Ledger(task)'
         /\ verdict' \in {"tracking", "ready", "failed", "panic"}
         /\ verdict' = "ready" => r.ready
         /\ verdict' = "tracking" =>
              /\ ~ r.ready /\ Open(task)'
              /\ RootErrors \in Nat /\ RootErrors' \in Nat /\ RootErrors' >= RootErrors
              /\ r.ch = "Failed" => RootErrors' >= RootErrors + 1
<1>1. task \in ReadinessTaskState /\ Ledger(task) /\ Open(task)
  BY DEF ControllerInv, ControllerTypeOK
<1>2. CASE verdict' = "panic" /\ UNCHANGED task
  BY <1>1, <1>2 DEF Ledger, Row, ErrorsOf
<1>3. CASE task' = HandleReport(task, r) /\ verdict' = VerdictOf(task')
  <2> DEFINE e == HandleReport(task, r)
  <2>1. /\ e \in ReadinessTaskState /\ Ledger(e)
        /\ Cardinality(ErrorsOf(task, Root)) \in Nat /\ Cardinality(ErrorsOf(e, Root)) \in Nat
        /\ Cardinality(ErrorsOf(e, Root)) >= Cardinality(ErrorsOf(task, Root))
        /\ r.ch = "Failed" /\ ~ r.ready =>
             Cardinality(ErrorsOf(e, Root)) >= Cardinality(ErrorsOf(task, Root)) + 1
        /\ ~ r.ready /\ Open(task) => Open(e)
        /\ r.ready => e.status = "Ready"
    BY <1>1, HandleReportIs
  <2> HIDE DEF e
  <2>2. task' = e /\ verdict' = VerdictOf(e)
    BY <1>3 DEF e
  <2>3. Ledger(task)' /\ (Open(e) => Open(task)')
    BY <2>1, <2>2 DEF Ledger, Row, ErrorsOf, Open
  <2>4. RootErrors = Cardinality(ErrorsOf(task, Root)) /\ RootErrors' = Cardinality(ErrorsOf(e, Root))
    BY <2>2 DEF RootErrors, ErrorsOf
  <2>5. CASE r.ready
    <3>1. verdict' = "ready"
      BY <2>1, <2>2, <2>5, VerdictIs
    <3>2. QED
      BY <2>1, <2>2, <2>3, <2>5, <3>1
  <2>6. CASE ~ r.ready
    <3>1. Open(e)
      BY <1>1, <2>1, <2>6
    <3>2. verdict' \in {"tracking", "failed"}
      BY <2>1, <2>2, <3>1, VerdictIs
    <3>3. QED
      BY <2>1, <2>2, <2>3, <2>4, <2>6, <3>1, <3>2
  <2>7. QED
    BY <2>5, <2>6
<1>4. QED
  BY <1>2, <1>3 DEF Consume

\* What is in the send.
LEMMA SendingIs ==
  ASSUME ControllerInv, t.out # <<>>
  PROVE  /\ Head(t.out) \in Carried /\ t.out = <<Head(t.out)>>
         /\ Head(t.out).ch \in Channel
BY DEF ControllerInv, OneOut, Carried, Report, Channel

LEMMA SentIs ==
  ASSUME ControllerInv, Sent
  PROVE  /\ TrackerTypeOK' /\ KnownIsThere' /\ LivePodIsTracked'
         /\ OneOut(t') /\ t'.out = <<>> /\ FailedInOut' = 0 /\ failures' = failures
         /\ verdict = "tracking" /\ ~ Head(t.out).ready => Announces(t')
<1>1. TrackerTypeOK /\ t \in Tracker
  BY DEF ControllerInv, ControllerTypeOK, TrackerTypeOK
<1>2. /\ t' = [t EXCEPT !.out = <<>>]
      /\ UNCHANGED <<object, buf, failure, podSide, changes, ctxDone, pc, failures>>
  BY DEF Sent
<1>3. <<>> \in Seq(Report)
  OBVIOUS
<1>4. /\ t' \in Tracker /\ t'.out = <<>> /\ t'.State = t.State
      /\ t'.lastObject = t.lastObject
  BY <1>1, <1>2, <1>3 DEF Tracker
<1>5. TrackerTypeOK'
  BY <1>1, <1>2, <1>4 DEF TrackerTypeOK, podSide, relays
<1>6. KnownIsThere' /\ LivePodIsTracked'
  BY <1>2, PodsStay DEF ControllerInv, podSide
<1>7. FailedInOut' = 0 /\ OneOut(t')
  BY <1>4 DEF FailedInOut, Sending, OneOut
<1>8. ASSUME verdict = "tracking", ~ Head(t.out).ready
      PROVE  Announces(t')
  <2>1. Announces(t)
    BY <1>8 DEF ControllerInv
  <2>2. QED
    BY <1>4, <1>8, <2>1 DEF Announces, Shines
<1>9. QED
  BY <1>2, <1>4, <1>5, <1>6, <1>7, <1>8

\* What of the invariant the queues are about.
Queues ==
  /\ queue \in [Buffered -> Seq(Report)]
  /\ \A ch \in Buffered : Len(queue[ch]) <= Capacity[ch]
  /\ Queued

LEMMA QueueGrows ==
  ASSUME Queues, NEW ch \in Buffered, NEW r \in Carried, r.ch = ch,
         Len(queue[ch]) < Capacity[ch], queue' = [queue EXCEPT ![ch] = Append(@, r)]
  PROVE  Queues'
<1> DEFINE S == {x \in Carried : x.ch = ch}
           q == Append(queue[ch], r)
<1>1. queue[ch] \in Seq(S) /\ r \in S /\ queue \in [Buffered -> Seq(Report)]
  BY DEF Queues, Queued
<1>2. Capacity[ch] \in Nat
  BY ControllerReadinessAssumption
<1>3. q \in Seq(S) /\ Len(q) = Len(queue[ch]) + 1 /\ Len(queue[ch]) \in Nat
  BY <1>1, AppendIs
<1>4. Len(q) <= Capacity[ch]
  BY <1>2, <1>3
<1>5. r \in Report /\ queue[ch] \in Seq(Report)
  BY <1>1 DEF Carried
<1>6. q \in Seq(Report)
  BY <1>5, AppendIs
<1> HIDE DEF q
<1>7. /\ queue' \in [Buffered -> Seq(Report)] /\ queue'[ch] = q
      /\ \A c \in Buffered : c # ch => queue'[c] = queue[c]
  BY <1>1, <1>6 DEF q
<1>8. \A c \in Buffered : Len(queue'[c]) <= Capacity[c]
  BY <1>4, <1>7 DEF Queues
<1>9. Queued'
  BY <1>3, <1>7 DEF Queues, Queued
<1>10. QED
  BY <1>7, <1>8, <1>9 DEF Queues

LEMMA QueueShrinks ==
  ASSUME Queues, NEW ch \in Buffered, queue[ch] # <<>>,
         queue' = [queue EXCEPT ![ch] = Tail(@)]
  PROVE  /\ Queues'
         /\ Head(queue[ch]) \in Carried /\ Head(queue[ch]).ch = ch
<1> DEFINE S == {x \in Carried : x.ch = ch}
           q == Tail(queue[ch])
<1>1. queue[ch] \in Seq(S) /\ queue \in [Buffered -> Seq(Report)]
  BY DEF Queues, Queued
<1>2. Capacity[ch] \in Nat
  BY ControllerReadinessAssumption
<1>3. Head(queue[ch]) \in S /\ q \in Seq(S)
  BY <1>1, HeadAndTail
<1>4. q \in Seq(Report)
  BY <1>1, HeadAndTail
<1>5. Len(q) <= Len(queue[ch]) /\ Len(q) \in Nat /\ Len(queue[ch]) \in Nat
  <2>1. Len(queue[ch]) \in Nat /\ Len(queue[ch]) # 0 /\ Len(q) = Len(queue[ch]) - 1
    BY <1>1
  <2> HIDE DEF q
  <2>2. QED
    BY <2>1
<1>6. Len(queue[ch]) <= Capacity[ch]
  BY DEF Queues
<1>7. Len(q) <= Capacity[ch]
  BY <1>2, <1>5, <1>6
<1> HIDE DEF q
<1>8. /\ queue' \in [Buffered -> Seq(Report)] /\ queue'[ch] = q
      /\ \A c \in Buffered : c # ch => queue'[c] = queue[c]
  BY <1>1, <1>4 DEF q
<1>9. \A c \in Buffered : Len(queue'[c]) <= Capacity[c]
  BY <1>7, <1>8 DEF Queues
<1>10. Queued'
  BY <1>3, <1>8 DEF Queues, Queued
<1>11. QED
  BY <1>3, <1>8, <1>9, <1>10 DEF Queues

LEMMA EnqueueKeeps ==
  ASSUME ControllerInv, verdict = "tracking", NEW ch \in Buffered, Enqueue(ch)
  PROVE  Kept
<1> DEFINE r == Head(t.out)
<1>1. /\ t.out # <<>> /\ r.ch = ch /\ Len(queue[ch]) < Capacity[ch]
      /\ queue' = [queue EXCEPT ![ch] = Append(@, r)]
      /\ Sent /\ UNCHANGED <<trackErr, task, verdict>>
  BY DEF Enqueue, Sending
<1>2. r \in Carried
  BY <1>1, SendingIs
<1>3. ~ r.ready /\ ch # "Failed"
  BY <1>1, <1>2 DEF Carried, Buffered
<1>4. Queues'
  BY <1>1, <1>2, QueueGrows DEF Queues, ControllerInv, ControllerTypeOK
<1>5. /\ TrackerTypeOK' /\ KnownIsThere' /\ LivePodIsTracked' /\ OneOut(t')
      /\ FailedInOut' = 0 /\ failures' = failures /\ Announces(t')
  BY <1>1, <1>3, SentIs
<1>6. ControllerTypeOK'
  BY <1>1, <1>4, <1>5 DEF ControllerInv, ControllerTypeOK, Queues
<1>7. Ledger(task)' /\ Open(task)'
  BY <1>1 DEF ControllerInv, Ledger, Row, ErrorsOf, Open
<1>8. ChargesKept
  <2>1. FailedInOut = 0
    BY <1>1, <1>3 DEF FailedInOut, Sending
  <2>2. RootErrors' = RootErrors
    BY <1>1 DEF RootErrors, ErrorsOf
  <2>3. RootErrors \in Nat /\ failures \in Nat
    BY CountsAreNumbers DEF ControllerInv, ControllerTypeOK, TrackerTypeOK
  <2>4. QED
    BY <1>5, <2>1, <2>2, <2>3 DEF ChargesKept, FailuresTaken
<1>9. QED
  BY <1>4, <1>5, <1>6, <1>7, <1>8 DEF Kept, ControllerInv, Queues

LEMMA ConsumeBufferedKeeps ==
  ASSUME ControllerInv, NEW ch \in Buffered, ConsumeBuffered(ch)
  PROVE  Kept /\ verdict' # "ready"
<1> DEFINE r == Head(queue[ch])
<1>1. /\ verdict = "tracking" /\ queue[ch] # <<>> /\ Consume(r)
      /\ queue' = [queue EXCEPT ![ch] = Tail(@)]
      /\ UNCHANGED <<vars, trackErr>>
  BY DEF ConsumeBuffered
<1>2. Queues' /\ r \in Carried /\ r.ch = ch
  BY <1>1, QueueShrinks DEF Queues, ControllerInv, ControllerTypeOK
<1>3. ~ r.ready
  BY <1>2 DEF Carried, Buffered
<1> HIDE DEF r
<1>4. /\ task' \in ReadinessTaskState /\ Ledger(task)'
      /\ verdict' \in {"tracking", "failed", "panic"}
      /\ verdict' = "tracking" =>
           /\ Open(task)'
           /\ RootErrors \in Nat /\ RootErrors' \in Nat /\ RootErrors' >= RootErrors
  BY <1>1, <1>2, <1>3, ConsumeIs
<1>5. ControllerTypeOK'
  BY <1>1, <1>2, <1>4
     DEF ControllerInv, ControllerTypeOK, Queues, TrackerTypeOK, vars, podSide, relays
<1>6. /\ OneOut(t') /\ KnownIsThere' /\ LivePodIsTracked' /\ Announces(t')
      /\ failures' = failures /\ FailedInOut' = FailedInOut
  <2>1. UNCHANGED <<pods, announced, added, runs>> /\ t' = t /\ failures' = failures
    BY <1>1 DEF vars, podSide
  <2>2. KnownIsThere' /\ LivePodIsTracked'
    BY <2>1, PodsStay DEF ControllerInv
  <2>3. OneOut(t') /\ Announces(t')
    BY <1>1, <2>1 DEF ControllerInv
  <2>4. FailedInOut' = FailedInOut
    BY <2>1 DEF FailedInOut, Sending
  <2>5. QED
    BY <2>1, <2>2, <2>3, <2>4
<1>7. ChargesKept
  <2>1. failures \in Nat /\ FailedInOut \in {0, 1}
    BY DEF ControllerInv, ControllerTypeOK, TrackerTypeOK, FailedInOut
  <2>2. QED
    BY <1>4, <1>6, <2>1 DEF ChargesKept, FailuresTaken
<1>8. QED
  BY <1>2, <1>4, <1>5, <1>6, <1>7 DEF Kept, ControllerInv, Queues

\* Only here does the consumer hear of success, which is then true of the object.
LEMMA ConsumeUnbufferedKeeps ==
  ASSUME ControllerInv, NEW ch \in {"Ready", "Failed", "PodError"}, ConsumeUnbuffered(ch)
  PROVE  Kept /\ (verdict' = "ready" => Shines(t))
<1> DEFINE r == Head(t.out)
<1>1. /\ verdict = "tracking" /\ t.out # <<>> /\ r.ch = ch /\ Consume(r)
      /\ Sent /\ UNCHANGED <<queue, trackErr>>
  BY DEF ConsumeUnbuffered, Sending
<1>2. r \in Carried
  BY <1>1, SendingIs
<1>3. r.ready => Shines(t)
  BY <1>1 DEF ControllerInv, Announces
<1>4. /\ task' \in ReadinessTaskState /\ Ledger(task)'
      /\ verdict' \in {"tracking", "ready", "failed", "panic"}
      /\ verdict' = "ready" => r.ready
      /\ verdict' = "tracking" =>
           /\ ~ r.ready /\ Open(task)'
           /\ RootErrors \in Nat /\ RootErrors' \in Nat /\ RootErrors' >= RootErrors
           /\ r.ch = "Failed" => RootErrors' >= RootErrors + 1
  BY <1>1, <1>2, ConsumeIs
<1>5. /\ TrackerTypeOK' /\ KnownIsThere' /\ LivePodIsTracked' /\ OneOut(t')
      /\ FailedInOut' = 0 /\ failures' = failures
      /\ verdict' = "tracking" => Announces(t')
  BY <1>1, <1>4, SentIs
<1>6. ControllerTypeOK' /\ Queued'
  BY <1>1, <1>4, <1>5 DEF ControllerInv, ControllerTypeOK, Queued
<1>7. ChargesKept
  <2>1. ASSUME verdict' = "tracking"
        PROVE  RootErrors' - RootErrors >= (failures' - FailedInOut') - (failures - FailedInOut)
    <3>1. failures \in Nat
      BY DEF ControllerInv, ControllerTypeOK, TrackerTypeOK
    <3>2. FailedInOut = IF ch = "Failed" THEN 1 ELSE 0
      BY <1>1 DEF FailedInOut, Sending
    <3> HIDE DEF r
    <3>3. CASE ch = "Failed"
      BY <1>1, <1>4, <1>5, <2>1, <3>1, <3>2, <3>3
    <3>4. CASE ch # "Failed"
      BY <1>4, <1>5, <2>1, <3>1, <3>2, <3>4
    <3>5. QED
      BY <3>3, <3>4
  <2>2. QED
    BY <2>1 DEF ChargesKept, FailuresTaken
<1>8. QED
  BY <1>3, <1>4, <1>5, <1>6, <1>7 DEF Kept, ControllerInv

LEMMA ConsumeTrackErrKeeps ==
  ASSUME ControllerInv, ConsumeTrackErr
  PROVE  Kept /\ verdict' # "ready"
<1> USE DEF ConsumeTrackErr
<1>1. verdict' \in {"error", "stopped"}
  BY DEF ControllerInv, ControllerTypeOK
<1>2. ControllerTypeOK'
  BY <1>1
     DEF ControllerInv, ControllerTypeOK, TrackerTypeOK, vars, podSide, relays
<1>3. KnownIsThere' /\ LivePodIsTracked'
  BY PodsStay DEF ControllerInv, vars, podSide
<1>4. OneOut(t') /\ Queued' /\ Ledger(task)'
  BY DEF ControllerInv, OneOut, Queued, Ledger, Row, ErrorsOf, vars
<1>5. QED
  BY <1>1, <1>2, <1>3, <1>4 DEF Kept, ControllerInv, ChargesKept

\* A step that changes nothing the invariant is about but, maybe, the context.
LEMMA ContextKeeps ==
  ASSUME ControllerInv, ctxDone' \in BOOLEAN,
         UNCHANGED <<object, buf, failure, podSide, changes, pc, failures, t, consumer>>
  PROVE  Kept
<1> USE DEF consumer, podSide, relays
<1>1. ControllerTypeOK'
  BY DEF ControllerInv, ControllerTypeOK, TrackerTypeOK
<1>2. KnownIsThere' /\ LivePodIsTracked'
  BY PodsStay DEF ControllerInv
<1>3. ControllerInv'
  BY <1>1, <1>2
     DEF ControllerInv, OneOut, Queued, Ledger, Row, ErrorsOf, Announces, Open, Shines
<1>4. ChargesKept
  BY NothingCharged
<1>5. QED
  BY <1>3, <1>4 DEF Kept

-----------------------------------------------------------------------------
(***************************************************************************)
(* The invariant holds.                                                    *)
(***************************************************************************)

LEMMA TaskBegins ==
  /\ NewReadinessTaskState(Mode, Allow) \in ReadinessTaskState
  /\ Ledger(NewReadinessTaskState(Mode, Allow)) /\ Open(NewReadinessTaskState(Mode, Allow))
<1> DEFINE ts == NewReadinessTaskState(Mode, Allow)
<1>1. ts \in ReadinessTaskState
  BY ControllerReadinessAssumption
     DEF NewReadinessTaskState, ReadinessTaskState, Resource, ResourceStatus
<1>2. Open(ts)
  BY DEF Open, NewReadinessTaskState
<1>3. \A r \in Resource : ErrorsOf(ts, r) = {}
  BY DEF ErrorsOf, NewReadinessTaskState
<1>4. IsFiniteSet({}) /\ Cardinality({}) = 0
  BY FS_EmptySet
<1>5. \A r \in Resource : {r} \X (0 .. 0 - 1) = {}
  OBVIOUS
<1> HIDE DEF ts
<1>6. ASSUME NEW r \in Resource
      PROVE  Row(ts, r)
  <2>1. ErrorsOf(ts, r) = {}
    BY <1>3
  <2>2. IsFiniteSet(ErrorsOf(ts, r)) /\ Cardinality(ErrorsOf(ts, r)) = 0
    BY <1>4, <2>1
  <2>3. QED
    BY <1>5, <2>1, <2>2 DEF Row
<1>7. QED
  BY <1>1, <1>2, <1>6 DEF Ledger, ts

LEMMA ControllerInvBegins == ReadinessInit => ControllerInv
<1> SUFFICES ASSUME ReadinessInit PROVE ControllerInv
  OBVIOUS
<1> USE DEF ReadinessInit, Init
<1>1. /\ task \in ReadinessTaskState /\ Ledger(task) /\ Open(task) /\ verdict = "tracking"
  BY TaskBegins
<1>2. /\ t \in Tracker /\ t.out = <<>> /\ t.State = "Initial" /\ t.lastObject = Nil
      /\ object \in Objects \cup {Nil}
  BY DEF Tracker, TrackerState
<1>3. <<>> \in Seq(Report) /\ Len(<<>>) = 0 /\ (\A S : <<>> \in Seq(S))
  OBVIOUS
<1>4. TrackerTypeOK
  <2>1. pods \in [Pod -> PodHistory] /\ changes \in 0 .. MaxChanges
    BY ControllerConstantsAssumption
  <2>2. /\ buf \in [{"Added", "Modified", "Deleted"} -> Objects \cup {Nil}]
        /\ announced \in [Pod -> Nat \cup {Nil}]
    BY <1>2
  <2>3. /\ added \in Seq([pod : Pod, revision : Revision]) /\ runs \in Seq(PodRun)
        /\ statuses \in Seq(Relayed) /\ errs \in Seq(Relayed) /\ dones \in Seq(Relayed)
    BY <1>3
  <2>4. QED
    BY <1>2, <2>1, <2>2, <2>3 DEF TrackerTypeOK
<1>5. \A ch \in Buffered : Capacity[ch] \in Nat
  BY ControllerReadinessAssumption
<1>6. /\ queue \in [Buffered -> Seq(Report)] /\ Queued
      /\ \A ch \in Buffered : Len(queue[ch]) <= Capacity[ch]
  BY <1>3, <1>5 DEF Queued
<1>7. ControllerTypeOK
  BY <1>1, <1>4, <1>6 DEF ControllerTypeOK
<1>8. KnownIsThere /\ LivePodIsTracked
  BY DEF KnownIsThere, LivePodIsTracked, Announced
<1>9. OneOut(t) /\ Announces(t)
  BY <1>2 DEF OneOut, Announces, Shines
<1>10. QED
  BY <1>1, <1>6, <1>7, <1>8, <1>9 DEF ControllerInv

\* The tracker calls the resource ready only while it is.
LEMMA ControllerStep ==
  ASSUME ControllerInv, [ReadinessNext]_allVars
  PROVE  /\ Kept
         /\ verdict' = "ready" => verdict = "ready" \/ Shines(t)
<1>1. CASE verdict = "tracking" /\ TrackGoesOn
  <2>1. UNCHANGED consumer /\ verdict' = verdict
    BY <1>1 DEF TrackGoesOn, consumer
  <2>2. CASE HandleResourceAdded \/ HandleResourceModified
    BY <1>1, <2>1, <2>2, HandleResourceKeeps DEF HandleResourceAdded, HandleResourceModified
  <2>3. CASE HandleResourceDeleted
    BY <1>1, <2>1, <2>3, HandleResourceDeletedKeeps
  <2>4. CASE HandleResourceFailed
    BY <1>1, <2>1, <2>4, HandleResourceFailedKeeps
  <2>5. CASE HandlePodAdded
    BY <1>1, <2>1, <2>5, HandlePodAddedKeeps
  <2>6. CASE HandleDonePods
    BY <1>1, <2>1, <2>6, HandleDonePodsKeeps
  <2>7. CASE HandlePodStatuses
    BY <1>1, <2>1, <2>7, HandlePodStatusesKeeps
  <2>8. CASE HandlePodContainerErrors
    BY <1>1, <2>1, <2>8, HandlePodContainerErrorsKeeps
  <2>9. QED
    BY <1>1, <2>2, <2>3, <2>4, <2>5, <2>6, <2>7, <2>8 DEF TrackGoesOn
<1>2. CASE verdict = "tracking" /\ World
  <2>1. UNCHANGED consumer /\ verdict' = verdict
    BY <1>2 DEF World, consumer
  <2>2. CASE ObjectAdded \/ ObjectModified \/ ObjectDeleted
    BY <1>2, <2>1, <2>2, ObjectChangesKeep
  <2>3. CASE FailureEvent
    BY <1>2, <2>1, <2>3, FailureEventKeeps
  <2>4. ASSUME NEW p \in Pod, PodCreated(p) \/ PodGone(p) \/ PodAnnounced(p)
        PROVE  Kept
    BY <1>2, <2>1, <2>4, PodCreatedKeeps, PodGoneKeeps, PodAnnouncedKeeps
  <2>5. ASSUME NEW i \in DOMAIN runs, PodTracker(i)
        PROVE  Kept
    BY <1>2, <2>1, <2>5, HandlePodStateKeeps, HandlePodDeletedKeeps, HandleProbeEventKeeps,
       StartReturnsKeeps DEF PodTracker
  <2>6. Kept
    BY <1>2, <2>2, <2>3, <2>4, <2>5 DEF World
  <2>7. QED
    BY <1>2, <2>1, <2>6
<1>3. CASE verdict = "tracking" /\ (TrackCancelled \/ TrackFails)
  <2>1. /\ Return /\ trackErr' \in {"error", "stopped"}
        /\ UNCHANGED <<queue, task, verdict>>
    BY <1>3 DEF TrackCancelled, TrackFails, HandleCtxDone, HandleError
  <2>2. QED
    BY <1>3, <2>1, ReturnKeeps
<1>4. CASE verdict = "tracking" /\ \E ch \in Buffered : Enqueue(ch)
  <2>1. verdict' = verdict
    BY <1>4 DEF Enqueue
  <2>2. QED
    BY <1>4, <2>1, EnqueueKeeps
<1>5. CASE ConsumeAdded \/ ConsumeStatus \/ ConsumeAddedPod
  <2>1. PICK ch \in Buffered : ConsumeBuffered(ch)
    BY <1>5 DEF ConsumeAdded, ConsumeStatus, ConsumeAddedPod, Buffered
  <2>2. QED
    BY <2>1, ConsumeBufferedKeeps
<1>6. CASE ConsumeReady \/ ConsumeFailed \/ ConsumePodError
  <2>1. PICK ch \in {"Ready", "Failed", "PodError"} : ConsumeUnbuffered(ch)
    BY <1>6 DEF ConsumeReady, ConsumeFailed, ConsumePodError
  <2>2. QED
    BY <2>1, ConsumeUnbufferedKeeps
<1>7. CASE ConsumeTrackErr
  BY <1>7, ConsumeTrackErrKeeps
<1>8. CASE Cancel \/ ConsumerReturns
  <2>1. /\ ctxDone' \in BOOLEAN /\ verdict' = verdict
        /\ UNCHANGED <<object, buf, failure, podSide, changes, pc, failures, t, consumer>>
    BY <1>8 DEF Cancel, ConsumerReturns, ContextEnds, consumer
  <2>2. QED
    BY <2>1, ContextKeeps
<1>9. CASE UNCHANGED allVars
  <2>1. ctxDone' \in BOOLEAN
    BY <1>9 DEF ControllerInv, ControllerTypeOK, TrackerTypeOK, allVars, vars
  <2>2. /\ UNCHANGED <<object, buf, failure, podSide, changes, pc, failures, t, consumer>>
        /\ verdict' = verdict
    BY <1>9 DEF allVars, vars, consumer
  <2>3. QED
    BY <2>1, <2>2, ContextKeeps
<1>10. QED
  BY <1>1, <1>2, <1>3, <1>4, <1>5, <1>6, <1>7, <1>8, <1>9
     DEF ReadinessNext, Tracking, Over, Quiet

LEMMA ControllerInvariance == ReadinessSpec => []ControllerInv
<1>1. ReadinessInit => ControllerInv
  BY ControllerInvBegins
<1>2. ControllerInv /\ [ReadinessNext]_allVars => ControllerInv'
  BY ControllerStep DEF Kept
<1>3. QED
  BY <1>1, <1>2, PTL DEF ReadinessSpec

\* What the tracker, its channels and the task hold is always of its type, and the
\* buffered channels stay within their places.
THEOREM TypeCorrect == ReadinessSpec => []ControllerTypeOK
<1>1. ControllerInv => ControllerTypeOK
  BY DEF ControllerInv
<1>2. QED
  BY <1>1, ControllerInvariance, PTL

\* handleStatefulSetFailed and trackStatefulSet's case tracker.Failed, and those of
\* DaemonSets: no failure event that Track has handled is lost on its way to the task,
\* whatever else was charged.
THEOREM NoFailureIsLost == ReadinessSpec => EveryFailureIsCharged
<1>1. ControllerInv /\ [ReadinessNext]_allVars =>
        [verdict' = "tracking" =>
           RootErrors' - RootErrors >= FailuresTaken' - FailuresTaken]_allVars
  BY ControllerStep DEF Kept, ChargesKept
<1>2. QED
  BY <1>1, ControllerInvariance, PTL DEF ReadinessSpec, EveryFailureIsCharged

\* runPodTracker: the Pod that is there has a tracker, or waits for one, whatever the
\* trackers of older Pods of its name do.
THEOREM NoPodIsForgotten == ReadinessSpec => []LivePodIsTracked
<1>1. ControllerInv => LivePodIsTracked
  BY DEF ControllerInv
<1>2. QED
  BY <1>1, ControllerInvariance, PTL

\* handleStatefulSetStatus: the resource becomes ready only by the report of an object
\* that is, while the tracker has seen no later one.
THEOREM ReadyIsNeverStale == ReadinessSpec => ReadyIsCurrent
<1>1. ControllerInv /\ [ReadinessNext]_allVars =>
        [verdict' = "ready" =>
           verdict = "ready" \/ (t.lastObject # Nil /\ IsReady(t.lastObject))]_allVars
  BY ControllerStep DEF Shines
<1>2. QED
  BY <1>1, ControllerInvariance, PTL DEF ReadinessSpec, ReadyIsCurrent
=============================================================================
