---------------------- MODULE CompletionReadinessProofs ----------------------
(***************************************************************************)
(* Safety of the trackers of Jobs and Canaries and of their consumers, for  *)
(* any Pods, any fail mode and budget of failures, and any size of the      *)
(* channels and relays.                                                     *)
(***************************************************************************)
EXTENDS CompletionReadiness, FiniteSetTheorems, TLAPS

-----------------------------------------------------------------------------
(***************************************************************************)
(* The inductive invariant.                                                *)
(***************************************************************************)

\* A report of a Pod names it, a report of a failure is no success, and success is
\* never sent to a buffered channel.
Carried ==
  {r \in Report : /\ r.ch \in {"AddedPod", "PodError"} => r.pod \in Pod
                  /\ r.succeeded => r.ch \in {"Succeeded", "PodError"}
                  /\ r.ch = "Succeeded" => r.succeeded
                  /\ r.ch = "Failed" => r.failed}

\* At most one message is being sent.
OneOut(d) == d.out \in {<<>>} \cup {<<r>> : r \in Carried}

\* While its consumer waits, a tracker that counts the resource as succeeded is in the
\* send that says so, and does nothing else.
Announces(d) ==
  /\ d.State = "Succeeded" => IsSucceeded(d)
  /\ IsSucceeded(d) <=> d.out # <<>> /\ Head(d.out).succeeded

\* Nothing has been decided yet.
Open(ts) == ts.status = "" /\ \A r \in Resource : ts.statuses[r] # "Ready"

\* The errors of a resource are numbered from 0 on, without gaps.
Row(ts, r) ==
  /\ IsFiniteSet(ErrorsOf(ts, r))
  /\ ErrorsOf(ts, r) = {r} \X (0 .. Cardinality(ErrorsOf(ts, r)) - 1)

Ledger(ts) == \A r \in Resource : Row(ts, r)

\* What waits in a channel was sent to it.
Queued == \A ch \in Buffered : queue[ch] \in Seq({r \in Carried : r.ch = ch})

\* A Pod has ended in the cluster; it is over when its logs have ended as well.  Both stay
\* so.
Ended(p) == pods[p] \in Terminated \cup {"gone"}

\* A status that says that its Pod is over is true, and so is the end of its tracker; one
\* that says that the Pod is failing promises nothing.
Fact  == {r \in Relayed : r.status \in Terminated => IsOver(r.pod)}
Final == {r \in Relayed : IsOver(r.pod)}

KnowsEnded(d) == \A p \in Pod : d.podStatuses[p] \in Terminated => IsOver(p)

RunsAreTrue ==
  \A p \in Pod :
    runs[p].phase \in {"cancelled", "done"} \/ runs[p].last \in Terminated => Ended(p)

RelaysAreTrue == statuses \in Seq(Fact) /\ errs \in Seq(Fact) /\ dones \in Seq(Final)

\* The tracker gives up only Pods that are over.
Follows(d, ps) == \A p \in ps : p \in d.TrackedPodsNames \/ IsOver(p)

PodsAreTrue == KnowsEnded(t) /\ Follows(t, followed) /\ RunsAreTrue /\ RelaysAreTrue

CompletionInv ==
  /\ CompletionTypeOK
  /\ OneOut(t) /\ Queued
  /\ PodsAreTrue
  /\ Ledger(task)
  /\ verdict = "tracking" => Announces(t) /\ Open(task)

\* The Pods that Track was, or is being, told of.
Known == IF announced = Nil THEN {} ELSE announced

\* No Pod is announced twice, so that no second tracker takes the place of one that has
\* ended.
AnnouncedOnce ==
  /\ t.State = "Initial" => announced = Nil
  /\ added = <<>> \/ \E p \in Known : added = <<p>> /\ runs[p].phase = "none"
  /\ \A p \in Pod : runs[p].phase # "none" => p \in Known

\* What EveryFailureIsCharged says of a step.
ChargesKept ==
  verdict' = "tracking" => RootErrors' - RootErrors >= FailuresTaken' - FailuresTaken

Kept == CompletionInv' /\ ChargesKept

-----------------------------------------------------------------------------
(***************************************************************************)
(* Sequences.                                                              *)
(***************************************************************************)

LEMMA HeadAndTail ==
  ASSUME NEW S, NEW s \in Seq(S), s # <<>>
  PROVE  Head(s) \in S /\ Tail(s) \in Seq(S)
OBVIOUS

LEMMA AppendIs ==
  ASSUME NEW S, NEW s \in Seq(S), NEW x \in S
  PROVE  /\ Append(s, x) \in Seq(S) /\ Append(s, x) # <<>>
         /\ Len(Append(s, x)) = Len(s) + 1 /\ Len(s) \in Nat
OBVIOUS

LEMMA SeqWidens ==
  ASSUME NEW S, NEW T, S \subseteq T, NEW s \in Seq(S)
  PROVE  s \in Seq(T)
OBVIOUS

-----------------------------------------------------------------------------
(***************************************************************************)
(* The handlers of the tracker.                                            *)
(***************************************************************************)

ReportChannel == {"Added", "Succeeded", "Failed", "Status", "AddedPod", "PodError"}

\* What a handler leaves alone.
SamePods(d, e) ==
  /\ e.podStatuses = d.podStatuses /\ e.TrackedPodsNames = d.TrackedPodsNames
  /\ e.kind = d.kind

LEMMA SuccessIsOfAnObject ==
  ASSUME NEW d, d.lastObject = Nil
  PROVE  ~ IsSucceeded(d)
<1>1. Nil # "complete"
  BY CompletionConstantsAssumption DEF Object
<1>2. QED
  BY <1>1 DEF IsSucceeded

LEMMA FlagsAreBoolean ==
  ASSUME NEW d
  PROVE  /\ IsSucceeded(d) \in BOOLEAN /\ IsFailed(d) \in BOOLEAN
         /\ IsSucceeded(d) => ~ IsFailed(d)
BY DEF IsSucceeded, IsFailed, PodsTerminated

LEMMA StatusIs ==
  ASSUME NEW d \in Tracker, NEW ch \in ReportChannel
  PROVE  /\ NewStatus(d, ch) \in Report /\ NewStatus(d, ch).ch = ch
         /\ NewStatus(d, ch).succeeded = IsSucceeded(d)
         /\ NewStatus(d, ch).failed = IsFailed(d)
<1>1. IsSucceeded(d) \in BOOLEAN /\ IsFailed(d) \in BOOLEAN
  BY FlagsAreBoolean
<1>2. {p \in Pod : d.podStatuses[p] \notin {"blank", Nil}} \in SUBSET Pod
  OBVIOUS
<1>3. QED
  BY <1>1, <1>2 DEF NewStatus, Report, ReportChannel

LEMMA SendIs ==
  ASSUME NEW d \in Tracker, NEW r \in Carried
  PROVE  LET e == Send(d, r)
         IN /\ e \in Tracker /\ OneOut(e)
            /\ e.out = <<r>> /\ e.out # <<>> /\ Head(e.out) = r
            /\ e.State = d.State /\ e.lastObject = d.lastObject /\ SamePods(d, e)
<1>1. r \in Report
  BY DEF Carried
<1>2. <<r>> \in Seq(Report)
  BY <1>1
<1> DEFINE m == <<r>>
<1>3. m # <<>> /\ Head(m) = r /\ m \in {<<s>> : s \in Carried}
  OBVIOUS
<1>4. m \in Seq(Report)
  BY <1>2
<1> HIDE DEF m
<1>5. [d EXCEPT !.out = m] \in Tracker /\ [d EXCEPT !.out = m].out = m
  BY <1>4 DEF Tracker
<1>6. Send(d, r) = [d EXCEPT !.out = m]
  BY DEF Send, m
<1>7. QED
  BY <1>3, <1>5, <1>6 DEF OneOut, Tracker, SamePods, m

\* What it counts depends on the object, the Pods it tracks and their statuses.
LEMMA SameSuccess ==
  ASSUME NEW d, NEW e, e.lastObject = d.lastObject,
         e.podStatuses = d.podStatuses, e.TrackedPodsNames = d.TrackedPodsNames
  PROVE  IsSucceeded(e) <=> IsSucceeded(d)
BY DEF IsSucceeded, PodsTerminated

\* A tracker that can select: nothing is left to say, and it has not succeeded.
Free(d) == d \in Tracker /\ d.out = <<>> /\ d.State # "Succeeded"

Good(d) == d \in Tracker /\ OneOut(d) /\ Announces(d)

LEMMA HandleStateIs ==
  ASSUME NEW d, Free(d), NEW o \in Object
  PROVE  Good(HandleState(d, o)) /\ SamePods(d, HandleState(d, o))
<1> DEFINE seen == [d EXCEPT !.lastObject = o]
           ch == Channel(seen)
           f == [seen EXCEPT !.State = IF ch = "Status" THEN @ ELSE ch]
           r == NewStatus(seen, ch)
<1>0. d \in Tracker
  BY DEF Free
<1>1. /\ seen \in Tracker /\ seen.lastObject = o /\ seen.State = d.State /\ SamePods(d, seen)
      /\ d.State \in TrackerState /\ d.State # "Succeeded"
  BY <1>0 DEF Tracker, Free, SamePods
<1>2. HandleState(d, o) = Send(f, r)
  BY DEF HandleState
<1> HIDE DEF seen
<1>3. \/ IsSucceeded(seen) /\ ch = "Succeeded"
      \/ ~ IsSucceeded(seen) /\ IsFailed(seen) /\ ch = "Failed"
      \/ ~ IsSucceeded(seen) /\ ch \in {"Added", "Status"}
  <2>1. IsSucceeded(seen) \in BOOLEAN /\ IsFailed(seen) \in BOOLEAN
    BY FlagsAreBoolean
  <2>2. CASE IsSucceeded(seen)
    BY <1>1, <2>2, FlagsAreBoolean DEF Channel
  <2>3. CASE ~ IsSucceeded(seen) /\ IsFailed(seen)
    BY <1>1, <2>3 DEF Channel
  <2>4. CASE ~ IsSucceeded(seen) /\ ~ IsFailed(seen)
    BY <1>1, <2>4 DEF Channel, TrackerState
  <2>5. QED
    BY <2>1, <2>2, <2>3, <2>4
<1> HIDE DEF ch
<1>4. /\ f \in Tracker /\ f.lastObject = seen.lastObject /\ SamePods(seen, f)
      /\ f.State = IF ch = "Status" THEN d.State ELSE ch
  BY <1>1, <1>3 DEF Tracker, TrackerState, SamePods
<1>5. r \in Carried /\ (r.succeeded <=> IsSucceeded(seen))
  <2>1. /\ r \in Report /\ r.ch = ch /\ r.succeeded = IsSucceeded(seen)
        /\ r.failed = IsFailed(seen)
    BY <1>1, <1>3, StatusIs DEF ReportChannel
  <2>2. IsSucceeded(seen) \in BOOLEAN /\ IsFailed(seen) \in BOOLEAN
    BY FlagsAreBoolean
  <2> HIDE DEF r
  <2>3. QED
    BY <1>3, <2>1, <2>2 DEF Carried
<1> HIDE DEF f, r
<1>6. /\ Send(f, r) \in Tracker /\ OneOut(Send(f, r))
      /\ Send(f, r).out # <<>> /\ Head(Send(f, r).out) = r
      /\ Send(f, r).State = f.State
      /\ Send(f, r).lastObject = f.lastObject /\ SamePods(f, Send(f, r))
  BY <1>4, <1>5, SendIs
<1>7. IsSucceeded(Send(f, r)) <=> IsSucceeded(seen)
  BY <1>4, <1>6, SameSuccess DEF SamePods
<1>8. Announces(Send(f, r))
  BY <1>1, <1>3, <1>4, <1>5, <1>6, <1>7 DEF Announces
<1>9. QED
  BY <1>1, <1>2, <1>4, <1>6, <1>8 DEF Good, SamePods

LEMMA HandleSameStateIs ==
  ASSUME NEW d, Free(d)
  PROVE  Good(HandleSameState(d)) /\ SamePods(d, HandleSameState(d))
<1>1. d \in Tracker
  BY DEF Free
<1>2. CASE d.lastObject = Nil
  <2>1. ~ IsSucceeded(d)
    BY <1>2, SuccessIsOfAnObject
  <2>2. QED
    BY <1>1, <1>2, <2>1 DEF HandleSameState, Free, Good, OneOut, Announces, SamePods
<1>3. CASE d.lastObject # Nil
  <2>1. d.lastObject \in Object
    BY <1>1, <1>3 DEF Tracker
  <2>2. QED
    BY <1>3, <2>1, HandleStateIs DEF HandleSameState
<1>4. QED
  BY <1>2, <1>3

LEMMA ResetOnDeleteIs ==
  ASSUME NEW d \in Tracker
  PROVE  LET e == ResetOnDelete(d)
         IN Good(e) /\ e.podStatuses = d.podStatuses /\ e.TrackedPodsNames = {}
<1> DEFINE e == [d EXCEPT !.State = "Deleted", !.lastObject = Nil, !.TrackedPodsNames = {}]
           r == BlankStatus("Status")
<1>1. /\ e \in Tracker /\ e.State = "Deleted" /\ e.lastObject = Nil
      /\ e.podStatuses = d.podStatuses /\ e.TrackedPodsNames = {}
  BY DEF Tracker, TrackerState
<1>2. r \in Carried /\ ~ r.succeeded
  BY DEF BlankStatus, Carried, Report
<1>3. ResetOnDelete(d) = Send(e, r)
  BY DEF ResetOnDelete
<1> HIDE DEF e, r
<1>4. /\ Send(e, r) \in Tracker /\ OneOut(Send(e, r)) /\ Head(Send(e, r).out) = r
      /\ Send(e, r).State = "Deleted" /\ Send(e, r).lastObject = Nil
      /\ Send(e, r).podStatuses = d.podStatuses /\ Send(e, r).TrackedPodsNames = {}
  BY <1>1, <1>2, SendIs DEF SamePods
<1>5. Announces(Send(e, r))
  BY <1>2, <1>4, SuccessIsOfAnObject DEF Announces
<1>6. QED
  BY <1>3, <1>4, <1>5 DEF Good

\* The failure is in the report, whether there is an object or not.
LEMMA HandleFailureIs ==
  ASSUME NEW d, Free(d), ~ IsSucceeded(d)
  PROVE  LET e == HandleFailure(d)
         IN Good(e) /\ SamePods(d, e) /\ e.out # <<>> /\ Head(e.out).ch = "Failed"
<1> DEFINE f == [d EXCEPT !.State = "Failed"]
           r == IF d.lastObject = Nil THEN BlankStatus("Failed") ELSE NewStatus(f, "Failed")
<1>0. d \in Tracker
  BY DEF Free
<1>1. /\ f \in Tracker /\ f.State = "Failed" /\ f.lastObject = d.lastObject /\ SamePods(d, f)
  BY <1>0 DEF Tracker, TrackerState, SamePods
<1>2. HandleFailure(d) = Send(f, r)
  BY DEF HandleFailure
<1>3. ~ IsSucceeded(f)
  BY <1>1, SameSuccess DEF SamePods
<1>4. r \in Carried /\ r.ch = "Failed" /\ ~ r.succeeded
  <2>1. CASE d.lastObject = Nil
    BY <2>1 DEF BlankStatus, Carried, Report
  <2>2. CASE d.lastObject # Nil
    <3>1. "Failed" \in ReportChannel
      BY DEF ReportChannel
    <3>2. IsFailed(f)
      BY <1>1, <1>3 DEF IsFailed
    <3> HIDE DEF f
    <3>3. r \in Report /\ r.ch = "Failed" /\ ~ r.succeeded /\ r.failed
      BY <1>1, <1>3, <2>2, <3>1, <3>2, StatusIs
    <3>4. QED
      BY <3>3 DEF Carried
  <2>3. QED
    BY <2>1, <2>2
<1> HIDE DEF f, r
<1>5. /\ Send(f, r) \in Tracker /\ OneOut(Send(f, r)) /\ Send(f, r).out # <<>>
      /\ Head(Send(f, r).out) = r /\ Send(f, r).State = "Failed"
      /\ Send(f, r).lastObject = f.lastObject /\ SamePods(f, Send(f, r))
  BY <1>1, <1>4, SendIs
<1>6. ~ IsSucceeded(Send(f, r))
  BY <1>3, <1>5, SameSuccess DEF SamePods
<1>7. QED
  BY <1>1, <1>2, <1>4, <1>5, <1>6 DEF Good, Announces, SamePods

\* A report of a Pod may bring the success, unless it announces the Pod.
LEMMA PodReportIs ==
  ASSUME NEW d, Free(d), NEW p \in Pod, NEW ch \in {"AddedPod", "PodError"},
         ch = "AddedPod" => ~ IsSucceeded(d)
  PROVE  Good(PodReport(d, ch, p)) /\ SamePods(d, PodReport(d, ch, p))
<1>0. d \in Tracker
  BY DEF Free
<1>1. CASE d.lastObject = Nil
  <2>1. ~ IsSucceeded(d)
    BY <1>1, SuccessIsOfAnObject
  <2>2. QED
    BY <1>0, <1>1, <2>1 DEF PodReport, Free, Good, OneOut, Announces, SamePods
<1>2. CASE d.lastObject # Nil
  <2> DEFINE s == NewStatus(d, ch)
             r == [s EXCEPT !.pod = p]
  <2>1. PodReport(d, ch, p) = Send(d, r)
    BY <1>2 DEF PodReport
  <2>2. s \in Report /\ s.ch = ch /\ s.succeeded = IsSucceeded(d) /\ IsSucceeded(d) \in BOOLEAN
    BY <1>0, StatusIs, FlagsAreBoolean DEF ReportChannel
  <2> HIDE DEF s
  <2>3. /\ r \in Report /\ r.ch = ch /\ r.pod = p
        /\ r.succeeded = IsSucceeded(d)
    BY <2>2 DEF Report
  <2> HIDE DEF r
  <2>4. r \in Carried
    BY <2>2, <2>3 DEF Carried
  <2>5. /\ Send(d, r) \in Tracker /\ OneOut(Send(d, r)) /\ Send(d, r).out # <<>>
        /\ Head(Send(d, r).out) = r /\ Send(d, r).State = d.State
        /\ Send(d, r).lastObject = d.lastObject /\ SamePods(d, Send(d, r))
    BY <1>0, <2>4, SendIs
  <2>6. IsSucceeded(Send(d, r)) <=> IsSucceeded(d)
    BY <2>5, SameSuccess DEF SamePods
  <2>7. QED
    BY <2>1, <2>2, <2>3, <2>5, <2>6 DEF Good, Announces, Free
<1>3. QED
  BY <1>1, <1>2

\* The Pod that is announced is tracked once its report is made.
LEMMA TrackedIs ==
  ASSUME NEW d, Good(d), ~ IsSucceeded(d), NEW p \in Pod
  PROVE  LET e == [d EXCEPT !.TrackedPodsNames = @ \cup {p}]
         IN /\ Good(e) /\ e.podStatuses = d.podStatuses
            /\ e.TrackedPodsNames = d.TrackedPodsNames \cup {p}
<1> DEFINE ps == d.TrackedPodsNames \cup {p}
           e == [d EXCEPT !.TrackedPodsNames = ps]
<1>1. d \in Tracker
  BY DEF Good
<1>2. ps \in SUBSET Pod
  BY <1>1 DEF Tracker
<1>3. \A q \in d.TrackedPodsNames : q \in ps
  OBVIOUS
<1> HIDE DEF ps
<1>4. /\ e \in Tracker /\ e.out = d.out /\ e.State = d.State /\ e.lastObject = d.lastObject
      /\ e.podStatuses = d.podStatuses /\ e.TrackedPodsNames = ps
  BY <1>1, <1>2 DEF Tracker
<1> HIDE DEF e
<1>5. ~ IsSucceeded(e)
  BY <1>3, <1>4 DEF IsSucceeded, PodsTerminated
<1>6. Good(e)
  BY <1>4, <1>5 DEF Good, OneOut, Announces
<1>7. QED
  BY <1>4, <1>6 DEF e, ps

\* What a handler writes down before it makes its report.
LEMMA StatusKeepsFree ==
  ASSUME NEW d, Free(d), NEW p \in Pod, NEW status \in PodStatus
  PROVE  LET e == [d EXCEPT !.podStatuses[p] = status]
         IN /\ Free(e) /\ e.TrackedPodsNames = d.TrackedPodsNames
            /\ e.podStatuses = [d.podStatuses EXCEPT ![p] = status]
<1> DEFINE ss == [d.podStatuses EXCEPT ![p] = status]
           e == [d EXCEPT !.podStatuses = ss]
<1>1. d \in Tracker
  BY DEF Free
<1>2. ss \in [Pod -> PodStatus \cup {Nil}]
  BY <1>1 DEF Tracker
<1> HIDE DEF ss
<1>3. /\ e \in Tracker /\ e.out = d.out /\ e.State = d.State
      /\ e.TrackedPodsNames = d.TrackedPodsNames /\ e.podStatuses = ss
  BY <1>1, <1>2 DEF Tracker
<1>4. QED
  BY <1>3 DEF Free, ss

LEMMA UntrackingKeepsFree ==
  ASSUME NEW d, Free(d), NEW p \in Pod
  PROVE  LET e == [d EXCEPT !.TrackedPodsNames = @ \ {p}]
         IN /\ Free(e) /\ e.podStatuses = d.podStatuses
            /\ e.TrackedPodsNames = d.TrackedPodsNames \ {p}
<1> DEFINE ps == d.TrackedPodsNames \ {p}
           e == [d EXCEPT !.TrackedPodsNames = ps]
<1>1. d \in Tracker
  BY DEF Free
<1>2. ps \in SUBSET Pod
  BY <1>1 DEF Tracker
<1> HIDE DEF ps
<1>3. /\ e \in Tracker /\ e.out = d.out /\ e.State = d.State
      /\ e.podStatuses = d.podStatuses /\ e.TrackedPodsNames = ps
  BY <1>1, <1>2 DEF Tracker
<1>4. QED
  BY <1>3 DEF Free, ps

LEMMA PodDoneIs ==
  ASSUME NEW d, Free(d), NEW r \in Relayed
  PROVE  LET e == PodDone(d, r)
         IN /\ Good(e) /\ e.TrackedPodsNames = d.TrackedPodsNames \ {r.pod}
            /\ \/ e.podStatuses = d.podStatuses
               \/ e.podStatuses = [d.podStatuses EXCEPT ![r.pod] = r.status]
<1> DEFINE f == FinalStatus(d, r)
           g == [f EXCEPT !.TrackedPodsNames = @ \ {r.pod}]
<1>1. r.pod \in Pod /\ r.status \in PodStatus
  BY DEF Relayed
<1>2. /\ Free(f) /\ f.TrackedPodsNames = d.TrackedPodsNames
      /\ \/ f.podStatuses = d.podStatuses
         \/ f.podStatuses = [d.podStatuses EXCEPT ![r.pod] = r.status]
  BY <1>1, StatusKeepsFree DEF FinalStatus
<1>3. PodDone(d, r) = HandleSameState(g)
  BY DEF PodDone
<1> HIDE DEF f
<1>4. /\ Free(g) /\ g.podStatuses = f.podStatuses
      /\ g.TrackedPodsNames = f.TrackedPodsNames \ {r.pod}
  BY <1>1, <1>2, UntrackingKeepsFree
<1> HIDE DEF g
<1>5. Good(HandleSameState(g)) /\ SamePods(g, HandleSameState(g))
  BY <1>4, HandleSameStateIs
<1>6. QED
  BY <1>2, <1>3, <1>4, <1>5 DEF SamePods

-----------------------------------------------------------------------------
(***************************************************************************)
(* The readiness task.                                                     *)
(***************************************************************************)

\* What of the task does not concern its errors.
LEMMA SameLedger ==
  ASSUME NEW a, NEW b, Ledger(a), b.errors = a.errors
  PROVE  Ledger(b) /\ \A r \in Resource : ErrorsOf(b, r) = ErrorsOf(a, r)
BY DEF Ledger, Row, ErrorsOf

\* An error takes the next number of its resource, and is a new one.
LEMMA AddErrorIs ==
  ASSUME NEW ts \in ReadinessTaskState, Ledger(ts), NEW r \in Resource
  PROVE  /\ AddError(ts, r) \in ReadinessTaskState /\ Ledger(AddError(ts, r))
         /\ Cardinality(ErrorsOf(ts, r)) \in Nat
         /\ Cardinality(ErrorsOf(AddError(ts, r), r)) = Cardinality(ErrorsOf(ts, r)) + 1
         /\ \A s \in Resource : s # r => ErrorsOf(AddError(ts, r), s) = ErrorsOf(ts, s)
         /\ AddError(ts, r).status = ts.status /\ AddError(ts, r).statuses = ts.statuses
<1> DEFINE n == Cardinality(ErrorsOf(ts, r))
           x == <<r, n>>
           e == AddError(ts, r)
           E == ErrorsOf(ts, r)
<1>1. IsFiniteSet(E) /\ n \in Nat /\ E = {r} \X (0 .. n - 1)
  BY FS_CardinalityType DEF Ledger, Row
<1>2. ts.errors \cup {x} \in SUBSET (Resource \X Nat)
  <2>1. x \in Resource \X Nat
    BY <1>1
  <2>2. ts.errors \in SUBSET (Resource \X Nat)
    BY DEF ReadinessTaskState
  <2> HIDE DEF x
  <2>3. QED
    BY <2>1, <2>2
<1>3. e = [ts EXCEPT !.errors = ts.errors \cup {x}]
  BY DEF AddError
<1>4. /\ e \in ReadinessTaskState /\ e.errors = ts.errors \cup {x}
      /\ e.status = ts.status /\ e.statuses = ts.statuses
  <2> HIDE DEF e, x
  <2>1. QED
    BY <1>2, <1>3 DEF ReadinessTaskState
<1> HIDE DEF e
<1>5. ErrorsOf(e, r) = E \cup {x}
  BY <1>4 DEF ErrorsOf
<1>6. \A s \in Resource : s # r => ErrorsOf(e, s) = ErrorsOf(ts, s)
  BY <1>4 DEF ErrorsOf
<1>7. x \notin E
  BY <1>1
<1>8. IsFiniteSet(E \cup {x}) /\ Cardinality(E \cup {x}) = n + 1
  <2> HIDE DEF x, n
  <2>1. QED
    BY <1>1, <1>7, FS_AddElement DEF n
<1>9. E \cup {x} = {r} \X (0 .. n)
  <2> HIDE DEF n, E
  <2>1. 0 .. n = 0 .. (n - 1) \cup {n}
    BY <1>1
  <2>2. QED
    BY <1>1, <2>1
<1>10. Ledger(e)
  <2>1. Row(e, r)
    <3>1. (n + 1) - 1 = n
      BY <1>1
    <3>2. QED
      BY <1>5, <1>8, <1>9, <3>1 DEF Row
  <2>2. \A s \in Resource : s # r => Row(e, s)
    BY <1>6 DEF Ledger, Row
  <2>3. QED
    BY <2>1, <2>2 DEF Ledger
<1>11. Cardinality(ErrorsOf(e, r)) = n + 1
  BY <1>5, <1>8
<1>12. QED
  BY <1>1, <1>4, <1>6, <1>10, <1>11 DEF e

\* The Pods of a report go into the task, and the one replica of a Job.
LEMMA HandleReplicasIs ==
  ASSUME NEW ts \in ReadinessTaskState, NEW r \in Carried
  PROVE  LET e == HandleReplicas(HandlePods(ts, r))
         IN /\ e \in ReadinessTaskState /\ e.errors = ts.errors
            /\ e.status = ts.status /\ e.statuses = ts.statuses
<1> DEFINE ps == r.pods \cup (IF r.ch = "AddedPod" THEN {r.pod} ELSE {})
           h == HandlePods(ts, r)
<1>1. ps \in SUBSET Resource
  BY DEF Carried, Report, Resource
<1>2. ts.vertices \cup ps \in SUBSET Resource /\ ts.edges \cup ps \in SUBSET Resource
  BY <1>1 DEF ReadinessTaskState
<1>3. h = [[ts EXCEPT !.vertices = ts.vertices \cup ps] EXCEPT !.edges = ts.edges \cup ps]
  <2> HIDE DEF ps
  <2>1. AddPods(ts, ps) = [[ts EXCEPT !.vertices = ts.vertices \cup ps] EXCEPT !.edges = ts.edges \cup ps]
    BY DEF AddPods, AddResourceStates, AddDependencies, ReadinessTaskState
  <2>2. QED
    BY <2>1 DEF HandlePods, ps
<1> HIDE DEF ps, h
<1>4. /\ h \in ReadinessTaskState /\ h.errors = ts.errors
      /\ h.status = ts.status /\ h.statuses = ts.statuses
  BY <1>2, <1>3 DEF ReadinessTaskState
<1>5. LET e == HandleReplicas(h)
      IN /\ e \in ReadinessTaskState /\ e.errors = ts.errors
         /\ e.status = ts.status /\ e.statuses = ts.statuses
  BY <1>4 DEF HandleReplicas, ReadinessTaskState
<1>6. QED
  BY <1>5 DEF h

LEMMA SetReadyIs ==
  ASSUME NEW ts \in ReadinessTaskState
  PROVE  /\ SetReady(ts) \in ReadinessTaskState
         /\ SetReady(ts).errors = ts.errors /\ SetReady(ts).status = "Ready"
<1> DEFINE f == [r \in Resource |-> IF r \in ResourceStates(ts) THEN "Ready" ELSE ts.statuses[r]]
<1>1. f \in [Resource -> ResourceStatus]
  BY DEF ReadinessTaskState, ResourceStatus
<1>2. SetReady(ts) = [ts EXCEPT !.status = "Ready", !.statuses = f]
  BY DEF SetReady
<1> HIDE DEF f
<1>3. QED
  BY <1>1, <1>2 DEF ReadinessTaskState

LEMMA SetRootResourceCreatedIs ==
  ASSUME NEW ts \in ReadinessTaskState
  PROVE  LET e == SetRootResourceCreated(ts)
         IN /\ e \in ReadinessTaskState /\ e.errors = ts.errors /\ e.status = ts.status
            /\ \A r \in Resource : e.statuses[r] # "Ready" \/ e.statuses[r] = ts.statuses[r]
<1> DEFINE f == [ts.statuses EXCEPT ![Root] = "Created"]
<1>1. f \in [Resource -> ResourceStatus] /\ ts.statuses \in [Resource -> ResourceStatus]
  BY DEF ReadinessTaskState, ResourceStatus
<1>2. \A r \in Resource : f[r] # "Ready" \/ f[r] = ts.statuses[r]
  BY <1>1
<1>3. SetRootResourceCreated(ts) = [ts EXCEPT !.statuses = f]
  BY DEF SetRootResourceCreated, SetResourceStatus
<1> HIDE DEF f
<1>4. QED
  BY <1>1, <1>2, <1>3 DEF ReadinessTaskState

\* A task that is open stays so, or fails, with every report but that of success.
LEMMA VerdictIs ==
  ASSUME NEW ts \in ReadinessTaskState
  PROVE  /\ Open(ts) => VerdictOf(ts) \in {"tracking", "failed"}
         /\ ts.status = "Ready" => VerdictOf(ts) = "ready"
<1>1. ts.status = "Ready" => VerdictOf(ts) = "ready"
  BY DEF VerdictOf, Status
<1>2. ASSUME Open(ts)
      PROVE  VerdictOf(ts) \in {"tracking", "failed"}
  <2>1. ts.edges \subseteq Resource
    BY DEF ReadinessTaskState
  <2>2. {r \in ResourceStates(ts) : ts.statuses[r] = "Ready"} = {}
    BY <1>2, <2>1 DEF Open, ResourceStates, Resource
  <2>3. Cardinality({r \in ResourceStates(ts) : ts.statuses[r] = "Ready"}) = 0
    BY <2>2, FS_EmptySet, Zenon
  <2>4. ts.replicas \in Nat
    BY DEF ReadinessTaskState
  <2>5. ~ ReadyCondition(ts)
    <3> DEFINE n == Cardinality({r \in ResourceStates(ts) : ts.statuses[r] = "Ready"})
    <3>1. ReadyCondition(ts) => n >= 1 + ts.replicas
      BY DEF ReadyCondition
    <3> HIDE DEF n
    <3>2. n = 0
      BY <2>3 DEF n
    <3>3. QED
      BY <2>4, <3>1, <3>2
  <2>6. Status(ts) \in {"Failed", "Progressing"}
    BY <1>2, <2>5 DEF Status, Open
  <2>7. QED
    BY <2>6 DEF VerdictOf
<1>3. QED
  BY <1>1, <1>2

LEMMA HandleReportIs ==
  ASSUME NEW ts \in ReadinessTaskState, Ledger(ts), NEW r \in Carried
  PROVE  LET e == HandleReport(ts, r)
         IN /\ e \in ReadinessTaskState /\ Ledger(e)
            /\ Cardinality(ErrorsOf(ts, Root)) \in Nat /\ Cardinality(ErrorsOf(e, Root)) \in Nat
            /\ Cardinality(ErrorsOf(e, Root)) >= Cardinality(ErrorsOf(ts, Root))
            /\ r.ch = "Failed" /\ ~ r.succeeded =>
                 Cardinality(ErrorsOf(e, Root)) >= Cardinality(ErrorsOf(ts, Root)) + 1
            /\ ~ r.succeeded /\ Open(ts) => Open(e)
            /\ r.succeeded => e.status = "Ready"
<1> DEFINE k == HandleReplicas(HandlePods(ts, r))
           h == HandleResourceStatus(HandlePods(ts, r), r)
           e == HandleReport(ts, r)
           Errors(x) == Cardinality(ErrorsOf(x, Root))
<1>0. /\ r \in Report /\ r.succeeded \in BOOLEAN /\ r.failed \in BOOLEAN
      /\ r.ch \in ReportChannel /\ Root \in Resource
      /\ (r.succeeded \/ r.ch = "Succeeded") <=> r.succeeded
      /\ r.ch = "Failed" => r.failed
      /\ r.ch = "PodError" => r.pod \in Resource
  BY DEF Carried, Report, ReportChannel, Resource
<1>1. /\ k \in ReadinessTaskState /\ k.errors = ts.errors
      /\ k.status = ts.status /\ k.statuses = ts.statuses
  BY HandleReplicasIs
<1>2. h = CASE r.succeeded -> SetReady(k)
            [] ~ r.succeeded /\ r.failed -> AddError(k, Root)
            [] ~ r.succeeded /\ ~ r.failed -> k
  BY <1>0 DEF HandleResourceStatus
<1>3. e = CASE r.ch = "Added" -> SetRootResourceCreated(h)
            [] r.ch = "PodError" -> AddError(h, r.pod)
            [] r.ch \in {"Succeeded", "Failed", "Status", "AddedPod"} -> h
  BY DEF HandleReport
<1> HIDE DEF k, h, e
<1>4. Ledger(k) /\ Errors(k) = Errors(ts) /\ (Open(ts) => Open(k))
  <2>1. Ledger(k) /\ ErrorsOf(k, Root) = ErrorsOf(ts, Root)
    BY <1>0, <1>1, SameLedger
  <2>2. QED
    BY <1>1, <2>1 DEF Open
<1>5. Errors(k) \in Nat
  BY <1>0, <1>1, <1>4, AddErrorIs
<1>6. /\ h \in ReadinessTaskState /\ Ledger(h)
      /\ Errors(h) \in Nat /\ Errors(h) >= Errors(ts)
      /\ r.ch = "Failed" /\ ~ r.succeeded => Errors(h) >= Errors(ts) + 1
      /\ ~ r.succeeded /\ Open(ts) => Open(h)
      /\ r.succeeded => h.status = "Ready"
  <2>1. CASE r.succeeded
    <3>1. h = SetReady(k)
      BY <1>2, <2>1
    <3>2. h \in ReadinessTaskState /\ h.errors = k.errors /\ h.status = "Ready"
      BY <1>1, <3>1, SetReadyIs
    <3>3. Ledger(h) /\ ErrorsOf(h, Root) = ErrorsOf(k, Root)
      BY <1>0, <1>4, <3>2, SameLedger
    <3>4. QED
      BY <1>0, <1>4, <1>5, <2>1, <3>2, <3>3
  <2>2. CASE ~ r.succeeded /\ r.failed
    <3>1. h = AddError(k, Root)
      BY <1>2, <2>2
    <3>2. /\ h \in ReadinessTaskState /\ Ledger(h) /\ Errors(h) = Errors(k) + 1
          /\ h.status = k.status /\ h.statuses = k.statuses
      BY <1>0, <1>1, <1>4, <3>1, AddErrorIs
    <3>3. Open(ts) => Open(h)
      BY <1>4, <3>2 DEF Open
    <3>4. QED
      BY <1>4, <1>5, <2>2, <3>2, <3>3
  <2>3. CASE ~ r.succeeded /\ ~ r.failed
    <3>1. h = k
      BY <1>2, <2>3
    <3>2. QED
      BY <1>0, <1>1, <1>4, <1>5, <2>3, <3>1
  <2>4. QED
    BY <1>0, <2>1, <2>2, <2>3
<1>7. /\ e \in ReadinessTaskState /\ Ledger(e)
      /\ Errors(e) \in Nat /\ Errors(e) >= Errors(h)
      /\ e.status = h.status
      /\ Open(h) => Open(e)
  <2>1. CASE r.ch = "Added"
    <3>1. e = SetRootResourceCreated(h)
      BY <1>3, <2>1
    <3>2. /\ e \in ReadinessTaskState /\ e.errors = h.errors /\ e.status = h.status
          /\ \A s \in Resource : e.statuses[s] # "Ready" \/ e.statuses[s] = h.statuses[s]
      BY <1>6, <3>1, SetRootResourceCreatedIs
    <3>3. Ledger(e) /\ ErrorsOf(e, Root) = ErrorsOf(h, Root)
      BY <1>0, <1>6, <3>2, SameLedger
    <3>4. Open(h) => Open(e)
      BY <3>2 DEF Open
    <3>5. QED
      BY <1>6, <3>2, <3>3, <3>4
  <2>2. CASE r.ch = "PodError"
    <3>1. e = AddError(h, r.pod) /\ r.pod \in Resource
      BY <1>0, <1>3, <2>2
    <3>2. /\ e \in ReadinessTaskState /\ Ledger(e)
          /\ Cardinality(ErrorsOf(e, r.pod)) = Cardinality(ErrorsOf(h, r.pod)) + 1
          /\ \A s \in Resource : s # r.pod => ErrorsOf(e, s) = ErrorsOf(h, s)
          /\ e.status = h.status /\ e.statuses = h.statuses
      BY <1>6, <3>1, AddErrorIs
    <3>3. Errors(e) \in Nat /\ Errors(e) >= Errors(h)
      <4>1. CASE r.pod = Root
        BY <1>6, <3>2, <4>1
      <4>2. CASE r.pod # Root
        BY <1>0, <1>6, <3>2, <4>2
      <4>3. QED
        BY <4>1, <4>2
    <3>4. Open(h) => Open(e)
      BY <3>2 DEF Open
    <3>5. QED
      BY <3>2, <3>3, <3>4
  <2>3. CASE r.ch \in {"Succeeded", "Failed", "Status", "AddedPod"}
    <3>1. e = h
      BY <1>3, <2>3
    <3>2. QED
      BY <1>6, <3>1
  <2>4. QED
    BY <1>0, <2>1, <2>2, <2>3 DEF ReportChannel
<1> HIDE DEF Errors
<1>8. Errors(ts) \in Nat
  BY <1>4, <1>5
<1>9. /\ Errors(e) >= Errors(ts)
      /\ r.ch = "Failed" /\ ~ r.succeeded => Errors(e) >= Errors(ts) + 1
  BY <1>6, <1>7, <1>8
<1>10. QED
  BY <1>6, <1>7, <1>8, <1>9 DEF e, Errors

-----------------------------------------------------------------------------
(***************************************************************************)
(* What a step needs to keep the invariant.                                *)
(***************************************************************************)

LEMMA CountsAreNumbers ==
  ASSUME Ledger(task)
  PROVE  RootErrors \in Nat /\ FailedInOut \in {0, 1}
<1>1. IsFiniteSet(ErrorsOf(task, Root))
  BY DEF Ledger, Row, Resource
<1>2. RootErrors \in Nat
  BY <1>1, FS_CardinalityType DEF RootErrors
<1>3. QED
  BY <1>2 DEF FailedInOut

\* A step that charges nothing and takes no report.
LEMMA NothingCharged ==
  ASSUME CompletionInv, UNCHANGED <<failures, t, task>>
  PROVE  ChargesKept
<1>1. RootErrors' = RootErrors /\ FailedInOut' = FailedInOut
  BY DEF RootErrors, ErrorsOf, FailedInOut, Sending
<1>2. RootErrors \in Nat /\ FailedInOut \in {0, 1} /\ failures \in Nat
  BY CountsAreNumbers DEF CompletionInv, CompletionTypeOK, TrackerTypeOK
<1>3. QED
  BY <1>1, <1>2 DEF ChargesKept, FailuresTaken

\* A step of the tracker or of the world, while the consumer waits.
LEMMA TrackerStep ==
  ASSUME CompletionInv, verdict = "tracking", UNCHANGED consumer,
         TrackerTypeOK', OneOut(t'), Announces(t'), PodsAreTrue',
         \/ failures' = failures /\ t.out = <<>>
         \/ failures' = failures /\ t' = t
         \/ failures' = failures + 1 /\ t.out = <<>> /\ FailedInOut' = 1
  PROVE  Kept
<1> USE DEF consumer
<1>1. CompletionTypeOK'
  BY DEF CompletionInv, CompletionTypeOK
<1>2. Queued' /\ Ledger(task)' /\ Open(task)'
  BY DEF CompletionInv, Queued, Ledger, Row, Open, ErrorsOf
<1>3. ChargesKept
  <2>1. RootErrors' = RootErrors
    BY DEF RootErrors, ErrorsOf
  <2>2. RootErrors \in Nat /\ FailedInOut \in {0, 1} /\ FailedInOut' \in {0, 1}
    BY CountsAreNumbers DEF CompletionInv, FailedInOut
  <2>3. failures \in Nat
    BY DEF CompletionInv, CompletionTypeOK, TrackerTypeOK
  <2>4. t.out = <<>> => FailedInOut = 0
    BY DEF FailedInOut, Sending
  <2>5. t' = t => FailedInOut' = FailedInOut
    BY DEF FailedInOut, Sending
  <2> HIDE DEF consumer
  <2>6. 0 >= (failures' - FailedInOut') - (failures - FailedInOut)
    BY <2>2, <2>3, <2>4, <2>5
  <2>7. QED
    BY <2>1, <2>2, <2>6 DEF ChargesKept, FailuresTaken
<1>4. QED
  BY <1>1, <1>2, <1>3 DEF Kept, CompletionInv

\* A handler of the tracker, which can select only with nothing left to say.
LEMMA HandlerStep ==
  ASSUME CompletionInv, verdict = "tracking", UNCHANGED consumer, Selecting,
         TrackerTypeOK', Good(t'), PodsAreTrue',
         \/ failures' = failures
         \/ failures' = failures + 1 /\ t'.out # <<>> /\ Head(t'.out).ch = "Failed"
  PROVE  Kept
<1>1. t.out = <<>>
  BY DEF Selecting
<1>2. t'.out # <<>> /\ Head(t'.out).ch = "Failed" => FailedInOut' = 1
  BY DEF FailedInOut, Sending
<1>3. QED
  BY <1>1, <1>2, TrackerStep DEF Good

\* A step that leaves the tracker alone.
LEMMA WorldStep ==
  ASSUME CompletionInv, verdict = "tracking", UNCHANGED consumer,
         TrackerTypeOK', UNCHANGED <<failures, t>>, PodsAreTrue'
  PROVE  Kept
<1>1. OneOut(t') /\ Announces(t')
  BY DEF CompletionInv
<1>2. QED
  BY <1>1, TrackerStep

LEMMA SelectingIsFree ==
  ASSUME CompletionInv, verdict = "tracking", Selecting
  PROVE  TrackerTypeOK /\ Free(t) /\ ~ IsSucceeded(t)
BY DEF CompletionInv, CompletionTypeOK, TrackerTypeOK, Free, Selecting, Announces

\* What is true of Pods stays true, since a Pod that is over stays so.
LEMMA FactsStay ==
  ASSUME \A p \in Pod : IsOver(p) => IsOver(p)'
  PROVE  /\ Fact \subseteq Fact' /\ Final \subseteq Final'
         /\ statuses' \in Seq(Fact) /\ errs' \in Seq(Fact) /\ dones' \in Seq(Final)
              => RelaysAreTrue'
<1>1. Fact \subseteq Fact' /\ Final \subseteq Final'
  BY DEF Fact, Final, Relayed
<1>2. QED
  BY <1>1, SeqWidens DEF RelaysAreTrue

\* A step of Track, which sees nothing of the cluster but what is in its relays.
LEMMA TrackStep ==
  ASSUME CompletionInv, UNCHANGED pods,
         \A p \in Pod : runs'[p] = runs[p]
                        \/ /\ runs'[p].last = runs[p].last
                           /\ {runs[p].phase, runs'[p].phase} \cap {"cancelled", "done"} = {},
         statuses' \in Seq(Fact), errs' \in Seq(Fact), dones' \in Seq(Final),
         KnowsEnded(t'), Follows(t', followed'), followed' \subseteq Pod
  PROVE  PodsAreTrue'
<1>1. \A p \in Pod : (Ended(p)' <=> Ended(p)) /\ (IsOver(p)' <=> IsOver(p))
  BY DEF Ended, IsOver
<1>2. RunsAreTrue'
  BY <1>1 DEF CompletionInv, PodsAreTrue, RunsAreTrue
<1>3. RelaysAreTrue'
  BY <1>1, FactsStay
<1>4. KnowsEnded(t)' /\ Follows(t, followed)'
  BY <1>1 DEF KnowsEnded, Follows
<1>5. QED
  BY <1>2, <1>3, <1>4 DEF PodsAreTrue

\* A handler that rewrites at most the status of one Pod, by what it was told.
LEMMA KnowsBetter ==
  ASSUME NEW d \in Tracker, NEW e, KnowsEnded(d), NEW r \in Fact,
         \/ e.podStatuses = d.podStatuses
         \/ e.podStatuses = [d.podStatuses EXCEPT ![r.pod] = r.status]
  PROVE  KnowsEnded(e)
<1>1. r.pod \in Pod /\ (r.status \in Terminated => IsOver(r.pod))
  BY DEF Fact, Relayed
<1>2. d.podStatuses \in [Pod -> PodStatus \cup {Nil}]
  BY DEF Tracker
<1>3. QED
  BY <1>1, <1>2 DEF KnowsEnded

-----------------------------------------------------------------------------
(***************************************************************************)
(* The steps of the tracker.                                               *)
(***************************************************************************)

Event == [type : {"Added", "Modified", "Deleted"}, object : Object]

LEMMA DeliveryIs ==
  ASSUME TrackerTypeOK, NEW type, Delivers(type)
  PROVE  Head(events) \in Event /\ events' \in Seq(Event) /\ Head(events).object \in Object
<1>1. events \in Seq(Event) /\ events # <<>> /\ events' = Tail(events)
  BY DEF TrackerTypeOK, Delivers, Event
<1>2. Head(events) \in Event /\ events' \in Seq(Event)
  BY <1>1, HeadAndTail
<1>3. QED
  BY <1>2 DEF Event

\* What the relays hold, by type and by truth.
LEMMA RelaysAre ==
  ASSUME CompletionInv
  PROVE  /\ statuses \in Seq(Fact) /\ errs \in Seq(Fact) /\ dones \in Seq(Final)
         /\ Fact \subseteq Relayed /\ Final \subseteq Fact /\ Final \subseteq Relayed
         /\ KnowsEnded(t) /\ Follows(t, followed) /\ RunsAreTrue /\ followed \subseteq Pod
         /\ t \in Tracker /\ TrackerTypeOK
BY DEF CompletionInv, PodsAreTrue, RelaysAreTrue, Fact, Final, CompletionTypeOK, TrackerTypeOK

LEMMA HandleObjectKeeps ==
  ASSUME CompletionInv, verdict = "tracking", UNCHANGED consumer,
         NEW type \in {"Added", "Modified"}, HandleObject(type)
  PROVE  Kept
<1>1. TrackerTypeOK /\ Selecting /\ Free(t)
  BY SelectingIsFree DEF HandleObject
<1>2. /\ announced' \in {{}, announced}
      /\ t' = HandleState(t, Head(events).object)
      /\ UNCHANGED <<object, failure, pods, added, runs, relays, changes, ctxDone, pc, history>>
  BY DEF HandleObject
<1>3. Head(events).object \in Object /\ events' \in Seq(Event)
  BY <1>1, DeliveryIs DEF HandleObject
<1>4. Good(t') /\ SamePods(t, t')
  BY <1>1, <1>2, <1>3, HandleStateIs
<1>5. TrackerTypeOK'
  BY <1>1, <1>2, <1>3, <1>4 DEF TrackerTypeOK, Good, relays, history, Event
<1>6. PodsAreTrue'
  <2>1. KnowsEnded(t') /\ Follows(t', followed')
    BY <1>2, <1>4, RelaysAre DEF KnowsEnded, Follows, SamePods, history
  <2>2. QED
    BY <1>2, <2>1, RelaysAre, TrackStep DEF relays, history
<1>7. QED
  BY <1>1, <1>2, <1>4, <1>5, <1>6, HandlerStep DEF history

\* Whoever is followed no longer after a deletion is tracked no longer either.
LEMMA HandleObjectDeletedKeeps ==
  ASSUME CompletionInv, verdict = "tracking", UNCHANGED consumer, HandleObjectDeleted
  PROVE  Kept
<1>1. TrackerTypeOK /\ Selecting /\ t \in Tracker
  BY SelectingIsFree DEF HandleObjectDeleted, TrackerTypeOK
<1>2. /\ t' = ResetOnDelete(t) /\ followed' = {}
      /\ UNCHANGED <<object, failure, podSide, changes, ctxDone, pc, failures>>
  BY DEF HandleObjectDeleted
<1>3. events' \in Seq(Event)
  BY <1>1, DeliveryIs DEF HandleObjectDeleted
<1>4. Good(t') /\ t'.podStatuses = t.podStatuses
  BY <1>1, <1>2, ResetOnDeleteIs
<1>5. TrackerTypeOK'
  BY <1>1, <1>2, <1>3, <1>4 DEF TrackerTypeOK, Good, podSide, relays, Event
<1>6. PodsAreTrue'
  <2>1. KnowsEnded(t') /\ Follows(t', followed') /\ followed' \subseteq Pod
    BY <1>2, <1>4, RelaysAre DEF KnowsEnded, Follows
  <2>2. QED
    BY <1>2, <2>1, RelaysAre, TrackStep DEF podSide, relays
<1>7. QED
  BY <1>1, <1>2, <1>4, <1>5, <1>6, HandlerStep

LEMMA HandleObjectFailedKeeps ==
  ASSUME CompletionInv, verdict = "tracking", UNCHANGED consumer, HandleObjectFailed
  PROVE  Kept
<1>1. TrackerTypeOK /\ Selecting /\ Free(t) /\ ~ IsSucceeded(t)
  BY SelectingIsFree DEF HandleObjectFailed
<1>2. /\ failure' = FALSE /\ t' = HandleFailure(t) /\ failures' = failures + 1
      /\ UNCHANGED <<object, events, podSide, changes, ctxDone, pc, followed>>
  BY DEF HandleObjectFailed
<1>3. Good(t') /\ SamePods(t, t') /\ t'.out # <<>> /\ Head(t'.out).ch = "Failed"
  BY <1>1, <1>2, HandleFailureIs
<1>4. TrackerTypeOK'
  <2>1. failures' \in Nat
    BY <1>1, <1>2 DEF TrackerTypeOK
  <2>2. QED
    BY <1>1, <1>2, <1>3, <2>1 DEF TrackerTypeOK, Good, podSide, relays
<1>5. PodsAreTrue'
  <2>1. KnowsEnded(t') /\ Follows(t', followed')
    BY <1>2, <1>3, RelaysAre DEF KnowsEnded, Follows, SamePods
  <2>2. QED
    BY <1>2, <2>1, RelaysAre, TrackStep DEF podSide, relays
<1>6. QED
  BY <1>1, <1>2, <1>3, <1>4, <1>5, HandlerStep

\* The Pod is tracked from the step on that tells Track of it, and was not before.
LEMMA HandlePodAddedKeeps ==
  ASSUME CompletionInv, AnnouncedOnce, verdict = "tracking", UNCHANGED consumer, HandlePodAdded
  PROVE  Kept
<1> DEFINE p == Head(added)
           said == PodReport(t, "AddedPod", p)
<1>1. TrackerTypeOK /\ Selecting /\ Free(t) /\ ~ IsSucceeded(t)
  BY SelectingIsFree DEF HandlePodAdded
<1>2. /\ added # <<>> /\ added' = Tail(added)
      /\ t' = [said EXCEPT !.TrackedPodsNames = @ \cup {p}]
      /\ runs' = [runs EXCEPT ![p].phase = "starting"]
      /\ followed' = followed \cup {p}
      /\ UNCHANGED <<object, events, failure, pods, announced, relays, changes, ctxDone, pc,
                     failures>>
  BY DEF HandlePodAdded
<1>3. p \in Pod /\ added' \in Seq(Pod)
  BY <1>1, <1>2, HeadAndTail DEF TrackerTypeOK
<1> HIDE DEF p
<1>4. Good(said) /\ SamePods(t, said)
  BY <1>1, <1>3, PodReportIs
<1>5. ~ IsSucceeded(said)
  <2>1. said.lastObject = t.lastObject
    <3>1. t \in Tracker
      BY <1>1 DEF TrackerTypeOK
    <3>2. QED
      BY <3>1 DEF PodReport, Send, Tracker
  <2> HIDE DEF said
  <2>2. QED
    BY <1>1, <1>4, <2>1, SameSuccess DEF SamePods
<1> HIDE DEF said
<1>6. /\ Good(t') /\ t'.podStatuses = said.podStatuses
      /\ t'.TrackedPodsNames = said.TrackedPodsNames \cup {p}
  BY <1>2, <1>3, <1>4, <1>5, TrackedIs
<1>7. /\ runs' \in [Pod -> [phase : {"none", "starting", "running", "cancelled", "done"},
                            last : PodStatus]]
      /\ \A q \in Pod : runs'[q] = runs[q]
                        \/ /\ runs'[q].last = runs[q].last
                           /\ {runs[q].phase, runs'[q].phase} \cap {"cancelled", "done"} = {}
  <2>0. runs[p].phase = "none"
    BY <1>2 DEF AnnouncedOnce, p
  <2> DEFINE y == [runs[p] EXCEPT !.phase = "starting"]
  <2>1. /\ y \in [phase : {"none", "starting", "running", "cancelled", "done"}, last : PodStatus]
        /\ y.last = runs[p].last /\ y.phase = "starting"
    BY <1>1, <1>3 DEF TrackerTypeOK
  <2>2. runs' = [runs EXCEPT ![p] = y]
    BY <1>2
  <2> HIDE DEF y
  <2>3. QED
    BY <1>1, <1>3, <2>0, <2>1, <2>2 DEF TrackerTypeOK
<1>8. followed' \subseteq Pod
  BY <1>2, <1>3, RelaysAre
<1>9. TrackerTypeOK'
  BY <1>1, <1>2, <1>3, <1>6, <1>7, <1>8 DEF TrackerTypeOK, Good, relays
<1>10. PodsAreTrue'
  <2>1. KnowsEnded(t')
    BY <1>4, <1>6, RelaysAre DEF KnowsEnded, SamePods
  <2>2. Follows(t', followed')
    BY <1>2, <1>4, <1>6, RelaysAre DEF Follows, SamePods
  <2>3. QED
    BY <1>2, <1>7, <1>8, <2>1, <2>2, RelaysAre, TrackStep DEF relays
<1>11. QED
  BY <1>1, <1>2, <1>6, <1>9, <1>10, HandlerStep

\* A Pod that is given up has ended.
LEMMA HandleDonePodsKeeps ==
  ASSUME CompletionInv, verdict = "tracking", UNCHANGED consumer, HandleDonePods
  PROVE  Kept
<1> DEFINE r == Head(dones)
<1>1. TrackerTypeOK /\ Selecting /\ Free(t)
  BY SelectingIsFree DEF HandleDonePods
<1>2. /\ dones # <<>> /\ dones' = Tail(dones) /\ t' = PodDone(t, r)
      /\ UNCHANGED <<object, events, failure, pods, announced, added, runs, statuses, errs,
                     changes, ctxDone, pc, history>>
  BY DEF HandleDonePods
<1>3. r \in Final /\ dones' \in Seq(Final)
  BY <1>2, HeadAndTail, RelaysAre
<1>4. r \in Relayed /\ r \in Fact /\ IsOver(r.pod)
  BY <1>3, RelaysAre DEF Final
<1> HIDE DEF r
<1>5. /\ Good(t') /\ t'.TrackedPodsNames = t.TrackedPodsNames \ {r.pod}
      /\ \/ t'.podStatuses = t.podStatuses
         \/ t'.podStatuses = [t.podStatuses EXCEPT ![r.pod] = r.status]
  BY <1>1, <1>2, <1>4, PodDoneIs
<1>6. dones' \in Seq(Relayed)
  BY <1>3, RelaysAre, SeqWidens
<1>7. TrackerTypeOK'
  BY <1>1, <1>2, <1>5, <1>6 DEF TrackerTypeOK, Good, history
<1>8. PodsAreTrue'
  <2>1. KnowsEnded(t')
    BY <1>4, <1>5, RelaysAre, KnowsBetter
  <2>2. Follows(t', followed') /\ followed' \subseteq Pod
    BY <1>2, <1>4, <1>5, RelaysAre DEF Follows, history
  <2>3. QED
    BY <1>2, <1>3, <2>1, <2>2, RelaysAre, TrackStep
<1>9. QED
  BY <1>1, <1>2, <1>5, <1>7, <1>8, HandlerStep DEF history

LEMMA WithStatusIs ==
  ASSUME Free(t), NEW r \in Relayed
  PROVE  LET e == WithStatus(r)
         IN /\ Free(e) /\ e.TrackedPodsNames = t.TrackedPodsNames
            /\ e.podStatuses = [t.podStatuses EXCEPT ![r.pod] = r.status]
<1>1. r.pod \in Pod /\ r.status \in PodStatus
  BY DEF Relayed
<1>2. QED
  BY <1>1, StatusKeepsFree DEF WithStatus

LEMMA HandlePodStatusesKeeps ==
  ASSUME CompletionInv, verdict = "tracking", UNCHANGED consumer, HandlePodStatuses
  PROVE  Kept
<1> DEFINE r == Head(statuses)
           e == WithStatus(r)
<1>1. TrackerTypeOK /\ Selecting /\ Free(t)
  BY SelectingIsFree DEF HandlePodStatuses
<1>2. /\ statuses # <<>> /\ statuses' = Tail(statuses) /\ t' = HandleSameState(e)
      /\ UNCHANGED <<object, events, failure, pods, announced, added, runs, errs, dones,
                     changes, ctxDone, pc, history>>
  BY DEF HandlePodStatuses
<1>3. r \in Fact /\ r \in Relayed /\ statuses' \in Seq(Fact)
  BY <1>2, HeadAndTail, RelaysAre
<1> HIDE DEF r
<1>4. /\ Free(e) /\ e.TrackedPodsNames = t.TrackedPodsNames
      /\ e.podStatuses = [t.podStatuses EXCEPT ![r.pod] = r.status]
  BY <1>1, <1>3, WithStatusIs
<1> HIDE DEF e
<1>5. Good(t') /\ SamePods(e, t')
  BY <1>2, <1>4, HandleSameStateIs
<1>6. statuses' \in Seq(Relayed)
  BY <1>3, RelaysAre, SeqWidens
<1>7. TrackerTypeOK'
  BY <1>1, <1>2, <1>5, <1>6 DEF TrackerTypeOK, Good, history
<1>8. PodsAreTrue'
  <2>1. KnowsEnded(t')
    BY <1>3, <1>4, <1>5, RelaysAre, KnowsBetter DEF SamePods
  <2>2. Follows(t', followed') /\ followed' \subseteq Pod
    BY <1>2, <1>4, <1>5, RelaysAre DEF Follows, SamePods, history
  <2>3. QED
    BY <1>2, <1>3, <2>1, <2>2, RelaysAre, TrackStep
<1>9. QED
  BY <1>1, <1>2, <1>5, <1>7, <1>8, HandlerStep DEF history

LEMMA HandlePodContainerErrorsKeeps ==
  ASSUME CompletionInv, verdict = "tracking", UNCHANGED consumer, HandlePodContainerErrors
  PROVE  Kept
<1> DEFINE r == Head(errs)
           e == WithStatus(r)
<1>1. TrackerTypeOK /\ Selecting /\ Free(t)
  BY SelectingIsFree DEF HandlePodContainerErrors
<1>2. /\ errs # <<>> /\ errs' = Tail(errs) /\ t' = PodReport(e, "PodError", r.pod)
      /\ UNCHANGED <<object, events, failure, pods, announced, added, runs, statuses, dones,
                     changes, ctxDone, pc, history>>
  BY DEF HandlePodContainerErrors
<1>3. r \in Fact /\ r \in Relayed /\ errs' \in Seq(Fact) /\ r.pod \in Pod
  <2>1. r \in Fact /\ errs' \in Seq(Fact)
    BY <1>2, HeadAndTail, RelaysAre
  <2>2. QED
    BY <2>1, RelaysAre DEF Relayed
<1> HIDE DEF r
<1>4. /\ Free(e) /\ e.TrackedPodsNames = t.TrackedPodsNames
      /\ e.podStatuses = [t.podStatuses EXCEPT ![r.pod] = r.status]
  BY <1>1, <1>3, WithStatusIs
<1> HIDE DEF e
<1>5. Good(t') /\ SamePods(e, t')
  BY <1>2, <1>3, <1>4, PodReportIs
<1>6. errs' \in Seq(Relayed)
  BY <1>3, RelaysAre, SeqWidens
<1>7. TrackerTypeOK'
  BY <1>1, <1>2, <1>5, <1>6 DEF TrackerTypeOK, Good, history
<1>8. PodsAreTrue'
  <2>1. KnowsEnded(t')
    BY <1>3, <1>4, <1>5, RelaysAre, KnowsBetter DEF SamePods
  <2>2. Follows(t', followed') /\ followed' \subseteq Pod
    BY <1>2, <1>4, <1>5, RelaysAre DEF Follows, SamePods, history
  <2>3. QED
    BY <1>2, <1>3, <2>1, <2>2, RelaysAre, TrackStep
<1>9. QED
  BY <1>1, <1>2, <1>5, <1>7, <1>8, HandlerStep DEF history

\* Track returns between two handlers, and leaves its error for the consumer.
LEMMA ReturnKeeps ==
  ASSUME CompletionInv, Return, trackErr' \in {"error", "stopped"},
         UNCHANGED <<queue, task, verdict>>
  PROVE  Kept
<1>1. /\ pc' = "returned"
      /\ UNCHANGED <<object, events, failure, podSide, changes, ctxDone, history, t>>
  BY DEF Return
<1>2. CompletionTypeOK'
  BY <1>1 DEF CompletionInv, CompletionTypeOK, TrackerTypeOK, podSide, relays, history
<1>3. PodsAreTrue'
  <2>1. KnowsEnded(t') /\ Follows(t', followed') /\ followed' \subseteq Pod
    BY <1>1, RelaysAre DEF KnowsEnded, Follows, history
  <2>2. QED
    BY <1>1, <2>1, RelaysAre, TrackStep DEF podSide, relays
<1>4. CompletionInv'
  BY <1>1, <1>2, <1>3 DEF CompletionInv, Queued, Ledger, Row, ErrorsOf, Open
<1>5. ChargesKept
  BY <1>1, NothingCharged DEF history
<1>6. QED
  BY <1>4, <1>5 DEF Kept

-----------------------------------------------------------------------------
(***************************************************************************)
(* The steps of the cluster.                                               *)
(***************************************************************************)

LEMMA ChangeIsCounted ==
  ASSUME changes \in 0 .. MaxChanges, Change
  PROVE  changes' \in 0 .. MaxChanges
<1>1. MaxChanges \in Nat
  BY CompletionConstantsAssumption
<1>2. QED
  BY <1>1 DEF Change

LEMMA ObjectChangesKeep ==
  ASSUME CompletionInv, verdict = "tracking", UNCHANGED consumer,
         ObjectAdded \/ ObjectModified \/ ObjectDeleted
  PROVE  Kept
<1>1. TrackerTypeOK /\ events \in Seq(Event)
  BY RelaysAre DEF TrackerTypeOK, Event
<1>2. Change /\ UNCHANGED <<failure, podSide, ctxDone, pc, history, t>>
  BY DEF ObjectAdded, ObjectModified, ObjectDeleted, ObjectChanges
<1>3. /\ object' \in Object \cup {Nil}
      /\ \E type \in {"Added", "Modified", "Deleted"}, o \in Object :
           events' = Append(events, [type |-> type, object |-> o])
  <2>1. CASE ObjectAdded
    BY <2>1 DEF ObjectAdded, Notify
  <2>2. CASE ObjectModified
    <3>1. object' \in Object /\ Notify("Modified", object')
      BY <1>1, <2>2 DEF ObjectModified, TrackerTypeOK
    <3>2. QED
      BY <3>1 DEF Notify
  <2>3. CASE ObjectDeleted
    <3>1. object \in Object /\ Notify("Deleted", object) /\ object' = Nil
      BY <1>1, <2>3 DEF ObjectDeleted, TrackerTypeOK
    <3>2. QED
      BY <3>1 DEF Notify
  <2>4. QED
    BY <2>1, <2>2, <2>3
<1>4. events' \in Seq(Event)
  <2>1. PICK type \in {"Added", "Modified", "Deleted"}, o \in Object :
          events' = Append(events, [type |-> type, object |-> o])
    BY <1>3
  <2>2. [type |-> type, object |-> o] \in Event
    BY DEF Event
  <2>3. QED
    BY <1>1, <2>1, <2>2, AppendIs
<1>5. changes' \in 0 .. MaxChanges
  BY <1>1, <1>2, ChangeIsCounted DEF TrackerTypeOK
<1>6. TrackerTypeOK'
  BY <1>1, <1>2, <1>3, <1>4, <1>5 DEF TrackerTypeOK, podSide, relays, history, Event
<1>7. PodsAreTrue'
  <2>1. KnowsEnded(t') /\ Follows(t', followed') /\ followed' \subseteq Pod
    BY <1>2, RelaysAre DEF KnowsEnded, Follows, history
  <2>2. QED
    BY <1>2, <2>1, RelaysAre, TrackStep DEF podSide, relays
<1>8. QED
  BY <1>2, <1>6, <1>7, WorldStep DEF history

LEMMA FailureEventKeeps ==
  ASSUME CompletionInv, verdict = "tracking", UNCHANGED consumer, FailureEvent
  PROVE  Kept
<1>1. /\ Change /\ failure' = TRUE
      /\ UNCHANGED <<object, events, podSide, ctxDone, pc, history, t>>
  BY DEF FailureEvent
<1>2. TrackerTypeOK /\ changes' \in 0 .. MaxChanges
  BY <1>1, RelaysAre, ChangeIsCounted DEF TrackerTypeOK
<1>3. TrackerTypeOK'
  BY <1>1, <1>2 DEF TrackerTypeOK, podSide, relays, history
<1>4. PodsAreTrue'
  <2>1. KnowsEnded(t') /\ Follows(t', followed') /\ followed' \subseteq Pod
    BY <1>1, RelaysAre DEF KnowsEnded, Follows, history
  <2>2. QED
    BY <1>1, <2>1, RelaysAre, TrackStep DEF podSide, relays
<1>5. QED
  BY <1>1, <1>3, <1>4, WorldStep DEF history

\* A Pod that has ended does not live again.
LEMMA PodChangesKeep ==
  ASSUME CompletionInv, verdict = "tracking", UNCHANGED consumer,
         NEW p \in Pod, PodChanges(p)
  PROVE  Kept
<1>1. /\ Change
      /\ UNCHANGED <<object, events, failure, announced, added, runs, relays, ctxDone, pc,
                     history, t>>
  BY DEF PodChanges
<1>2. TrackerTypeOK /\ changes' \in 0 .. MaxChanges
  BY <1>1, RelaysAre, ChangeIsCounted DEF TrackerTypeOK
<1>3. pods[p] \in {"absent", "active", "gone"} \cup Terminated
  BY <1>2 DEF TrackerTypeOK
<1>4. PICK state \in {"active", "gone"} \cup Terminated :
        /\ pods' = [pods EXCEPT ![p] = state]
        /\ Ended(p) => state = "gone"
  <2>1. CASE pods[p] = "absent"
    BY <2>1 DEF PodChanges, Ended, Terminated
  <2>2. CASE pods[p] = "active"
    BY <2>2 DEF PodChanges, Ended, Terminated
  <2>3. CASE pods[p] \in Terminated
    BY <2>3 DEF PodChanges, Ended, Terminated
  <2>4. CASE pods[p] = "gone"
    BY <2>4 DEF PodChanges, Ended, Terminated
  <2>5. QED
    BY <1>3, <2>1, <2>2, <2>3, <2>4
<1>5. /\ pods' \in [Pod -> {"absent", "active", "gone"} \cup Terminated]
      /\ pods'[p] = state /\ \A q \in Pod : q # p => pods'[q] = pods[q]
  BY <1>2, <1>4 DEF TrackerTypeOK
<1>6. \A q \in Pod : (Ended(q) => Ended(q)') /\ (IsOver(q) => IsOver(q)')
  BY <1>1, <1>4, <1>5 DEF Ended, IsOver
<1>7. TrackerTypeOK'
  BY <1>1, <1>2, <1>5 DEF TrackerTypeOK, relays, history
<1>8. PodsAreTrue'
  <2>1. RelaysAreTrue'
    BY <1>1, <1>6, RelaysAre, FactsStay DEF relays
  <2>2. KnowsEnded(t)'
    BY <1>1, <1>6, RelaysAre DEF KnowsEnded
  <2>3. Follows(t, followed)'
    BY <1>1, <1>6, RelaysAre DEF Follows, history
  <2>4. RunsAreTrue'
    BY <1>1, <1>6, RelaysAre DEF RunsAreTrue
  <2>5. QED
    BY <2>1, <2>2, <2>3, <2>4 DEF PodsAreTrue
<1>9. QED
  BY <1>1, <1>7, <1>8, WorldStep DEF history

LEMMA PodAnnouncedKeeps ==
  ASSUME CompletionInv, verdict = "tracking", UNCHANGED consumer,
         NEW p \in Pod, PodAnnounced(p)
  PROVE  Kept
<1>1. /\ announced # Nil /\ announced' = announced \cup {p} /\ added' = <<p>>
      /\ UNCHANGED <<object, events, failure, pods, runs, relays, changes, ctxDone, pc,
                     history, t>>
  BY DEF PodAnnounced
<1>2. TrackerTypeOK
  BY RelaysAre
<1>3. announced' \in (SUBSET Pod) \cup {Nil} /\ added' \in Seq(Pod)
  <2>1. announced \in SUBSET Pod
    BY <1>1, <1>2 DEF TrackerTypeOK
  <2>2. announced' \in SUBSET Pod
    BY <1>1, <2>1
  <2>3. QED
    BY <1>1, <2>2
<1>4. TrackerTypeOK'
  BY <1>1, <1>2, <1>3 DEF TrackerTypeOK, relays, history
<1>5. PodsAreTrue'
  <2>1. KnowsEnded(t') /\ Follows(t', followed') /\ followed' \subseteq Pod
    BY <1>1, RelaysAre DEF KnowsEnded, Follows, history
  <2>2. QED
    BY <1>1, <2>1, RelaysAre, TrackStep DEF relays
<1>6. QED
  BY <1>1, <1>4, <1>5, WorldStep DEF history

-----------------------------------------------------------------------------
(***************************************************************************)
(* The steps of the trackers of Pods.                                      *)
(***************************************************************************)

PodRun == [phase : {"none", "starting", "running", "cancelled", "done"}, last : PodStatus]

LEMMA RelayIs ==
  ASSUME NEW S, NEW relay \in Seq(S), NEW p, NEW s, [pod |-> p, status |-> s] \in S,
         NEW relayed \in Relay(relay, p, s)
  PROVE  relayed \in Seq(S)
<1>1. Append(relay, [pod |-> p, status |-> s]) \in Seq(S)
  BY AppendIs
<1>2. QED
  BY <1>1 DEF Relay

\* A run that ends, or has no more to say, makes nothing in the relays untrue.
LEMMA RunKeepsFacts ==
  ASSUME CompletionInv, PodRunSteps, NEW p \in Pod,
         NEW run \in PodRun, runs' = [runs EXCEPT ![p] = run],
         run.phase \in {"cancelled", "done"}
  PROVE  statuses \in Seq(Fact') /\ errs \in Seq(Fact') /\ dones \in Seq(Final')
<1>1. /\ pods' = pods /\ runs'[p] = run
      /\ \A q \in Pod : q # p => runs'[q] = runs[q]
  <2>1. runs \in [Pod -> PodRun]
    BY RelaysAre DEF TrackerTypeOK, PodRun
  <2>2. QED
    BY <2>1 DEF PodRunSteps
<1>2. \A q \in Pod : IsOver(q) => IsOver(q)'
  BY <1>1 DEF IsOver
<1>3. Fact \subseteq Fact' /\ Final \subseteq Final'
  BY <1>2, FactsStay
<1>4. QED
  BY <1>3, RelaysAre, SeqWidens

\* The tracker of a Pod says that the Pod is over when it is.
LEMMA RunStep ==
  ASSUME CompletionInv, verdict = "tracking", UNCHANGED consumer, PodRunSteps,
         changes' \in 0 .. MaxChanges,
         NEW p \in Pod, NEW run \in PodRun, runs' = [runs EXCEPT ![p] = run],
         run.phase \in {"cancelled", "done"} \/ run.last \in Terminated => Ended(p),
         IsOver(p) => run.phase \in {"cancelled", "done"} \/ run.last \in Terminated,
         statuses' \in Seq(Fact'), errs' \in Seq(Fact'), dones' \in Seq(Final')
  PROVE  Kept
<1>1. UNCHANGED <<object, events, pods, failure, announced, added, ctxDone, pc, history, t>>
  BY DEF PodRunSteps
<1>2. TrackerTypeOK /\ runs \in [Pod -> PodRun]
  BY RelaysAre DEF TrackerTypeOK, PodRun
<1>3. /\ runs' \in [Pod -> PodRun] /\ runs'[p] = run
      /\ \A q \in Pod : q # p => runs'[q] = runs[q]
  BY <1>2
<1>4. statuses' \in Seq(Relayed) /\ errs' \in Seq(Relayed) /\ dones' \in Seq(Relayed)
  <2>1. Fact' \subseteq Relayed /\ Final' \subseteq Relayed
    BY DEF Fact, Final, Relayed
  <2>2. QED
    BY <2>1, SeqWidens
<1>5. TrackerTypeOK'
  BY <1>1, <1>2, <1>3, <1>4 DEF TrackerTypeOK, history, PodRun
<1>6. \A q \in Pod : (Ended(q)' <=> Ended(q)) /\ (IsOver(q) => IsOver(q)')
  BY <1>1, <1>3 DEF Ended, IsOver
<1>7. RunsAreTrue'
  BY <1>3, <1>6, RelaysAre DEF RunsAreTrue
<1>8. KnowsEnded(t)' /\ Follows(t, followed)'
  BY <1>1, <1>6, RelaysAre DEF KnowsEnded, Follows, history
<1>9. PodsAreTrue'
  BY <1>7, <1>8 DEF PodsAreTrue, RelaysAreTrue
<1>10. QED
  BY <1>1, <1>5, <1>9, WorldStep DEF history

\* Only the phase of the Pod makes its tracker say that it is over, and only once.
LEMMA HandlePodStateKeeps ==
  ASSUME CompletionInv, verdict = "tracking", UNCHANGED consumer,
         changes' \in 0 .. MaxChanges,
         NEW p \in Pod, NEW s \in {"active", "failing", pods[p]}, HandlePodState(p, s)
  PROVE  Kept
<1> DEFINE run == [phase |-> IF s = "succeeded" THEN "cancelled" ELSE "running", last |-> s]
<1>1. /\ pods[p] \in {"active"} \cup Terminated
      /\ runs[p].phase \in {"starting", "running"} /\ runs[p].last \notin Terminated
      /\ runs' = [runs EXCEPT ![p] = run]
      /\ statuses' \in Relay(statuses, p, s)
      /\ errs' \in {errs} \cup Relay(errs, p, s)
      /\ UNCHANGED dones /\ PodRunSteps
  BY DEF HandlePodState
<1>2. s \in PodStatus /\ (s \in Terminated => Ended(p))
  BY <1>1 DEF PodStatus, Terminated, Ended
<1>3. run \in PodRun
  BY <1>2 DEF PodRun
<1>4. run.phase \in {"cancelled", "done"} \/ run.last \in Terminated => Ended(p)
  BY <1>2 DEF Terminated
<1>5. ~ IsOver(p)
  BY <1>1 DEF IsOver
<1>6. /\ s \in Terminated => IsOver(p)'
      /\ \A q \in Pod : IsOver(q) => IsOver(q)'
  <2>1. pods' = pods /\ runs'[p] = run /\ \A q \in Pod : q # p => runs'[q] = runs[q]
    <3>1. runs \in [Pod -> PodRun]
      BY RelaysAre DEF TrackerTypeOK, PodRun
    <3> HIDE DEF run
    <3>2. QED
      BY <1>1, <3>1 DEF PodRunSteps
  <2>2. s \in Terminated => IsOver(p)'
    BY <1>2, <2>1 DEF IsOver, Ended
  <2>3. QED
    BY <1>5, <2>1, <2>2 DEF IsOver
<1>7. [pod |-> p, status |-> s] \in Fact'
  BY <1>2, <1>6 DEF Fact, Relayed
<1>8. statuses \in Seq(Fact') /\ errs \in Seq(Fact') /\ dones \in Seq(Final')
  <2>1. Fact \subseteq Fact' /\ Final \subseteq Final'
    BY <1>6, FactsStay
  <2>2. QED
    BY <2>1, RelaysAre, SeqWidens
<1>9. statuses' \in Seq(Fact') /\ errs' \in Seq(Fact') /\ dones' \in Seq(Final')
  BY <1>1, <1>7, <1>8, RelayIs
<1> HIDE DEF run
<1>10. QED
  BY <1>1, <1>3, <1>4, <1>5, <1>9, RunStep

LEMMA HandlePodDeletedKeeps ==
  ASSUME CompletionInv, verdict = "tracking", UNCHANGED consumer,
         NEW p \in Pod, HandlePodDeleted(p)
  PROVE  Kept
<1> DEFINE run == [phase |-> "cancelled", last |-> "blank"]
<1>1. /\ Ended(p) /\ runs' = [runs EXCEPT ![p] = run]
      /\ statuses' \in Relay(statuses, p, "blank")
      /\ UNCHANGED <<errs, dones, changes>> /\ PodRunSteps
  BY DEF HandlePodDeleted, Ended
<1>2. run \in PodRun /\ run.phase = "cancelled"
  BY DEF PodRun, PodStatus
<1>3. [pod |-> p, status |-> "blank"] \in Fact'
  BY DEF Fact, Relayed, PodStatus, Terminated
<1> HIDE DEF run
<1>4. statuses' \in Seq(Fact') /\ errs' \in Seq(Fact') /\ dones' \in Seq(Final')
  BY <1>1, <1>2, <1>3, RunKeepsFacts, RelayIs
<1>5. QED
  BY <1>1, <1>2, <1>4, RelaysAre, RunStep DEF TrackerTypeOK

LEMMA StartReturnsKeeps ==
  ASSUME CompletionInv, verdict = "tracking", UNCHANGED consumer,
         NEW p \in Pod, StartReturns(p)
  PROVE  Kept
<1> DEFINE run == [runs[p] EXCEPT !.phase = "done"]
<1>1. /\ runs[p].phase = "cancelled" /\ runs' = [runs EXCEPT ![p] = run]
      /\ dones' \in Relay(dones, p, runs[p].last)
      /\ UNCHANGED <<statuses, errs, changes>> /\ PodRunSteps
  BY DEF StartReturns
<1>2. Ended(p)
  BY <1>1, RelaysAre DEF RunsAreTrue
<1>3. runs[p] \in PodRun /\ runs[p].last \in PodStatus
  BY RelaysAre DEF TrackerTypeOK, PodRun
<1>4. run \in PodRun /\ run.phase = "done"
  BY <1>3 DEF PodRun
<1> HIDE DEF run
<1>5. IsOver(p)'
  <2>1. runs'[p] = run /\ pods' = pods
    <3>1. runs \in [Pod -> PodRun]
      BY RelaysAre DEF TrackerTypeOK, PodRun
    <3>2. QED
      BY <1>1, <3>1 DEF PodRunSteps
  <2>2. QED
    BY <1>2, <1>4, <2>1 DEF IsOver, Ended
<1>6. [pod |-> p, status |-> runs[p].last] \in Final'
  BY <1>3, <1>5 DEF Final, Relayed
<1>7. statuses' \in Seq(Fact') /\ errs' \in Seq(Fact') /\ dones' \in Seq(Final')
  BY <1>1, <1>4, <1>6, RunKeepsFacts, RelayIs
<1>8. QED
  BY <1>1, <1>2, <1>4, <1>7, RelaysAre, RunStep DEF TrackerTypeOK

-----------------------------------------------------------------------------
(***************************************************************************)
(* The steps of the consumer, and of the channels before it.               *)
(***************************************************************************)

\* A report of success ends the tracking; a report of a failure is charged.
LEMMA ConsumeIs ==
  ASSUME CompletionInv, verdict = "tracking", NEW r \in Carried, Consume(r)
  PROVE  /\ task' \in ReadinessTaskState /\ Ledger(task)'
         /\ verdict' \in {"tracking", "ready", "failed", "panic"}
         /\ verdict' = "ready" => r.succeeded
         /\ verdict' = "tracking" =>
              /\ ~ r.succeeded /\ Open(task)'
              /\ RootErrors \in Nat /\ RootErrors' \in Nat /\ RootErrors' >= RootErrors
              /\ r.ch = "Failed" => RootErrors' >= RootErrors + 1
<1>1. task \in ReadinessTaskState /\ Ledger(task) /\ Open(task)
  BY DEF CompletionInv, CompletionTypeOK
<1>2. CASE verdict' = "panic" /\ UNCHANGED task
  BY <1>1, <1>2 DEF Ledger, Row, ErrorsOf
<1>3. CASE task' = HandleReport(task, r) /\ verdict' = VerdictOf(task')
  <2> DEFINE e == HandleReport(task, r)
  <2>1. /\ e \in ReadinessTaskState /\ Ledger(e)
        /\ Cardinality(ErrorsOf(task, Root)) \in Nat /\ Cardinality(ErrorsOf(e, Root)) \in Nat
        /\ Cardinality(ErrorsOf(e, Root)) >= Cardinality(ErrorsOf(task, Root))
        /\ r.ch = "Failed" /\ ~ r.succeeded =>
             Cardinality(ErrorsOf(e, Root)) >= Cardinality(ErrorsOf(task, Root)) + 1
        /\ ~ r.succeeded /\ Open(task) => Open(e)
        /\ r.succeeded => e.status = "Ready"
    BY <1>1, HandleReportIs
  <2> HIDE DEF e
  <2>2. task' = e /\ verdict' = VerdictOf(e)
    BY <1>3 DEF e
  <2>3. Ledger(task)' /\ (Open(e) => Open(task)')
    BY <2>1, <2>2 DEF Ledger, Row, ErrorsOf, Open
  <2>4. RootErrors = Cardinality(ErrorsOf(task, Root)) /\ RootErrors' = Cardinality(ErrorsOf(e, Root))
    BY <2>2 DEF RootErrors, ErrorsOf
  <2>5. CASE r.succeeded
    <3>1. verdict' = "ready"
      BY <2>1, <2>2, <2>5, VerdictIs
    <3>2. QED
      BY <2>1, <2>2, <2>3, <2>5, <3>1
  <2>6. CASE ~ r.succeeded
    <3>1. Open(e)
      BY <1>1, <2>1, <2>6
    <3>2. verdict' \in {"tracking", "failed"}
      BY <2>1, <2>2, <3>1, VerdictIs
    <3>3. QED
      BY <2>1, <2>2, <2>3, <2>4, <2>6, <3>1, <3>2
  <2>7. QED
    BY <2>5, <2>6
<1>4. QED
  BY <1>2, <1>3 DEF Consume

\* What is in the send.
LEMMA SendingIs ==
  ASSUME CompletionInv, t.out # <<>>
  PROVE  /\ Head(t.out) \in Carried /\ t.out = <<Head(t.out)>>
         /\ Head(t.out).ch \in ReportChannel
BY DEF CompletionInv, OneOut, Carried, Report, ReportChannel

LEMMA SentIs ==
  ASSUME CompletionInv, Sent
  PROVE  /\ TrackerTypeOK' /\ PodsAreTrue'
         /\ OneOut(t') /\ t'.out = <<>> /\ FailedInOut' = 0 /\ failures' = failures
         /\ verdict = "tracking" /\ ~ Head(t.out).succeeded => Announces(t')
<1>1. TrackerTypeOK /\ t \in Tracker
  BY DEF CompletionInv, CompletionTypeOK, TrackerTypeOK
<1>2. /\ t' = [t EXCEPT !.out = <<>>]
      /\ UNCHANGED <<object, events, failure, podSide, changes, ctxDone, pc, history>>
  BY DEF Sent
<1>3. <<>> \in Seq(Report)
  OBVIOUS
<1>4. /\ t' \in Tracker /\ t'.out = <<>> /\ t'.State = t.State
      /\ t'.lastObject = t.lastObject /\ SamePods(t, t')
  BY <1>1, <1>2, <1>3 DEF Tracker, SamePods
<1>5. TrackerTypeOK'
  BY <1>1, <1>2, <1>4 DEF TrackerTypeOK, podSide, relays, history
<1>6. PodsAreTrue'
  <2>1. KnowsEnded(t') /\ Follows(t', followed') /\ followed' \subseteq Pod
    BY <1>2, <1>4, RelaysAre DEF KnowsEnded, Follows, SamePods, history
  <2>2. QED
    BY <1>2, <2>1, RelaysAre, TrackStep DEF podSide, relays
<1>7. FailedInOut' = 0 /\ OneOut(t')
  BY <1>4 DEF FailedInOut, Sending, OneOut
<1>8. ASSUME verdict = "tracking", ~ Head(t.out).succeeded
      PROVE  Announces(t')
  <2>1. Announces(t)
    BY <1>8 DEF CompletionInv
  <2>2. QED
    BY <1>4, <1>8, <2>1, SameSuccess DEF Announces, SamePods
<1>9. QED
  BY <1>2, <1>4, <1>5, <1>6, <1>7, <1>8 DEF history

\* What of the invariant the queues are about.
Queues ==
  /\ queue \in [Buffered -> Seq(Report)]
  /\ \A ch \in Buffered : Len(queue[ch]) <= Capacity[ch]
  /\ Queued

LEMMA QueueGrows ==
  ASSUME Queues, NEW ch \in Buffered, NEW r \in Carried, r.ch = ch,
         Len(queue[ch]) < Capacity[ch], queue' = [queue EXCEPT ![ch] = Append(@, r)]
  PROVE  Queues'
<1> DEFINE S == {x \in Carried : x.ch = ch}
           q == Append(queue[ch], r)
<1>1. queue[ch] \in Seq(S) /\ r \in S /\ queue \in [Buffered -> Seq(Report)]
  BY DEF Queues, Queued
<1>2. Capacity[ch] \in Nat
  BY CompletionReadinessAssumption
<1>3. q \in Seq(S) /\ Len(q) = Len(queue[ch]) + 1 /\ Len(queue[ch]) \in Nat
  BY <1>1, AppendIs
<1>4. Len(q) <= Capacity[ch]
  BY <1>2, <1>3
<1>5. r \in Report /\ queue[ch] \in Seq(Report)
  BY <1>1 DEF Carried
<1>6. q \in Seq(Report)
  BY <1>5, AppendIs
<1> HIDE DEF q
<1>7. /\ queue' \in [Buffered -> Seq(Report)] /\ queue'[ch] = q
      /\ \A c \in Buffered : c # ch => queue'[c] = queue[c]
  BY <1>1, <1>6 DEF q
<1>8. \A c \in Buffered : Len(queue'[c]) <= Capacity[c]
  BY <1>4, <1>7 DEF Queues
<1>9. Queued'
  BY <1>3, <1>7 DEF Queues, Queued
<1>10. QED
  BY <1>7, <1>8, <1>9 DEF Queues

LEMMA QueueShrinks ==
  ASSUME Queues, NEW ch \in Buffered, queue[ch] # <<>>,
         queue' = [queue EXCEPT ![ch] = Tail(@)]
  PROVE  /\ Queues'
         /\ Head(queue[ch]) \in Carried /\ Head(queue[ch]).ch = ch
<1> DEFINE S == {x \in Carried : x.ch = ch}
           q == Tail(queue[ch])
<1>1. queue[ch] \in Seq(S) /\ queue \in [Buffered -> Seq(Report)]
  BY DEF Queues, Queued
<1>2. Capacity[ch] \in Nat
  BY CompletionReadinessAssumption
<1>3. Head(queue[ch]) \in S /\ q \in Seq(S)
  BY <1>1, HeadAndTail
<1>4. q \in Seq(Report)
  BY <1>1, HeadAndTail
<1>5. Len(q) <= Len(queue[ch]) /\ Len(q) \in Nat /\ Len(queue[ch]) \in Nat
  <2>1. Len(queue[ch]) \in Nat /\ Len(queue[ch]) # 0 /\ Len(q) = Len(queue[ch]) - 1
    BY <1>1
  <2> HIDE DEF q
  <2>2. QED
    BY <2>1
<1>6. Len(queue[ch]) <= Capacity[ch]
  BY DEF Queues
<1>7. Len(q) <= Capacity[ch]
  BY <1>2, <1>5, <1>6
<1> HIDE DEF q
<1>8. /\ queue' \in [Buffered -> Seq(Report)] /\ queue'[ch] = q
      /\ \A c \in Buffered : c # ch => queue'[c] = queue[c]
  BY <1>1, <1>4 DEF q
<1>9. \A c \in Buffered : Len(queue'[c]) <= Capacity[c]
  BY <1>7, <1>8 DEF Queues
<1>10. Queued'
  BY <1>3, <1>8 DEF Queues, Queued
<1>11. QED
  BY <1>3, <1>8, <1>9, <1>10 DEF Queues

LEMMA EnqueueKeeps ==
  ASSUME CompletionInv, verdict = "tracking", NEW ch \in Buffered, Enqueue(ch)
  PROVE  Kept
<1> DEFINE r == Head(t.out)
<1>1. /\ t.out # <<>> /\ r.ch = ch /\ Len(queue[ch]) < Capacity[ch]
      /\ queue' = [queue EXCEPT ![ch] = Append(@, r)]
      /\ Sent /\ UNCHANGED <<trackErr, task, verdict>>
  BY DEF Enqueue, Sending
<1>2. r \in Carried
  BY <1>1, SendingIs
<1>3. ~ r.succeeded /\ ch # "Failed"
  BY <1>1, <1>2 DEF Carried, Buffered
<1>4. Queues'
  BY <1>1, <1>2, QueueGrows DEF Queues, CompletionInv, CompletionTypeOK
<1>5. /\ TrackerTypeOK' /\ PodsAreTrue' /\ OneOut(t')
      /\ FailedInOut' = 0 /\ failures' = failures /\ Announces(t')
  BY <1>1, <1>3, SentIs
<1>6. CompletionTypeOK'
  BY <1>1, <1>4, <1>5 DEF CompletionInv, CompletionTypeOK, Queues
<1>7. Ledger(task)' /\ Open(task)'
  BY <1>1 DEF CompletionInv, Ledger, Row, ErrorsOf, Open
<1>8. ChargesKept
  <2>1. FailedInOut = 0
    BY <1>1, <1>3 DEF FailedInOut, Sending
  <2>2. RootErrors' = RootErrors
    BY <1>1 DEF RootErrors, ErrorsOf
  <2>3. RootErrors \in Nat /\ failures \in Nat
    BY CountsAreNumbers DEF CompletionInv, CompletionTypeOK, TrackerTypeOK
  <2>4. QED
    BY <1>5, <2>1, <2>2, <2>3 DEF ChargesKept, FailuresTaken
<1>9. QED
  BY <1>4, <1>5, <1>6, <1>7, <1>8 DEF Kept, CompletionInv, Queues

LEMMA ConsumeBufferedKeeps ==
  ASSUME CompletionInv, NEW ch \in Buffered, ConsumeBuffered(ch)
  PROVE  Kept /\ verdict' # "ready"
<1> DEFINE r == Head(queue[ch])
<1>1. /\ verdict = "tracking" /\ queue[ch] # <<>> /\ Consume(r)
      /\ queue' = [queue EXCEPT ![ch] = Tail(@)]
      /\ UNCHANGED <<vars, trackErr>>
  BY DEF ConsumeBuffered
<1>2. Queues' /\ r \in Carried /\ r.ch = ch
  BY <1>1, QueueShrinks DEF Queues, CompletionInv, CompletionTypeOK
<1>3. ~ r.succeeded
  BY <1>2 DEF Carried, Buffered
<1> HIDE DEF r
<1>4. /\ task' \in ReadinessTaskState /\ Ledger(task)'
      /\ verdict' \in {"tracking", "failed", "panic"}
      /\ verdict' = "tracking" =>
           /\ Open(task)'
           /\ RootErrors \in Nat /\ RootErrors' \in Nat /\ RootErrors' >= RootErrors
  BY <1>1, <1>2, <1>3, ConsumeIs
<1>5. CompletionTypeOK'
  BY <1>1, <1>2, <1>4
     DEF CompletionInv, CompletionTypeOK, Queues, TrackerTypeOK, vars, podSide, relays, history
<1>6. /\ OneOut(t') /\ PodsAreTrue' /\ Announces(t')
      /\ failures' = failures /\ FailedInOut' = FailedInOut
  <2>1. UNCHANGED <<pods, relays, runs, followed>> /\ t' = t /\ failures' = failures
    BY <1>1 DEF vars, podSide, history
  <2>2. PodsAreTrue'
    <3>1. KnowsEnded(t') /\ Follows(t', followed') /\ followed' \subseteq Pod
      BY <2>1, RelaysAre DEF KnowsEnded, Follows
    <3>2. QED
      BY <2>1, <3>1, RelaysAre, TrackStep DEF relays
  <2>3. OneOut(t') /\ Announces(t')
    BY <1>1, <2>1 DEF CompletionInv
  <2>4. FailedInOut' = FailedInOut
    BY <2>1 DEF FailedInOut, Sending
  <2>5. QED
    BY <2>1, <2>2, <2>3, <2>4
<1>7. ChargesKept
  <2>1. failures \in Nat /\ FailedInOut \in {0, 1}
    BY DEF CompletionInv, CompletionTypeOK, TrackerTypeOK, FailedInOut
  <2>2. QED
    BY <1>4, <1>6, <2>1 DEF ChargesKept, FailuresTaken
<1>8. QED
  BY <1>2, <1>4, <1>5, <1>6, <1>7 DEF Kept, CompletionInv, Queues

\* Only here does the consumer hear of success, which the tracker then counts.
LEMMA ConsumeUnbufferedKeeps ==
  ASSUME CompletionInv, NEW ch \in {"Succeeded", "Failed", "PodError"}, ConsumeUnbuffered(ch)
  PROVE  Kept /\ (verdict' = "ready" => IsSucceeded(t))
<1> DEFINE r == Head(t.out)
<1>1. /\ verdict = "tracking" /\ t.out # <<>> /\ r.ch = ch /\ Consume(r)
      /\ Sent /\ UNCHANGED <<queue, trackErr>>
  BY DEF ConsumeUnbuffered, Sending
<1>2. r \in Carried
  BY <1>1, SendingIs
<1>3. r.succeeded => IsSucceeded(t)
  BY <1>1 DEF CompletionInv, Announces
<1>4. /\ task' \in ReadinessTaskState /\ Ledger(task)'
      /\ verdict' \in {"tracking", "ready", "failed", "panic"}
      /\ verdict' = "ready" => r.succeeded
      /\ verdict' = "tracking" =>
           /\ ~ r.succeeded /\ Open(task)'
           /\ RootErrors \in Nat /\ RootErrors' \in Nat /\ RootErrors' >= RootErrors
           /\ r.ch = "Failed" => RootErrors' >= RootErrors + 1
  BY <1>1, <1>2, ConsumeIs
<1>5. /\ TrackerTypeOK' /\ PodsAreTrue' /\ OneOut(t')
      /\ FailedInOut' = 0 /\ failures' = failures
      /\ verdict' = "tracking" => Announces(t')
  BY <1>1, <1>4, SentIs
<1>6. CompletionTypeOK' /\ Queued'
  BY <1>1, <1>4, <1>5 DEF CompletionInv, CompletionTypeOK, Queued
<1>7. ChargesKept
  <2>1. ASSUME verdict' = "tracking"
        PROVE  RootErrors' - RootErrors >= (failures' - FailedInOut') - (failures - FailedInOut)
    <3>1. failures \in Nat
      BY DEF CompletionInv, CompletionTypeOK, TrackerTypeOK
    <3>2. FailedInOut = IF ch = "Failed" THEN 1 ELSE 0
      BY <1>1 DEF FailedInOut, Sending
    <3> HIDE DEF r
    <3>3. CASE ch = "Failed"
      BY <1>1, <1>4, <1>5, <2>1, <3>1, <3>2, <3>3
    <3>4. CASE ch # "Failed"
      BY <1>4, <1>5, <2>1, <3>1, <3>2, <3>4
    <3>5. QED
      BY <3>3, <3>4
  <2>2. QED
    BY <2>1 DEF ChargesKept, FailuresTaken
<1>8. QED
  BY <1>3, <1>4, <1>5, <1>6, <1>7 DEF Kept, CompletionInv

LEMMA ConsumeTrackErrKeeps ==
  ASSUME CompletionInv, ConsumeTrackErr
  PROVE  Kept /\ verdict' # "ready"
<1>1. /\ verdict = "tracking" /\ trackErr # "empty" /\ verdict' = trackErr /\ trackErr' = "empty"
      /\ UNCHANGED <<vars, queue, task>>
  BY DEF ConsumeTrackErr
<1>2. verdict' \in {"error", "stopped"}
  BY <1>1 DEF CompletionInv, CompletionTypeOK
<1>3. CompletionTypeOK'
  BY <1>1, <1>2
     DEF CompletionInv, CompletionTypeOK, TrackerTypeOK, vars, podSide, relays, history
<1>4. PodsAreTrue'
  <2>1. KnowsEnded(t') /\ Follows(t', followed') /\ followed' \subseteq Pod
    BY <1>1, RelaysAre DEF KnowsEnded, Follows, vars, history
  <2>2. QED
    BY <1>1, <2>1, RelaysAre, TrackStep DEF vars, podSide, relays
<1>5. OneOut(t') /\ Queued' /\ Ledger(task)'
  BY <1>1 DEF CompletionInv, OneOut, Queued, Ledger, Row, ErrorsOf, vars
<1>6. QED
  BY <1>2, <1>3, <1>4, <1>5 DEF Kept, CompletionInv, ChargesKept

\* A step that changes nothing the invariant is about but, maybe, the context.
LEMMA ContextKeeps ==
  ASSUME CompletionInv, ctxDone' \in BOOLEAN,
         UNCHANGED <<object, events, failure, podSide, changes, pc, history, t, consumer>>
  PROVE  Kept
<1>1. CompletionTypeOK'
  BY DEF CompletionInv, CompletionTypeOK, TrackerTypeOK, consumer, podSide, relays, history
<1>2. PodsAreTrue'
  <2>1. KnowsEnded(t') /\ Follows(t', followed') /\ followed' \subseteq Pod
    BY RelaysAre DEF KnowsEnded, Follows, history
  <2>2. QED
    BY <2>1, RelaysAre, TrackStep DEF podSide, relays
<1>3. CompletionInv'
  BY <1>1, <1>2 DEF CompletionInv, OneOut, Queued, Ledger, Row, ErrorsOf, Open, consumer
<1>4. ChargesKept
  BY NothingCharged DEF consumer, history
<1>5. QED
  BY <1>3, <1>4 DEF Kept

-----------------------------------------------------------------------------
(***************************************************************************)
(* The invariant holds.                                                    *)
(***************************************************************************)

LEMMA TaskBegins ==
  /\ NewReadinessTaskState(Mode, Allow) \in ReadinessTaskState
  /\ Ledger(NewReadinessTaskState(Mode, Allow)) /\ Open(NewReadinessTaskState(Mode, Allow))
<1> DEFINE ts == NewReadinessTaskState(Mode, Allow)
<1>1. ts \in ReadinessTaskState
  BY CompletionReadinessAssumption
     DEF NewReadinessTaskState, ReadinessTaskState, Resource, ResourceStatus
<1>2. Open(ts)
  BY DEF Open, NewReadinessTaskState
<1>3. \A r \in Resource : ErrorsOf(ts, r) = {}
  BY DEF ErrorsOf, NewReadinessTaskState
<1>4. IsFiniteSet({}) /\ Cardinality({}) = 0
  BY FS_EmptySet
<1>5. \A r \in Resource : {r} \X (0 .. 0 - 1) = {}
  OBVIOUS
<1> HIDE DEF ts
<1>6. ASSUME NEW r \in Resource
      PROVE  Row(ts, r)
  <2>1. ErrorsOf(ts, r) = {}
    BY <1>3
  <2>2. IsFiniteSet(ErrorsOf(ts, r)) /\ Cardinality(ErrorsOf(ts, r)) = 0
    BY <1>4, <2>1
  <2>3. QED
    BY <1>5, <2>1, <2>2 DEF Row
<1>7. QED
  BY <1>1, <1>2, <1>6 DEF Ledger, ts

LEMMA CompletionInvBegins == ReadinessInit => CompletionInv
<1> SUFFICES ASSUME ReadinessInit PROVE CompletionInv
  OBVIOUS
<1>1. /\ task \in ReadinessTaskState /\ Ledger(task) /\ Open(task) /\ verdict = "tracking"
  BY TaskBegins DEF ReadinessInit
<1>2. /\ queue = [ch \in Buffered |-> <<>>] /\ trackErr = "empty"
      /\ object \in Object \cup {Nil}
      /\ events = IF object = Nil THEN <<>> ELSE <<[type |-> "Added", object |-> object]>>
      /\ failure = FALSE /\ announced = Nil /\ added = <<>>
      /\ runs = [p \in Pod |-> [phase |-> "none", last |-> "blank"]]
      /\ statuses = <<>> /\ errs = <<>> /\ dones = <<>>
      /\ changes = 0 /\ ctxDone = FALSE /\ pc = "running" /\ failures = 0 /\ followed = {}
  BY DEF ReadinessInit, Init
<1>3. PICK kind \in Kinds :
        t = [kind |-> kind, State |-> "Initial", lastObject |-> Nil,
             podStatuses |-> [p \in Pod |-> Nil], TrackedPodsNames |-> {}, out |-> <<>>]
  BY DEF ReadinessInit, Init
<1>4. (\A S : <<>> \in Seq(S)) /\ Len(<<>>) = 0
  OBVIOUS
<1>5. /\ t \in Tracker /\ t.out = <<>> /\ t.State = "Initial" /\ t.lastObject = Nil
      /\ \A p \in Pod : t.podStatuses[p] = Nil
  BY <1>3, <1>4 DEF Tracker, TrackerState
<1>6. pods \in [Pod -> {"absent", "active"}]
  <2>1. pods \in [Pod -> IF t.kind = "Job" /\ object # Nil THEN {"absent", "active"} ELSE {"absent"}]
    BY DEF ReadinessInit, Init
  <2>2. QED
    BY <2>1
<1>7. TrackerTypeOK
  <2>1. changes \in 0 .. MaxChanges
    BY <1>2, CompletionConstantsAssumption
  <2>2. events \in Seq([type : {"Added", "Modified", "Deleted"}, object : Object])
    <3>1. CASE object = Nil
      BY <1>2, <3>1
    <3>2. CASE object # Nil
      BY <1>2, <3>2
    <3>3. QED
      BY <3>1, <3>2
  <2>3. /\ added \in Seq(Pod)
        /\ statuses \in Seq(Relayed) /\ errs \in Seq(Relayed) /\ dones \in Seq(Relayed)
    BY <1>2, <1>4
  <2>4. runs \in [Pod -> [phase : {"none", "starting", "running", "cancelled", "done"},
                          last : PodStatus]]
    BY <1>2 DEF PodStatus
  <2>5. pods \in [Pod -> {"absent", "active", "gone"} \cup Terminated]
    BY <1>6
  <2>6. QED
    BY <1>2, <1>5, <2>1, <2>2, <2>3, <2>4, <2>5 DEF TrackerTypeOK
<1>8. /\ queue \in [Buffered -> Seq(Report)] /\ Queued
      /\ \A ch \in Buffered : Len(queue[ch]) <= Capacity[ch]
  <2>1. \A ch \in Buffered : Capacity[ch] \in Nat
    BY CompletionReadinessAssumption
  <2>2. QED
    BY <1>2, <1>4, <2>1 DEF Queued
<1>9. CompletionTypeOK
  BY <1>1, <1>2, <1>7, <1>8 DEF CompletionTypeOK
<1>10. OneOut(t) /\ Announces(t)
  <2>1. ~ IsSucceeded(t)
    BY <1>5, SuccessIsOfAnObject
  <2>2. QED
    BY <1>5, <2>1 DEF OneOut, Announces
<1>11. PodsAreTrue
  <2>1. KnowsEnded(t)
    <3>1. Nil \notin Terminated
      BY CompletionConstantsAssumption DEF PodStatus
    <3>2. QED
      BY <1>5, <3>1 DEF KnowsEnded
  <2>2. Follows(t, followed)
    BY <1>2 DEF Follows
  <2>3. RunsAreTrue
    BY <1>2 DEF RunsAreTrue, Terminated
  <2>4. RelaysAreTrue
    BY <1>2, <1>4 DEF RelaysAreTrue
  <2>5. QED
    BY <2>1, <2>2, <2>3, <2>4 DEF PodsAreTrue
<1>12. QED
  BY <1>1, <1>8, <1>9, <1>10, <1>11 DEF CompletionInv

\* When the tracker counts a success, all it has given up is over, and so is all it
\* still tracks, but for what is called failed and goes on.
LEMMA SuccessIsOfEndedPods ==
  ASSUME CompletionInv, IsSucceeded(t)
  PROVE  \A p \in followed : IsOver(p) \/ IsCalledFailed(p)
<1>1. \A p \in t.TrackedPodsNames : t.podStatuses[p] \in Terminated \/ IsCalledFailed(p)
  BY DEF IsSucceeded, PodsTerminated, CountsAsTerminated, IsCalledFailed
<1>2. KnowsEnded(t) /\ Follows(t, followed) /\ followed \subseteq Pod
  BY RelaysAre
<1>3. QED
  BY <1>1, <1>2 DEF KnowsEnded, Follows

\* The consumer hears of success only while the tracker counts it.
LEMMA CompletionStep ==
  ASSUME CompletionInv, AnnouncedOnce, [ReadinessNext]_allVars
  PROVE  /\ Kept
         /\ verdict' = "ready" => verdict = "ready" \/ IsSucceeded(t)
<1>1. CASE verdict = "tracking" /\ TrackGoesOn
  <2>1. UNCHANGED consumer /\ verdict' = verdict
    BY <1>1 DEF TrackGoesOn, consumer
  <2>2. CASE HandleObjectAdded \/ HandleObjectModified
    BY <1>1, <2>1, <2>2, HandleObjectKeeps DEF HandleObjectAdded, HandleObjectModified
  <2>3. CASE HandleObjectDeleted
    BY <1>1, <2>1, <2>3, HandleObjectDeletedKeeps
  <2>4. CASE HandleObjectFailed
    BY <1>1, <2>1, <2>4, HandleObjectFailedKeeps
  <2>5. CASE HandlePodAdded
    BY <1>1, <2>1, <2>5, HandlePodAddedKeeps
  <2>6. CASE HandleDonePods
    BY <1>1, <2>1, <2>6, HandleDonePodsKeeps
  <2>7. CASE HandlePodStatuses
    BY <1>1, <2>1, <2>7, HandlePodStatusesKeeps
  <2>8. CASE HandlePodContainerErrors
    BY <1>1, <2>1, <2>8, HandlePodContainerErrorsKeeps
  <2>9. QED
    BY <1>1, <2>1, <2>2, <2>3, <2>4, <2>5, <2>6, <2>7, <2>8 DEF TrackGoesOn
<1>2. CASE verdict = "tracking" /\ PodTracker
  <2>1. UNCHANGED consumer /\ verdict' = verdict
    BY <1>2 DEF PodTracker, consumer
  <2>2. PICK p \in Pod :
          PodAnnounced(p) \/ ReportPod(p) \/ HandlePodDeleted(p) \/ StartReturns(p)
    BY <1>2 DEF PodTracker
  <2>3. CASE ReportPod(p)
    <3>1. PICK s \in {"active", pods[p]} : HandlePodState(p, s) /\ UNCHANGED changes
      BY <2>3 DEF ReportPod
    <3>2. changes' \in 0 .. MaxChanges
      BY <3>1, RelaysAre DEF TrackerTypeOK
    <3>3. QED
      BY <1>2, <2>1, <3>1, <3>2, HandlePodStateKeeps
  <2>4. QED
    BY <1>2, <2>1, <2>2, <2>3, PodAnnouncedKeeps, HandlePodDeletedKeeps, StartReturnsKeeps
<1>3. CASE verdict = "tracking" /\ World
  <2>1. UNCHANGED consumer /\ verdict' = verdict
    BY <1>3 DEF World, consumer
  <2>2. CASE ObjectAdded \/ ObjectModified \/ ObjectDeleted
    BY <1>3, <2>1, <2>2, ObjectChangesKeep
  <2>3. CASE FailureEvent
    BY <1>3, <2>1, <2>3, FailureEventKeeps
  <2>4. ASSUME NEW p \in Pod, PodChanges(p)
        PROVE  Kept
    BY <1>3, <2>1, <2>4, PodChangesKeep
  <2>5. ASSUME NEW p \in Pod, PodWavers(p)
        PROVE  Kept
    <3>1. PICK s \in {"failing", "active"} : Change /\ HandlePodState(p, s)
      BY <2>5 DEF PodWavers
    <3>2. changes' \in 0 .. MaxChanges
      BY <3>1, RelaysAre, ChangeIsCounted DEF TrackerTypeOK
    <3>3. QED
      BY <1>3, <2>1, <3>1, <3>2, HandlePodStateKeeps
  <2>6. Kept
    BY <1>3, <2>2, <2>3, <2>4, <2>5 DEF World
  <2>7. QED
    BY <1>3, <2>1, <2>6
<1>4. CASE verdict = "tracking" /\ (TrackCancelled \/ TrackFails)
  <2>1. /\ Return /\ trackErr' \in {"error", "stopped"}
        /\ UNCHANGED <<queue, task, verdict>>
    BY <1>4 DEF TrackCancelled, TrackFails, HandleCtxDone, HandleError
  <2>2. QED
    BY <1>4, <2>1, ReturnKeeps
<1>5. CASE verdict = "tracking" /\ \E ch \in Buffered : Enqueue(ch)
  <2>1. verdict' = verdict
    BY <1>5 DEF Enqueue
  <2>2. QED
    BY <1>5, <2>1, EnqueueKeeps
<1>6. CASE ConsumeAdded \/ ConsumeStatus \/ ConsumeAddedPod
  <2>1. PICK ch \in Buffered : ConsumeBuffered(ch)
    BY <1>6 DEF ConsumeAdded, ConsumeStatus, ConsumeAddedPod, Buffered
  <2>2. QED
    BY <2>1, ConsumeBufferedKeeps
<1>7. CASE ConsumeSucceeded \/ ConsumeFailed \/ ConsumePodError
  <2>1. PICK ch \in {"Succeeded", "Failed", "PodError"} : ConsumeUnbuffered(ch)
    BY <1>7 DEF ConsumeSucceeded, ConsumeFailed, ConsumePodError
  <2>2. QED
    BY <2>1, ConsumeUnbufferedKeeps
<1>8. CASE ConsumeTrackErr
  BY <1>8, ConsumeTrackErrKeeps
<1>9. CASE Cancel
  <2>1. /\ ctxDone' \in BOOLEAN /\ verdict' = verdict
        /\ UNCHANGED <<object, events, failure, podSide, changes, pc, history, t, consumer>>
    BY <1>9 DEF Cancel, consumer
  <2>2. QED
    BY <2>1, ContextKeeps
<1>10. CASE UNCHANGED allVars
  <2>1. ctxDone' \in BOOLEAN
    BY <1>10 DEF CompletionInv, CompletionTypeOK, TrackerTypeOK, allVars, vars
  <2>2. /\ UNCHANGED <<object, events, failure, podSide, changes, pc, history, t, consumer>>
        /\ verdict' = verdict
    BY <1>10 DEF allVars, vars, consumer
  <2>3. QED
    BY <2>1, <2>2, ContextKeeps
<1>11. QED
  BY <1>1, <1>2, <1>3, <1>4, <1>5, <1>6, <1>7, <1>8, <1>9, <1>10
     DEF ReadinessNext, Tracking, Consuming, Over, Quiet

LEMMA AnnouncedOnceBegins == ReadinessInit => AnnouncedOnce
BY DEF ReadinessInit, Init, AnnouncedOnce

\* A step that announces no Pod, starts no tracker, and does not begin anew.
LEMMA OnceIsKept ==
  ASSUME AnnouncedOnce, UNCHANGED <<announced, added>>,
         t'.State = "Initial" => t.State = "Initial",
         \A p \in Pod : runs'[p].phase = "none" <=> runs[p].phase = "none",
         announced \in (SUBSET Pod) \cup {Nil}
  PROVE  AnnouncedOnce'
<1>1. Known' = Known /\ Known \subseteq Pod
  BY DEF Known
<1>2. QED
  BY <1>1 DEF AnnouncedOnce

\* No handler brings the tracker back to where it began.
LEMMA HandlersGoOn ==
  ASSUME NEW d \in Tracker
  PROVE  /\ \A o \in Object : HandleState(d, o).State # "Initial"
         /\ HandleSameState(d).State = "Initial" => d.State = "Initial"
         /\ ResetOnDelete(d).State # "Initial" /\ HandleFailure(d).State # "Initial"
         /\ \A ch, p : PodReport(d, ch, p).State = d.State
<1>1. ASSUME NEW o \in Object
      PROVE  HandleState(d, o).State # "Initial"
  <2> DEFINE seen == [d EXCEPT !.lastObject = o]
             ch == Channel(seen)
             f == [seen EXCEPT !.State = IF ch = "Status" THEN @ ELSE ch]
  <2>1. seen \in Tracker /\ seen.State = d.State /\ d.State \in TrackerState
    BY DEF Tracker
  <2>2. HandleState(d, o) = Send(f, NewStatus(seen, ch))
    BY DEF HandleState
  <2> HIDE DEF seen
  <2>3. ch \in {"Added", "Succeeded", "Failed", "Status"} /\ (d.State = "Initial" => ch # "Status")
    <3>1. IsSucceeded(seen) \in BOOLEAN /\ IsFailed(seen) \in BOOLEAN
      BY FlagsAreBoolean
    <3>2. QED
      BY <2>1, <3>1, FlagsAreBoolean DEF Channel, TrackerState
  <2> HIDE DEF ch
  <2>4. f.State # "Initial" /\ Send(f, NewStatus(seen, ch)).State = f.State
    BY <2>1, <2>3 DEF Send, Tracker
  <2>5. QED
    BY <2>2, <2>4
<1>2. HandleSameState(d).State = "Initial" => d.State = "Initial"
  <2>1. d.lastObject \in Object \cup {Nil}
    BY DEF Tracker
  <2>2. QED
    BY <1>1, <2>1 DEF HandleSameState
<1>3. ResetOnDelete(d).State # "Initial" /\ HandleFailure(d).State # "Initial"
  BY DEF ResetOnDelete, HandleFailure, Send, Tracker
<1>4. \A ch, p : PodReport(d, ch, p).State = d.State
  BY DEF PodReport, Send, Tracker
<1>5. QED
  BY <1>1, <1>2, <1>3, <1>4

LEMMA PodsAreAnnounced ==
  ASSUME CompletionInv
  PROVE  announced \in (SUBSET Pod) \cup {Nil} /\ runs \in [Pod -> PodRun]
BY RelaysAre DEF TrackerTypeOK, PodRun

\* The informers of the Pods are started once, before any Pod is announced.
LEMMA HandleObjectAnnouncesOnce ==
  ASSUME CompletionInv, AnnouncedOnce, verdict = "tracking",
         NEW type \in {"Added", "Modified"}, HandleObject(type)
  PROVE  AnnouncedOnce'
<1>1. /\ announced' = IF t.State = "Initial" /\ t.kind = "Job" THEN {} ELSE announced
      /\ t' = HandleState(t, Head(events).object)
      /\ UNCHANGED <<added, runs>>
  BY DEF HandleObject
<1>2. t'.State # "Initial"
  <2>1. Head(events).object \in Object
    BY RelaysAre, DeliveryIs DEF HandleObject
  <2>2. QED
    BY <1>1, <2>1, RelaysAre, HandlersGoOn
<1>3. CASE t.State = "Initial" /\ t.kind = "Job"
  <2>1. Known = {}
    BY <1>3 DEF AnnouncedOnce, Known
  <2>2. added = <<>> /\ \A p \in Pod : runs[p].phase = "none"
    BY <2>1 DEF AnnouncedOnce
  <2>3. QED
    BY <1>1, <1>2, <2>2 DEF AnnouncedOnce
<1>4. CASE ~ (t.State = "Initial" /\ t.kind = "Job")
  BY <1>1, <1>2, <1>4, OnceIsKept, PodsAreAnnounced
<1>5. QED
  BY <1>3, <1>4

\* The other handlers of the tracker leave alone who was announced and who is tracked.
LEMMA HandlersAnnounceNone ==
  ASSUME CompletionInv, AnnouncedOnce, verdict = "tracking",
         \/ HandleObjectDeleted \/ HandleObjectFailed
         \/ HandleDonePods \/ HandlePodStatuses \/ HandlePodContainerErrors
  PROVE  AnnouncedOnce'
<1>1. UNCHANGED <<announced, added, runs>> /\ Selecting
  BY DEF HandleObjectDeleted, HandleObjectFailed, HandleDonePods, HandlePodStatuses,
         HandlePodContainerErrors, podSide
<1>2. Free(t) /\ t \in Tracker
  BY <1>1, SelectingIsFree DEF Free
<1>3. t'.State = "Initial" => t.State = "Initial"
  <2>1. CASE HandleObjectDeleted \/ HandleObjectFailed
    BY <1>2, <2>1, HandlersGoOn DEF HandleObjectDeleted, HandleObjectFailed
  <2>2. CASE HandleDonePods
    <3> DEFINE r == Head(dones)
               f == FinalStatus(t, r)
               g == [f EXCEPT !.TrackedPodsNames = @ \ {r.pod}]
    <3>1. t' = HandleSameState(g)
      BY <2>2 DEF HandleDonePods, PodDone
    <3>2. r \in Relayed
      BY <2>2, RelaysAre, HeadAndTail DEF HandleDonePods
    <3> HIDE DEF r
    <3>3. r.pod \in Pod /\ r.status \in PodStatus
      BY <3>2 DEF Relayed
    <3>4. Free(f) /\ f.State = t.State
      BY <1>2, <3>3, StatusKeepsFree DEF FinalStatus, Tracker
    <3> HIDE DEF f
    <3>5. Free(g) /\ g.State = f.State
      BY <3>3, <3>4, UntrackingKeepsFree DEF Free, Tracker
    <3> HIDE DEF g
    <3>6. QED
      BY <3>1, <3>4, <3>5, HandlersGoOn DEF Free
  <2>3. CASE HandlePodStatuses
    <3> DEFINE e == WithStatus(Head(statuses))
    <3>1. Head(statuses) \in Relayed /\ t' = HandleSameState(e)
      BY <2>3, RelaysAre, HeadAndTail DEF HandlePodStatuses
    <3>2. Free(e) /\ e.State = t.State
      BY <1>2, <3>1, WithStatusIs DEF WithStatus, Tracker
    <3> HIDE DEF e
    <3>3. QED
      BY <3>1, <3>2, HandlersGoOn DEF Free
  <2>4. CASE HandlePodContainerErrors
    <3> DEFINE e == WithStatus(Head(errs))
    <3>1. Head(errs) \in Relayed /\ t' = PodReport(e, "PodError", Head(errs).pod)
      BY <2>4, RelaysAre, HeadAndTail DEF HandlePodContainerErrors
    <3>2. Free(e) /\ e.State = t.State
      BY <1>2, <3>1, WithStatusIs DEF WithStatus, Tracker
    <3> HIDE DEF e
    <3>3. QED
      BY <3>1, <3>2, HandlersGoOn DEF Free
  <2>5. QED
    BY <2>1, <2>2, <2>3, <2>4
<1>4. QED
  BY <1>1, <1>3, OnceIsKept, PodsAreAnnounced

\* A tracker starts for the Pod that was announced, which had none.
LEMMA HandlePodAddedAnnouncesOnce ==
  ASSUME CompletionInv, AnnouncedOnce, verdict = "tracking", HandlePodAdded
  PROVE  AnnouncedOnce'
<1>1. PICK p \in Known : added = <<p>> /\ runs[p].phase = "none"
  BY DEF HandlePodAdded, AnnouncedOnce
<1> DEFINE said == PodReport(t, "AddedPod", p)
           names == said.TrackedPodsNames \cup {p}
<1>2. /\ t' = [said EXCEPT !.TrackedPodsNames = names]
      /\ runs' = [runs EXCEPT ![p].phase = "starting"]
      /\ added' = <<>> /\ announced' = announced
  BY <1>1 DEF HandlePodAdded
<1>3. p \in Pod /\ runs \in [Pod -> PodRun] /\ Known' = Known
  BY <1>1, <1>2, PodsAreAnnounced DEF Known
<1>4. t'.State = "Initial" => t.State = "Initial"
  <2>1. said.State = t.State /\ said \in Tracker
    <3>1. Free(t) /\ ~ IsSucceeded(t)
      BY SelectingIsFree DEF HandlePodAdded
    <3>2. QED
      BY <1>3, <3>1, PodReportIs, HandlersGoOn DEF Good, Free
  <2> HIDE DEF said, names
  <2>2. QED
    BY <1>2, <2>1 DEF Tracker
<1>5. \A q \in Pod : runs'[q].phase # "none" => q = p \/ runs[q].phase # "none"
  BY <1>2, <1>3
<1>6. QED
  BY <1>1, <1>2, <1>3, <1>4, <1>5 DEF AnnouncedOnce

LEMMA PodAnnouncedOnce ==
  ASSUME CompletionInv, AnnouncedOnce, NEW p \in Pod, PodAnnounced(p)
  PROVE  AnnouncedOnce'
<1>1. /\ announced # Nil /\ p \notin announced /\ announced' = announced \cup {p}
      /\ added' = <<p>> /\ UNCHANGED <<runs, t>>
  BY DEF PodAnnounced
<1>2. announced \in SUBSET Pod /\ announced' # Nil
  <2>1. announced \in SUBSET Pod
    BY <1>1, PodsAreAnnounced
  <2>2. announced' \in SUBSET Pod
    BY <1>1, <2>1
  <2>3. QED
    BY <2>1, <2>2, CompletionConstantsAssumption
<1>3. Known = announced /\ Known' = announced \cup {p}
  BY <1>1, <1>2 DEF Known
<1>4. runs[p].phase = "none"
  BY <1>1, <1>3 DEF AnnouncedOnce
<1>5. QED
  BY <1>1, <1>2, <1>3, <1>4 DEF AnnouncedOnce

\* The tracker of a Pod that has started never becomes one that has not.
LEMMA RunsGoOn ==
  ASSUME CompletionInv, AnnouncedOnce, NEW p \in Pod,
         \/ \E s : HandlePodState(p, s)
         \/ HandlePodDeleted(p) \/ StartReturns(p)
  PROVE  AnnouncedOnce'
<1>1. UNCHANGED <<announced, added, t>> /\ runs[p].phase # "none"
  BY DEF HandlePodState, HandlePodDeleted, StartReturns, PodRunSteps
<1>2. runs \in [Pod -> PodRun]
  BY PodsAreAnnounced
<1>3. PICK run : runs' = [runs EXCEPT ![p] = run] /\ run.phase # "none"
  <2>1. CASE \E s : HandlePodState(p, s)
    <3>1. PICK s : HandlePodState(p, s)
      BY <2>1
    <3> DEFINE run == [phase |-> IF s = "succeeded" THEN "cancelled" ELSE "running", last |-> s]
    <3>2. runs' = [runs EXCEPT ![p] = run] /\ run.phase # "none"
      BY <3>1 DEF HandlePodState
    <3>3. QED
      BY <3>2
  <2>2. CASE HandlePodDeleted(p)
    <3> DEFINE run == [phase |-> "cancelled", last |-> "blank"]
    <3>1. runs' = [runs EXCEPT ![p] = run] /\ run.phase # "none"
      BY <2>2 DEF HandlePodDeleted
    <3>2. QED
      BY <3>1
  <2>3. CASE StartReturns(p)
    <3> DEFINE run == [runs[p] EXCEPT !.phase = "done"]
    <3>1. runs' = [runs EXCEPT ![p] = run] /\ run.phase # "none"
      BY <1>2, <2>3 DEF StartReturns, PodRun
    <3>2. QED
      BY <3>1
  <2>4. QED
    BY <2>1, <2>2, <2>3
<1>4. \A q \in Pod : runs'[q].phase = "none" <=> runs[q].phase = "none"
  BY <1>1, <1>2, <1>3
<1>5. QED
  BY <1>1, <1>4, OnceIsKept, PodsAreAnnounced

LEMMA OnceStep ==
  ASSUME CompletionInv, AnnouncedOnce, [ReadinessNext]_allVars
  PROVE  AnnouncedOnce'
<1>1. ASSUME UNCHANGED <<announced, added, runs>>, t'.State = t.State
      PROVE  AnnouncedOnce'
  BY <1>1, OnceIsKept, PodsAreAnnounced
<1>2. CASE verdict = "tracking" /\ TrackGoesOn
  BY <1>2, HandleObjectAnnouncesOnce, HandlersAnnounceNone, HandlePodAddedAnnouncesOnce
     DEF TrackGoesOn, HandleObjectAdded, HandleObjectModified
<1>3. CASE verdict = "tracking" /\ PodTracker
  BY <1>3, PodAnnouncedOnce, RunsGoOn DEF PodTracker, ReportPod
<1>4. CASE verdict = "tracking" /\ World
  <2>1. CASE ObjectAdded \/ ObjectModified \/ ObjectDeleted \/ FailureEvent
    BY <1>1, <2>1
       DEF ObjectAdded, ObjectModified, ObjectDeleted, ObjectChanges, FailureEvent, podSide
  <2>2. ASSUME NEW p \in Pod, PodChanges(p) \/ PodWavers(p)
        PROVE  AnnouncedOnce'
    BY <1>1, <2>2, RunsGoOn DEF PodChanges, PodWavers
  <2>3. QED
    BY <1>4, <2>1, <2>2 DEF World
<1>5. CASE verdict = "tracking" /\ (TrackCancelled \/ TrackFails)
  BY <1>1, <1>5 DEF TrackCancelled, TrackFails, HandleCtxDone, HandleError, Return, podSide
<1>6. ASSUME Sent
      PROVE  AnnouncedOnce'
  <2>1. t'.State = t.State
    BY <1>6, RelaysAre DEF Sent, Tracker
  <2>2. QED
    BY <1>1, <1>6, <2>1 DEF Sent, podSide
<1>7. CASE verdict = "tracking" /\ \E ch \in Buffered : Enqueue(ch)
  BY <1>6, <1>7 DEF Enqueue
<1>8. CASE Consuming
  <2>1. ASSUME NEW ch, ConsumeBuffered(ch)
        PROVE  AnnouncedOnce'
    BY <1>1, <2>1 DEF ConsumeBuffered, vars, podSide
  <2>2. ASSUME NEW ch, ConsumeUnbuffered(ch)
        PROVE  AnnouncedOnce'
    BY <1>6, <2>2 DEF ConsumeUnbuffered
  <2>3. CASE ConsumeTrackErr
    BY <1>1, <2>3 DEF ConsumeTrackErr, vars, podSide
  <2>4. QED
    BY <1>8, <2>1, <2>2, <2>3
       DEF Consuming, ConsumeAdded, ConsumeStatus, ConsumeAddedPod, ConsumeSucceeded,
           ConsumeFailed, ConsumePodError
<1>9. CASE Cancel \/ UNCHANGED allVars
  BY <1>1, <1>9 DEF Cancel, allVars, vars, podSide
<1>10. QED
  BY <1>2, <1>3, <1>4, <1>5, <1>7, <1>8, <1>9 DEF ReadinessNext, Tracking, Over, Quiet

LEMMA CompletionInvariance == ReadinessSpec => [](CompletionInv /\ AnnouncedOnce)
<1>1. ReadinessInit => CompletionInv /\ AnnouncedOnce
  BY CompletionInvBegins, AnnouncedOnceBegins
<1>2. CompletionInv /\ AnnouncedOnce /\ [ReadinessNext]_allVars
        => (CompletionInv /\ AnnouncedOnce)'
  BY CompletionStep, OnceStep DEF Kept
<1>3. QED
  BY <1>1, <1>2, PTL DEF ReadinessSpec

\* What the tracker, its relays, its channels and the task hold is always of its type, and
\* the buffered channels stay within their places.
THEOREM TypeCorrect == ReadinessSpec => []CompletionTypeOK
<1>1. CompletionInv => CompletionTypeOK
  BY DEF CompletionInv
<1>2. QED
  BY <1>1, CompletionInvariance, PTL

\* The case objectFailed of Job's Track, and trackJob's case tracker.Failed: no failure
\* event that Track has handled is lost on its way to the task, whatever else was charged.
THEOREM NoFailureIsLost == ReadinessSpec => EveryFailureIsCharged
<1>1. CompletionInv /\ AnnouncedOnce /\ [ReadinessNext]_allVars =>
        [verdict' = "tracking" =>
           RootErrors' - RootErrors >= FailuresTaken' - FailuresTaken]_allVars
  BY CompletionStep DEF Kept, ChargesKept
<1>2. QED
  BY <1>1, CompletionInvariance, PTL DEF ReadinessSpec, EveryFailureIsCharged

\* NewJobStatus, runPodTracker and handleJobStatus: when a Job is called done, all the
\* Pods that Track was told of are over and their logs have ended, those it has given up
\* included, but for the Pods whose last status is IsFailed although they go on.
THEOREM DoneMeansEnded == ReadinessSpec => NoPodIsLeftRunning
<1>1. CompletionInv /\ AnnouncedOnce /\ [ReadinessNext]_allVars =>
        [verdict # "ready" /\ verdict' = "ready" =>
           \A p \in followed : IsOver(p) \/ IsCalledFailed(p)]_allVars
  BY CompletionStep, SuccessIsOfEndedPods
<1>2. QED
  BY <1>1, CompletionInvariance, PTL DEF ReadinessSpec, NoPodIsLeftRunning
=============================================================================
