----------------------- MODULE GenericReadinessProofs -----------------------
(***************************************************************************)
(* Safety of the generic tracker and its consumer for any number of        *)
(* changes, events and timeouts, any budget and any size of the channel.   *)
(***************************************************************************)
EXTENDS GenericReadiness, FiniteSetTheorems, SequenceTheorems, TLAPS

-----------------------------------------------------------------------------
(***************************************************************************)
(* The tracker alone.                                                      *)
(***************************************************************************)

\* The parts of the type invariant that the argument needs: at most one message
\* is being sent.
TrackerTyped ==
  /\ out \in {<<>>} \cup {<<m>> : m \in Message}
  /\ pending \in Seq(Notification)
  /\ object \in Object \cup {None}

\* What Track stores is what it heard of last, and the ticker reads an object
\* that is there, once the stabilization is over for good.
TickerFollows ==
  /\ loop = "saving" => saving \in Object /\ saving = heard
  /\ stableAt # "zero" => saved \in Object
  /\ lastState = "StatusStabilizing" => stableAt # "zero"
  /\ ticker \in {"switched", "sending", "done"} =>
       lastState \notin {"Initial", "StatusStabilizing"} /\ stableAt # "zero"
  /\ ticker = "sending" => replay \in Object

\* What is being sent about an object is about the newest one.
OutIsCurrent ==
  out # <<>> /\ Head(out).status \in Object => Head(out).status = heard \/ stale

TrackerInv == TrackerTyped /\ TickerFollows /\ SavedIsLatest /\ OutIsCurrent

LEMMA OneMessage ==
  ASSUME NEW m \in Message
  PROVE  /\ <<m>> \in {<<n>> : n \in Message}
         /\ <<m>> # <<>> /\ Head(<<m>>) = m /\ Tail(<<m>>) = <<>>
OBVIOUS

LEMMA TakenMessage ==
  ASSUME TrackerTyped, out # <<>>
  PROVE  Tail(out) = <<>> /\ Head(out) \in Message
<1>1. PICK m \in Message : out = <<m>>
  BY DEF TrackerTyped
<1>2. QED
  BY <1>1, OneMessage

LEMMA TakenNotification ==
  ASSUME pending \in Seq(Notification), pending # <<>>
  PROVE  Tail(pending) \in Seq(Notification) /\ Head(pending).object \in Object
<1>1. Tail(pending) \in Seq(Notification) /\ Head(pending) \in Notification
  BY HeadTailProperties
<1>2. QED
  BY <1>1 DEF Notification

\* What the handler of an object that has just been heard of, or is replayed,
\* leaves behind.
LEMMA HandlerKeepsInv ==
  ASSUME NEW o \in Object, TrackerInv, Selecting,
         HandleResourceAddedModified(o),
         heard' = o \/ stale',
         lastState \in {"Initial", "StatusStabilizing"} =>
           heard' = o /\ ticker' = ticker /\ replay' = replay,
         ticker' # "sending" \/ (ticker' = ticker /\ replay' = replay),
         ticker' \in {"switched", "done"} => ticker \in {"switched", "sending", "done"},
         pending' \in Seq(Notification), object' = object
  PROVE  TrackerInv'
<1>1. CASE Begin(o)
  BY <1>1 DEF Begin, Selecting, TrackerInv, TrackerTyped, TickerFollows, SavedIsLatest, OutIsCurrent
<1>2. CASE ReadStabilizing(o)
  BY <1>2 DEF ReadStabilizing, Selecting, TrackerInv, TrackerTyped, TickerFollows, SavedIsLatest,
              OutIsCurrent, fields
<1>3. CASE Settle(o)
  <2> DEFINE m == [ch |-> ChannelOf(lastState, o), status |-> o]
  <2>1. m \in Message
    BY <1>3 DEF Settle, Message, ChannelOf, Object
  <2>2. StateAfter(lastState, o) \notin {"Initial", "StatusStabilizing"}
    BY <1>3 DEF Settle, StateAfter, Object
  <2>3. out' = <<m>> /\ lastState' = StateAfter(lastState, o)
    BY <1>3 DEF Settle
  <2>4. /\ out' \in {<<n>> : n \in Message}
        /\ Head(out').status = o
    BY <2>1, <2>3, OneMessage
  <2>5. QED
    BY <1>3, <2>2, <2>3, <2>4
       DEF Settle, Selecting, TrackerInv, TrackerTyped, TickerFollows, SavedIsLatest, OutIsCurrent
<1>4. QED
  BY <1>1, <1>2, <1>3 DEF HandleResourceAddedModified

\* Every message that Track makes itself is about no object.
LEMMA SendsNothingOld ==
  ASSUME TrackerInv, NEW m \in Message, m.status \notin Object, out' = <<m>>
  PROVE  out' \in {<<n>> : n \in Message} /\ OutIsCurrent'
BY OneMessage DEF OutIsCurrent

LEMMA TrackerStep ==
  ASSUME TrackerInv, World \/ Ticker \/ TrackGoesOn \/ HandleCtxDone \/ HandleError \/ Sent
  PROVE  TrackerInv'
<1> USE DEF TrackerInv
<1>1. CASE ObjectAdded \/ ObjectModified \/ ObjectDeleted
  <2>1. PICK kind \in {"Added", "Modified", "Deleted"}, o \in Object : Notify(kind, o)
    <3>1. CASE ObjectAdded
      BY <3>1 DEF ObjectAdded
    <3>2. CASE ObjectModified
      BY <3>2 DEF ObjectModified
    <3>3. CASE ObjectDeleted
      BY <3>3 DEF ObjectDeleted, TrackerTyped
    <3>4. QED
      BY <1>1, <3>1, <3>2, <3>3
  <2>2. [kind |-> kind, object |-> o] \in Notification
    BY DEF Notification
  <2>3. pending' \in Seq(Notification)
    BY <2>1, <2>2 DEF Notify, TrackerTyped
  <2>4. object' \in Object \cup {None}
    BY <1>1 DEF ObjectAdded, ObjectModified, ObjectDeleted
  <2>5. QED
    BY <2>1, <2>3, <2>4 DEF Notify, TrackerTyped, TickerFollows, SavedIsLatest, OutIsCurrent, fields, history
<1>2. CASE EventArrives \/ Cancel
  BY <1>2 DEF EventArrives, Cancel, TrackerTyped, TickerFollows, SavedIsLatest, OutIsCurrent,
              fields, history
<1>3. CASE DropOffer
  <2>1. pending' \in Seq(Notification)
    BY <1>3, TakenNotification DEF DropOffer, TrackerTyped
  <2>2. QED
    BY <1>3, <2>1 DEF DropOffer, TrackerTyped, TickerFollows, SavedIsLatest, OutIsCurrent, fields, history
<1>4. CASE StabilizingTimePasses \/ TickerStops
  BY <1>4 DEF StabilizingTimePasses, TickerStops, TrackerTyped, TickerFollows, SavedIsLatest,
              OutIsCurrent, cluster, fields, history
<1>5. CASE TickerSwitches
  BY <1>5 DEF TickerSwitches, TrackerTyped, TickerFollows, SavedIsLatest, OutIsCurrent, cluster, history
<1>6. CASE TickerReads
  BY <1>6 DEF TickerReads, TrackerTyped, TickerFollows, SavedIsLatest, OutIsCurrent, cluster,
              fields, history
<1>7. CASE HandleResourceAdded \/ HandleResourceModified
  <2> DEFINE o == Head(pending).object
  <2>1. /\ Selecting /\ pending # <<>> /\ pending' = Tail(pending)
        /\ heard' = o /\ HandleResourceAddedModified(heard')
        /\ UNCHANGED <<ticker, replay, object>>
    BY <1>7 DEF HandleResourceAdded, HandleResourceModified, Receive
  <2>2. o \in Object /\ pending' \in Seq(Notification)
    BY <2>1, TakenNotification DEF TrackerTyped
  <2> HIDE DEF o
  <2>3. HandleResourceAddedModified(o)
    BY <2>1
  <2>4. QED
    BY <2>1, <2>2, <2>3, HandlerKeepsInv
<1>8. CASE HandleReplay
  <2>1. replay \in Object /\ lastState \notin {"Initial", "StatusStabilizing"}
    BY <1>8 DEF HandleReplay, TickerFollows
  <2>2. /\ (heard' = replay \/ stale') /\ ticker' = "done" /\ replay' = replay
        /\ pending' \in Seq(Notification) /\ Selecting /\ HandleResourceAddedModified(replay)
        /\ ticker = "sending" /\ object' = object
    BY <1>8 DEF HandleReplay, cluster, TrackerTyped
  <2>3. QED
    BY <2>1, <2>2, HandlerKeepsInv
<1>9. CASE HandleResourceDeleted
  <2> DEFINE m == [ch |-> "regular", status |-> "deleted"]
  <2>1. m \in Message /\ m.status \notin Object
    BY DEF Message, Object
  <2>2. out' = <<m>>
    BY <1>9 DEF HandleResourceDeleted
  <2>3. out' \in {<<n>> : n \in Message} /\ OutIsCurrent'
    BY <2>1, <2>2, SendsNothingOld
  <2>4. pending' \in Seq(Notification)
    BY <1>9, TakenNotification DEF HandleResourceDeleted, Receive, TrackerTyped
  <2>5. QED
    BY <1>9, <2>3, <2>4 DEF HandleResourceDeleted, Receive, Selecting, TrackerTyped, TickerFollows,
                            SavedIsLatest
<1>10. CASE SaveObject
  BY <1>10 DEF SaveObject, TrackerTyped, TickerFollows, SavedIsLatest, OutIsCurrent, cluster, history
<1>11. CASE HandleEvent
  <2> DEFINE m == [ch |-> "event", status |-> "none"]
  <2>1. m \in Message /\ m.status \notin Object /\ out' = <<m>>
    BY <1>11 DEF Message, Object, HandleEvent
  <2>2. out' \in {<<n>> : n \in Message} /\ OutIsCurrent'
    BY <2>1, SendsNothingOld
  <2>3. QED
    BY <1>11, <2>2 DEF HandleEvent, TrackerTyped, TickerFollows, SavedIsLatest, fields, history
<1>12. CASE HandleNoActivity
  <2> DEFINE m == [ch |-> "failed", status |-> "timeout"]
  <2>1. m \in Message /\ m.status \notin Object /\ out' = <<m>>
    BY <1>12 DEF Message, Object, HandleNoActivity
  <2>2. out' \in {<<n>> : n \in Message} /\ OutIsCurrent'
    BY <2>1, SendsNothingOld
  <2>3. QED
    BY <1>12, <2>2 DEF HandleNoActivity, TrackerTyped, TickerFollows, SavedIsLatest, fields, history
<1>13. CASE HandleCtxDone
  BY <1>13 DEF HandleCtxDone, Return, TrackerTyped, TickerFollows, SavedIsLatest, OutIsCurrent,
               fields, history
<1>14. CASE HandleError
  <2>1. pending' \in Seq(Notification)
    BY <1>14, TakenNotification DEF HandleError, TrackerTyped
  <2>2. out = <<>> /\ out' = <<>> /\ loop' = "returned"
    BY <1>14 DEF HandleError, Return, Selecting
  <2>3. ticker' = ticker \/ (ticker = "sending" /\ ticker' = "done")
    BY <1>14 DEF HandleError
  <2>4. UNCHANGED <<lastState, stableAt, saved, replay, object>>
    BY <1>14 DEF HandleError, Return, fields
  <2>5. QED
    BY <2>1, <2>2, <2>3, <2>4 DEF TrackerTyped, TickerFollows, SavedIsLatest, OutIsCurrent
<1>15. CASE Sent
  <2>1. out' = <<>>
    BY <1>15, TakenMessage DEF Sent
  <2>2. QED
    BY <1>15, <2>1 DEF Sent, TrackerTyped, TickerFollows, SavedIsLatest, OutIsCurrent,
                       cluster, fields, history
<1>16. QED
  BY <1>1, <1>2, <1>3, <1>4, <1>5, <1>6, <1>7, <1>8, <1>9, <1>10, <1>11, <1>12, <1>13, <1>14, <1>15
     DEF World, Ticker, TrackGoesOn

-----------------------------------------------------------------------------
(***************************************************************************)
(* The task.                                                               *)
(***************************************************************************)

\* The errors of the task are all the root's, and numbered without gaps.
Numbered(errors) ==
  IsFiniteSet(errors) /\ errors = {Root} \X (0 .. Cardinality(errors) - 1)

\* No verdict yet, and nothing but a ready status makes it ready.
Open(ts) ==
  /\ ts \in ReadinessTaskState
  /\ ts.status = "" /\ ts.edges = {} /\ Numbered(ts.errors)
  /\ ts.statuses[Root] \notin {"Ready", "Failed"}
  /\ ~ FailureCondition(ts)

LEMMA SpentIs ==
  ASSUME NEW ts \in ReadinessTaskState, ts.edges = {}, Numbered(ts.errors)
  PROVE  /\ ResourceStates(ts) = {Root}
         /\ ErrorsOf(ts, Root) = ts.errors
         /\ TotalErrors(ts) = Cardinality(ts.errors) /\ TotalErrors(ts) \in Nat
<1>1. ResourceStates(ts) = {Root}
  BY DEF ResourceStates
<1>2. \A e \in ts.errors : e[1] = Root
  BY DEF Numbered
<1>3. {e \in ts.errors : e[1] \in ResourceStates(ts)} = ts.errors /\ ErrorsOf(ts, Root) = ts.errors
  BY <1>1, <1>2 DEF ErrorsOf
<1>4. Cardinality(ts.errors) \in Nat
  BY FS_CardinalityType DEF Numbered
<1>5. QED
  BY <1>1, <1>3, <1>4 DEF TotalErrors

LEMMA NoneNumbered == Numbered({})
<1>1. IsFiniteSet({}) /\ Cardinality({}) = 0
  BY FS_EmptySet
<1>2. {Root} \X (0 .. 0 - 1) = {}
  OBVIOUS
<1>3. QED
  BY <1>1, <1>2 DEF Numbered

\* One error more.
LEMMA NextNumber ==
  ASSUME NEW errors, Numbered(errors)
  PROVE  LET more == errors \cup {<<Root, Cardinality(errors)>>}
         IN /\ Numbered(more) /\ Cardinality(more) = Cardinality(errors) + 1
            /\ <<Root, Cardinality(errors)>> \in Resource \X Nat
<1> DEFINE n == Cardinality(errors)
           more == errors \cup {<<Root, n>>}
<1>1. n \in Nat /\ IsFiniteSet(errors) /\ errors = {Root} \X (0 .. n - 1)
  BY FS_CardinalityType DEF Numbered
<1> HIDE DEF n
<1>2. <<Root, n>> \notin errors
  BY <1>1
<1>3. IsFiniteSet(more) /\ Cardinality(more) = n + 1
  BY <1>1, <1>2, FS_AddElement DEF n
<1>4. more = {Root} \X (0 .. n)
  BY <1>1
<1> HIDE DEF more
<1>5. Numbered(more)
  <2>1. Cardinality(more) - 1 = n
    BY <1>1, <1>3
  <2>2. more = {Root} \X (0 .. Cardinality(more) - 1)
    BY <1>4, <2>1
  <2>3. QED
    BY <1>3, <2>2 DEF Numbered
<1>6. <<Root, n>> \in Resource \X Nat
  BY <1>1 DEF Resource
<1>7. QED
  BY <1>3, <1>5, <1>6 DEF n, more

LEMMA NothingReady ==
  ASSUME NEW ts \in ReadinessTaskState, ts.edges = {}, ts.statuses[Root] # "Ready"
  PROVE  ~ ReadyCondition(ts)
<1>1. {r \in ResourceStates(ts) : ts.statuses[r] = "Ready"} = {}
  BY DEF ResourceStates
<1>2. ts.replicas \in Nat
  BY DEF ReadinessTaskState
<1>3. QED
  BY <1>1, <1>2, FS_EmptySet DEF ReadyCondition

LEMMA OpenHasNoVerdict ==
  ASSUME NEW ts, Open(ts)
  PROVE  VerdictOf(ts) = "tracking"
<1>1. ~ ReadyCondition(ts)
  BY NothingReady DEF Open
<1>2. Status(ts) = "Progressing"
  BY <1>1 DEF Status, Open
<1>3. QED
  BY <1>2 DEF VerdictOf

LEMMA SetStatusOpen ==
  ASSUME NEW ts, Open(ts), NEW s \in {"Created", "Deleted"}
  PROVE  Open(SetResourceStatus(ts, Root, s))
<1> DEFINE u == SetResourceStatus(ts, Root, s)
<1>1. /\ u \in ReadinessTaskState
      /\ u.status = "" /\ u.edges = {} /\ u.failMode = ts.failMode /\ u.allow = ts.allow
      /\ u.errors = ts.errors /\ u.statuses[Root] = s
  BY DEF SetResourceStatus, Open, ReadinessTaskState, Resource, ResourceStatus
<1>2. ResourceStates(u) = {Root} /\ ResourceStates(ts) = {Root}
  BY <1>1 DEF ResourceStates, Open
<1>3. TotalErrors(u) = TotalErrors(ts)
  BY <1>1, <1>2 DEF TotalErrors
<1>4. ~ MarkedFailed(u)
  BY <1>1, <1>2 DEF MarkedFailed
<1>5. QED
  BY <1>1, <1>3, <1>4 DEF Open, FailureCondition

\* A status that is neither ready nor a failure leaves the task open.
LEMMA NeutralKeepsOpen ==
  ASSUME NEW ts, Open(ts), NEW m \in Message,
         m.status \in {"progressing", "deleted"} \/ m.ch = "event"
  PROVE  Open(HandleMessage(ts, m))
<1>1. CASE m.ch = "event"
  BY <1>1 DEF HandleMessage
<1>2. CASE m.ch # "event"
  <2>1. Open(HandleGenericResourceStatus(ts, m.status))
    BY <1>2, SetStatusOpen DEF HandleGenericResourceStatus
  <2>2. m.ch \in {"added", "succeeded", "failed", "regular"}
    BY <1>2 DEF Message
  <2>3. QED
    BY <1>2, <2>1, <2>2, SetStatusOpen DEF HandleMessage, SetRootResourceCreated
<1>3. QED
  BY <1>1, <1>2

\* A ready status makes the task ready.
LEMMA ReadyMakesReady ==
  ASSUME NEW ts, Open(ts), NEW m, m.ch = "succeeded", m.status = "ready"
  PROVE  VerdictOf(HandleMessage(ts, m)) = "ready"
<1>1. HandleMessage(ts, m).status = "Ready"
  BY DEF HandleMessage, HandleGenericResourceStatus, SetReady, Open, ReadinessTaskState
<1>2. QED
  BY <1>1 DEF Status, VerdictOf

\* A failure is one error more, and leaves the task open or makes it fail.
LEMMA FailureIsCharged ==
  ASSUME NEW ts, Open(ts), NEW m, m.ch = "failed", m.status \in {"failed", "timeout"}
  PROVE  LET u == HandleMessage(ts, m)
         IN /\ u.failMode = ts.failMode /\ u.allow = ts.allow
            /\ TotalErrors(u) = TotalErrors(ts) + 1
            /\ \/ /\ Open(u)
                  /\ ~ (u.failMode # "IgnoreAndContinueDeployProcess" /\ TotalErrors(u) > u.allow)
               \/ /\ VerdictOf(u) = "failed"
                  /\ u.failMode # "IgnoreAndContinueDeployProcess" /\ TotalErrors(u) > u.allow
<1> DEFINE u == HandleMessage(ts, m)
           errs == ts.errors \cup {<<Root, Cardinality(ts.errors)>>}
<1>0. ts \in ReadinessTaskState /\ ts.edges = {} /\ Numbered(ts.errors)
  BY DEF Open
<1>1. u = AddError(ts, Root)
  BY DEF HandleMessage, HandleGenericResourceStatus
<1>2. ErrorsOf(ts, Root) = ts.errors /\ TotalErrors(ts) = Cardinality(ts.errors)
  BY <1>0, SpentIs
<1>3. u = [ts EXCEPT !.errors = errs]
  BY <1>1, <1>2 DEF AddError
<1>4. Numbered(errs) /\ Cardinality(errs) = Cardinality(ts.errors) + 1
      /\ <<Root, Cardinality(ts.errors)>> \in Resource \X Nat
  BY <1>0, NextNumber
<1>5. errs \in SUBSET (Resource \X Nat)
  BY <1>0, <1>4 DEF ReadinessTaskState
<1> HIDE DEF errs, u
<1>6. u \in ReadinessTaskState
  BY <1>0, <1>3, <1>5 DEF ReadinessTaskState
<1>7. /\ u.errors = errs /\ u.status = "" /\ u.edges = {}
      /\ u.failMode = ts.failMode /\ u.allow = ts.allow
      /\ u.statuses[Root] \notin {"Ready", "Failed"}
  BY <1>3 DEF Open, ReadinessTaskState
<1>8. TotalErrors(u) = TotalErrors(ts) + 1 /\ ResourceStates(u) = {Root}
  BY <1>2, <1>4, <1>6, <1>7, SpentIs
<1>9. FailureCondition(u)
      <=> u.failMode # "IgnoreAndContinueDeployProcess" /\ TotalErrors(u) > u.allow
  BY <1>7, <1>8 DEF FailureCondition, MarkedFailed
<1>10. FailureCondition(u) => VerdictOf(u) = "failed"
  BY <1>7 DEF Status, VerdictOf
<1>11. ~ FailureCondition(u) => Open(u)
  BY <1>4, <1>6, <1>7 DEF Open
<1>12. QED
  BY <1>7, <1>8, <1>9, <1>10, <1>11 DEF u

-----------------------------------------------------------------------------
(***************************************************************************)
(* The tracker and the consumer.                                           *)
(***************************************************************************)

\* A channel carries only the statuses that are meant for it.
FitsChannel(m) ==
  /\ m.ch = "succeeded" => m.status = "ready"
  /\ m.ch = "failed"    => m.status \in {"failed", "timeout"}
  /\ m.ch = "event"     => m.status = "none"
  /\ m.ch = "added"     => m.status = "progressing"
  /\ m.ch = "regular"   => m.status \in {"progressing", "deleted"}

Waiting == [ch : {"regular"}, status : {"progressing", "deleted"}]

\* While the consumer waits, the success of the resource is being sent or has
\* not happened, nothing in the channel makes a verdict, and there is none.
Undecided ==
  /\ lastState = "ResourceSucceeded" => out # <<>> /\ Head(out).ch = "succeeded"
  /\ out # <<>> => FitsChannel(Head(out))
  /\ regular \in Seq(Waiting)
  /\ Open(task)

ConsumerInv ==
  /\ trackErr \in {"empty", "error", "stopped"}
  /\ verdict = "tracking" => Undecided

GenericInv == TrackerInv /\ ConsumerInv

LEMMA WaitingFits ==
  ASSUME NEW m \in Waiting
  PROVE  m \in Message /\ FitsChannel(m) /\ m.ch = "regular"
<1>1. PICK s \in {"progressing", "deleted"} : m = [ch |-> "regular", status |-> s]
  BY DEF Waiting
<1>2. m \in Message
  BY <1>1 DEF Message, Object
<1>3. FitsChannel(m) /\ m.ch = "regular"
  BY <1>1 DEF FitsChannel
<1>4. QED
  BY <1>2, <1>3

\* A message that is no failure charges nothing.
LEMMA OthersChargeNothing ==
  ASSUME NEW ts, Open(ts), NEW m \in Message, FitsChannel(m), m.ch # "failed"
  PROVE  LET u == HandleMessage(ts, m)
         IN /\ u.failMode = ts.failMode /\ u.allow = ts.allow
            /\ TotalErrors(u) = TotalErrors(ts)
<1> DEFINE u == HandleMessage(ts, m)
<1>1. ts \in ReadinessTaskState
  BY DEF Open
<1>2. m.ch \in {"added", "succeeded", "regular", "event"}
  BY DEF Message
<1>3. u = ts \/ u = SetReady(ts) \/ \E st \in {"Created", "Deleted"} : u = SetResourceStatus(ts, Root, st)
  BY <1>2 DEF FitsChannel, HandleMessage, HandleGenericResourceStatus, SetRootResourceCreated
<1> HIDE DEF u
<1>4. /\ u.failMode = ts.failMode /\ u.allow = ts.allow
      /\ u.errors = ts.errors /\ u.edges = ts.edges
  <2>1. CASE u = ts
    BY <2>1
  <2>2. CASE u = SetReady(ts)
    BY <1>1, <2>2 DEF SetReady, ReadinessTaskState
  <2>3. CASE \E st \in {"Created", "Deleted"} : u = SetResourceStatus(ts, Root, st)
    BY <1>1, <2>3 DEF SetResourceStatus, ReadinessTaskState
  <2>4. QED
    BY <1>3, <2>1, <2>2, <2>3
<1>5. TotalErrors(u) = TotalErrors(ts)
  BY <1>4 DEF TotalErrors, ResourceStates
<1>6. QED
  BY <1>4, <1>5 DEF u

LEMMA InitInv == ReadinessInit => GenericInv
<1> SUFFICES ASSUME ReadinessInit PROVE GenericInv
  OBVIOUS
<1>1. TrackerInv
  <2>1. pending \in Seq(Notification) /\ object \in Object \cup {None}
    <3>1. CASE object = None
      BY <3>1 DEF ReadinessInit, GenericInit
    <3>2. CASE object # None
      <4>1. [kind |-> "Added", object |-> object] \in Notification
        BY <3>2 DEF ReadinessInit, GenericInit, Notification
      <4>2. QED
        BY <3>2, <4>1 DEF ReadinessInit, GenericInit
    <3>3. QED
      BY <3>1, <3>2
  <2>2. QED
    BY <2>1 DEF ReadinessInit, GenericInit, TrackerInv, TrackerTyped, TickerFollows, SavedIsLatest,
                OutIsCurrent
<1>2. Open(task)
  <2>1. PICK mode \in Modes, allow \in AllowedFailures : task = NewReadinessTaskState(mode, allow)
    BY DEF ReadinessInit
  <2>2. mode \in FailMode /\ allow \in Nat
    BY GenericReadinessAssumption
  <2>3. /\ task \in ReadinessTaskState
        /\ task.status = "" /\ task.edges = {} /\ task.errors = {} /\ task.allow = allow
        /\ \A r \in Resource : task.statuses[r] = "Unknown"
    BY <2>1, <2>2 DEF NewReadinessTaskState, ReadinessTaskState, Resource, ResourceStatus
  <2>4. Root \in Resource /\ ResourceStates(task) = {Root}
    BY <2>3 DEF Resource, ResourceStates
  <2>5. TotalErrors(task) = 0
    <3>1. {e \in task.errors : e[1] \in ResourceStates(task)} = {}
      BY <2>3
    <3>2. QED
      BY <3>1, FS_EmptySet DEF TotalErrors
  <2>6. ~ FailureCondition(task)
    <3>1. ~ MarkedFailed(task)
      BY <2>3, <2>4 DEF MarkedFailed
    <3>2. task.allow \in Nat
      BY <2>2, <2>3
    <3>3. ~ (TotalErrors(task) > task.allow)
      BY <3>2, <2>5
    <3>4. QED
      BY <3>1, <3>3 DEF FailureCondition
  <2>7. QED
    BY <2>3, <2>4, <2>6, NoneNumbered DEF Open
<1>3. ConsumerInv
  BY <1>2 DEF ReadinessInit, GenericInit, ConsumerInv, Undecided
<1>4. QED
  BY <1>1, <1>3 DEF GenericInv

\* What Track does while the consumer waits leaves the success in its place.
LEMMA TrackUndecided ==
  ASSUME TrackerInv, Undecided, UNCHANGED consumer,
         World \/ Ticker \/ TrackGoesOn \/ HandleCtxDone \/ HandleError
  PROVE  Undecided'
<1>1. ASSUME NEW o \in Object, Selecting, HandleResourceAddedModified(o)
      PROVE  Undecided'
  <2>1. lastState # "ResourceSucceeded"
    BY <1>1 DEF Undecided, Selecting
  <2>2. CASE Begin(o) \/ ReadStabilizing(o)
    BY <2>1, <2>2, <1>1 DEF Begin, ReadStabilizing, Undecided, Selecting, fields, consumer
  <2>3. CASE Settle(o)
    <3> DEFINE m == [ch |-> ChannelOf(lastState, o), status |-> o]
    <3>1. m \in Message /\ out' = <<m>>
      BY <2>3 DEF Settle, Message, ChannelOf, Object
    <3>2. out' # <<>> /\ Head(out') = m
      BY <3>1, OneMessage
    <3>3. FitsChannel(m)
      BY <2>1, <2>3 DEF Settle, FitsChannel, ChannelOf, Object
    <3>4. lastState' = "ResourceSucceeded" => m.ch = "succeeded"
      BY <2>1, <2>3 DEF Settle, StateAfter, ChannelOf, Object
    <3>5. QED
      BY <3>2, <3>3, <3>4 DEF Undecided, consumer
  <2>4. QED
    BY <1>1, <2>2, <2>3 DEF HandleResourceAddedModified
<1>2. ASSUME UNCHANGED out, lastState' \in {lastState, "Started"}
      PROVE  Undecided'
  BY <1>2 DEF Undecided, consumer
<1>3. CASE HandleResourceAdded \/ HandleResourceModified
  <2>1. Selecting /\ pending # <<>> /\ HandleResourceAddedModified(Head(pending).object)
    BY <1>3 DEF HandleResourceAdded, HandleResourceModified, Receive
  <2>2. Head(pending).object \in Object
    BY <2>1, TakenNotification DEF TrackerInv, TrackerTyped
  <2>3. QED
    BY <2>1, <2>2, <1>1
<1>4. CASE HandleReplay
  BY <1>4, <1>1 DEF HandleReplay, TrackerInv, TickerFollows
<1>5. ASSUME NEW m \in Message, Selecting, out' = <<m>>, FitsChannel(m),
             lastState' \in {lastState, "ResourceDeleted"}
      PROVE  Undecided'
  <2>1. out' # <<>> /\ Head(out') = m
    BY <1>5, OneMessage
  <2>2. lastState' # "ResourceSucceeded"
    BY <1>5 DEF Undecided, Selecting
  <2>3. QED
    BY <1>5, <2>1, <2>2 DEF Undecided, consumer
<1>6. CASE HandleResourceDeleted
  <2> DEFINE m == [ch |-> "regular", status |-> "deleted"]
  <2>1. m \in Message /\ FitsChannel(m)
    BY DEF Message, FitsChannel
  <2>2. QED
    BY <1>5, <1>6, <2>1 DEF HandleResourceDeleted, Receive
<1>7. CASE HandleEvent
  <2> DEFINE m == [ch |-> "event", status |-> "none"]
  <2>1. m \in Message /\ FitsChannel(m)
    BY DEF Message, FitsChannel
  <2>2. QED
    BY <1>5, <1>7, <2>1 DEF HandleEvent, fields
<1>8. CASE HandleNoActivity
  <2> DEFINE m == [ch |-> "failed", status |-> "timeout"]
  <2>1. m \in Message /\ FitsChannel(m)
    BY DEF Message, FitsChannel
  <2>2. QED
    BY <1>5, <1>8, <2>1 DEF HandleNoActivity, fields
<1>9. CASE SaveObject
  BY <1>2, <1>9 DEF SaveObject
<1>10. CASE HandleCtxDone \/ HandleError
  BY <1>2, <1>10 DEF HandleCtxDone, HandleError, Return, fields
<1>11. CASE World
  BY <1>2, <1>11 DEF World, ObjectAdded, ObjectModified, ObjectDeleted, Notify, EventArrives, Cancel,
                     DropOffer, fields
<1>12. CASE Ticker
  BY <1>2, <1>12 DEF Ticker, StabilizingTimePasses, TickerSwitches, TickerReads, TickerStops, fields
<1>13. QED
  BY <1>3, <1>4, <1>6, <1>7, <1>8, <1>9, <1>10, <1>11, <1>12 DEF TrackGoesOn

\* A message that the consumer takes: what becomes of the task, and of whom the
\* verdict is.
LEMMA ConsumeIs ==
  ASSUME Undecided, NEW m \in Message, FitsChannel(m), Consume(m)
  PROVE  \/ verdict' = "tracking" /\ Open(task')
         \/ verdict' = "ready" /\ m.ch = "succeeded" /\ m.status = "ready"
         \/ verdict' = "failed" /\ m.ch = "failed" /\ m.status \in {"failed", "timeout"}
<1>1. task' = HandleMessage(task, m) /\ verdict' = VerdictOf(task') /\ Open(task)
  BY DEF Consume, Undecided
<1>2. CASE m.ch \in {"regular", "added", "event"}
  <2>1. Open(task')
    BY <1>1, <1>2, NeutralKeepsOpen DEF FitsChannel
  <2>2. QED
    BY <1>1, <2>1, OpenHasNoVerdict
<1>3. CASE m.ch = "succeeded"
  BY <1>1, <1>3, ReadyMakesReady DEF FitsChannel
<1>4. CASE m.ch = "failed"
  <2>1. Open(task') \/ VerdictOf(task') = "failed"
    BY <1>1, <1>4, FailureIsCharged DEF FitsChannel
  <2>2. QED
    BY <1>1, <1>4, <2>1, OpenHasNoVerdict DEF FitsChannel
<1>5. QED
  BY <1>2, <1>3, <1>4 DEF Message

\* What the consumer makes of the head of the channel, or of the message that
\* is being sent.
LEMMA ConsumesIs ==
  ASSUME GenericInv, Consumes
  PROVE  /\ verdict = "tracking" /\ trackErr' = trackErr
         /\ Sent \/ UNCHANGED genericVars
         /\ \/ verdict' = "tracking" /\ Undecided'
            \/ verdict' = "ready" /\ Head(out).status = "ready" /\ out # <<>>
            \/ verdict' = "failed" /\ Sending("failed") /\ Head(out).status \in {"failed", "timeout"}
<1>0. verdict = "tracking" /\ trackErr' = trackErr
  BY DEF Consumes, ConsumeRegular, ConsumeAdded, ConsumeSucceeded, ConsumeFailed, ConsumeEvent,
         ConsumeUnbuffered, Consume
<1>1. Undecided
  BY <1>0 DEF GenericInv, ConsumerInv
<1>2. CASE ConsumeRegular
  <2> DEFINE m == Head(regular)
  <2>1. m \in Waiting /\ Tail(regular) \in Seq(Waiting)
    BY <1>1, <1>2, HeadTailProperties DEF ConsumeRegular, Undecided
  <2>2. m \in Message /\ FitsChannel(m) /\ m.ch = "regular"
    BY <2>1, WaitingFits
  <2>3. Consume(m) /\ UNCHANGED genericVars /\ regular' = Tail(regular)
    BY <1>2 DEF ConsumeRegular
  <2> HIDE DEF m
  <2>4. verdict' = "tracking" /\ Open(task')
    BY <1>1, <2>2, <2>3, ConsumeIs
  <2>5. Undecided'
    BY <1>1, <2>1, <2>3, <2>4 DEF Undecided, genericVars, fields
  <2>6. QED
    BY <1>0, <2>3, <2>4, <2>5
<1>3. CASE ConsumeAdded \/ ConsumeSucceeded \/ ConsumeFailed \/ ConsumeEvent
  <2> DEFINE m == Head(out)
  <2>1. PICK ch \in {"added", "succeeded", "failed", "event"} : ConsumeUnbuffered(ch)
    BY <1>3 DEF ConsumeAdded, ConsumeSucceeded, ConsumeFailed, ConsumeEvent
  <2>2. out # <<>> /\ Consume(m) /\ Sent /\ regular' = regular
    BY <2>1 DEF ConsumeUnbuffered, Sending
  <2>3. m \in Message /\ FitsChannel(m) /\ out' = <<>>
    BY <1>1, <2>2, TakenMessage DEF GenericInv, TrackerInv, Undecided, Sent
  <2> HIDE DEF m
  <2>4. \/ verdict' = "tracking" /\ Open(task')
        \/ verdict' = "ready" /\ m.ch = "succeeded" /\ m.status = "ready"
        \/ verdict' = "failed" /\ m.ch = "failed" /\ m.status \in {"failed", "timeout"}
    BY <1>1, <2>2, <2>3, ConsumeIs
  <2>5. CASE verdict' = "tracking" /\ Open(task')
    <3>1. m.ch # "succeeded"
      BY <1>1, <2>2, <2>3, <2>5, ReadyMakesReady DEF Consume, Undecided, FitsChannel
    <3>2. lastState' # "ResourceSucceeded"
      BY <1>1, <2>2, <3>1 DEF Undecided, Sent, fields, m
    <3>3. Undecided'
      BY <1>1, <2>2, <2>3, <2>5, <3>2 DEF Undecided
    <3>4. QED
      BY <1>0, <2>2, <2>5, <3>3
  <2>6. QED
    BY <1>0, <2>2, <2>4, <2>5 DEF Sending, m
<1>4. QED
  BY <1>2, <1>3 DEF Consumes

LEMMA StepInv == GenericInv /\ [ReadinessNext]_readinessVars => GenericInv'
<1> SUFFICES ASSUME GenericInv, [ReadinessNext]_readinessVars PROVE GenericInv'
  OBVIOUS
<1> USE DEF GenericInv
<1>1. ASSUME UNCHANGED genericVars PROVE TrackerInv'
  BY <1>1 DEF genericVars, cluster, fields, history, TrackerInv, TrackerTyped, TickerFollows,
              SavedIsLatest, OutIsCurrent
<1>2. CASE (World \/ Ticker \/ TrackGoesOn) /\ UNCHANGED consumer
  BY <1>2, TrackerStep, TrackUndecided DEF ConsumerInv, consumer
<1>3. CASE EnqueueRegular
  <2>1. TrackerInv'
    BY <1>3, TrackerStep DEF EnqueueRegular
  <2>2. ASSUME verdict = "tracking" PROVE Undecided'
    <3>1. Undecided /\ out # <<>> /\ Head(out).ch = "regular"
      BY <1>3, <2>2 DEF EnqueueRegular, Sending, ConsumerInv
    <3>2. Head(out) \in Message /\ out' = <<>>
      BY <1>3, <3>1, TakenMessage DEF EnqueueRegular, Sent, TrackerInv
    <3>3. Head(out) \in Waiting
      BY <3>1, <3>2 DEF Waiting, Message, Undecided, FitsChannel
    <3>4. regular' \in Seq(Waiting)
      BY <1>3, <3>1, <3>3 DEF EnqueueRegular, Undecided
    <3>5. lastState' # "ResourceSucceeded" /\ Open(task')
      BY <1>3, <3>1 DEF EnqueueRegular, Undecided, Sent, fields
    <3>6. QED
      BY <3>2, <3>4, <3>5 DEF Undecided
  <2>3. QED
    BY <1>3, <2>1, <2>2 DEF EnqueueRegular, ConsumerInv
<1>4. CASE Consumes
  <2>1. TrackerInv'
    BY <1>1, <1>4, ConsumesIs, TrackerStep
  <2>2. QED
    BY <1>4, <2>1, ConsumesIs DEF ConsumerInv
<1>5. CASE ConsumeTrackErr
  BY <1>1, <1>5 DEF ConsumeTrackErr, ConsumerInv
<1>6. CASE ConsumerReturns
  BY <1>6 DEF ConsumerReturns, ConsumerInv, consumer, TrackerInv, TrackerTyped, TickerFollows,
              SavedIsLatest, OutIsCurrent, fields, history
<1>7. CASE TrackCancelled \/ TrackFails
  <2>1. TrackerInv'
    BY <1>7, TrackerStep DEF TrackCancelled, TrackFails
  <2>2. UNCHANGED <<out, lastState, regular, task, verdict>> /\ trackErr' \in {"error", "stopped"}
    BY <1>7 DEF TrackCancelled, TrackFails, HandleCtxDone, HandleError, Return, fields
  <2>3. QED
    BY <2>1, <2>2 DEF ConsumerInv, Undecided
<1>8. CASE Over \/ UNCHANGED readinessVars
  BY <1>1, <1>8 DEF Over, readinessVars, consumer, genericVars, fields, ConsumerInv, Undecided
<1>9. QED
  BY <1>2, <1>3, <1>4, <1>5, <1>6, <1>7, <1>8 DEF ReadinessNext

LEMMA Inductive == ReadinessSpec => []GenericInv
BY InitInv, StepInv, PTL DEF ReadinessSpec

-----------------------------------------------------------------------------
(***************************************************************************)
(* The theorems.                                                           *)
(***************************************************************************)

\* The object that waits for the end of the stabilization is the newest one.
THEOREM SavedObjectIsLatest == ReadinessSpec => []SavedIsLatest
<1>1. GenericInv => SavedIsLatest
  BY DEF GenericInv, TrackerInv
<1>2. QED
  BY <1>1, Inductive, PTL

\* The verdict of the consumer is about the newest object that Track has heard
\* of, or about the timer, or follows from a replay that was overtaken.
THEOREM VerdictsAreCurrent == ReadinessSpec => VerdictIsCurrent
<1>1. ASSUME GenericInv, [ReadinessNext]_readinessVars, NEW v \in {"ready", "failed"},
             verdict' = v, verdict # v
      PROVE  \/ heard = v \/ stale
             \/ v = "failed" /\ Sending("failed") /\ Head(out).status = "timeout"
  <2>1. Consumes \/ ConsumeTrackErr
    BY <1>1 DEF ReadinessNext, readinessVars, consumer, EnqueueRegular, ConsumerReturns,
                TrackCancelled, TrackFails, Over
  <2>2. ~ ConsumeTrackErr
    BY <1>1 DEF ConsumeTrackErr, GenericInv, ConsumerInv
  <2>3. /\ Head(out).status = v \/ (v = "failed" /\ Head(out).status = "timeout" /\ Sending("failed"))
        /\ out # <<>>
    BY <1>1, <2>1, <2>2, ConsumesIs DEF Sending
  <2>4. QED
    BY <1>1, <2>3 DEF GenericInv, TrackerInv, OutIsCurrent, Object
<1>2. GenericInv /\ [ReadinessNext]_readinessVars =>
        [\A v \in {"ready", "failed"} :
           verdict' = v => \/ verdict = v \/ heard = v \/ stale
                           \/ v = "failed" /\ Sending("failed") /\ Head(out).status = "timeout"]_readinessVars
  BY <1>1
<1>3. QED
  BY <1>2, Inductive, PTL DEF ReadinessSpec, VerdictIsCurrent
\* The verdict that a message makes is what ReadinessVerdict says of the charge.
LEMMA ConsumeRefines ==
  ASSUME Undecided, NEW m \in Message, FitsChannel(m), Consume(m)
  PROVE  [Verdict!Next]_(Verdict!vars)
<1>1. /\ task' = HandleMessage(task, m) /\ verdict' = VerdictOf(task') /\ Open(task)
      /\ verdict = "tracking"
  BY DEF Consume, Undecided
<1>2. CASE m.ch = "failed"
  <2>1. m.status \in {"failed", "timeout"}
    BY <1>2 DEF FitsChannel
  <2>2. /\ task'.failMode = task.failMode /\ task'.allow = task.allow
        /\ TotalErrors(task') = TotalErrors(task) + 1
        /\ \/ /\ Open(task')
              /\ ~ (task'.failMode # "IgnoreAndContinueDeployProcess"
                    /\ TotalErrors(task') > task'.allow)
           \/ /\ verdict' = "failed"
              /\ task'.failMode # "IgnoreAndContinueDeployProcess"
              /\ TotalErrors(task') > task'.allow
    BY <1>1, <1>2, <2>1, FailureIsCharged
  <2>3. Open(task') => verdict' = "tracking"
    BY <1>1, OpenHasNoVerdict
  <2>4. verdict' = IF /\ task.failMode # "IgnoreAndContinueDeployProcess"
                      /\ TotalErrors(task)' > task.allow
                     THEN "failed" ELSE "tracking"
    BY <2>2, <2>3 DEF TotalErrors, ResourceStates
  <2>5. TotalErrors(task)' = TotalErrors(task) + 1
    BY <2>2 DEF TotalErrors, ResourceStates
  <2>6. Verdict!Charge
    BY <1>1, <2>2, <2>4, <2>5 DEF Verdict!Charge, Verdict!Fails
  <2>7. QED
    BY <2>6 DEF Verdict!Next
<1>3. CASE m.ch # "failed"
  <2>1. /\ task'.failMode = task.failMode /\ task'.allow = task.allow
        /\ TotalErrors(task)' = TotalErrors(task)
    BY <1>1, <1>3, OthersChargeNothing DEF TotalErrors, ResourceStates
  <2>2. verdict' = "tracking" \/ verdict' = "ready"
    BY <1>3, ConsumeIs
  <2>3. CASE verdict' = "tracking"
    BY <1>1, <2>1, <2>3 DEF Verdict!vars
  <2>4. CASE verdict' = "ready"
    <3>1. Verdict!Succeed
      BY <1>1, <2>1, <2>4 DEF Verdict!Succeed
    <3>2. QED
      BY <3>1 DEF Verdict!Next
  <2>5. QED
    BY <2>2, <2>3, <2>4
<1>4. QED
  BY <1>2, <1>3

\* The generic tracker, its ticker, channels and consumer implement ReadinessVerdict
\* for any budget: each failure and each timeout is charged once, the first that the
\* budget does not cover ends the task in the same step, and the verdict is given once
\* (handleGenericResourceStatus, handleTaskStateStatus).
THEOREM BudgetIsRefined == ReadinessSpec => BudgetIsKept
<1>1. ReadinessInit => Verdict!Init
  <2> SUFFICES ASSUME ReadinessInit PROVE Verdict!Init
    OBVIOUS
  <2>1. PICK mode \in Modes, allow \in AllowedFailures : task = NewReadinessTaskState(mode, allow)
    BY DEF ReadinessInit
  <2>2. task.allow \in Nat /\ task.errors = {} /\ task.edges = {}
    BY <2>1, GenericReadinessAssumption DEF NewReadinessTaskState
  <2>3. {e \in task.errors : e[1] \in ResourceStates(task)} = {}
    BY <2>2
  <2>4. TotalErrors(task) = 0
    BY <2>3, FS_EmptySet DEF TotalErrors
  <2>5. QED
    BY <2>2, <2>4 DEF ReadinessInit, Verdict!Init
<1>2. ASSUME GenericInv, [ReadinessNext]_readinessVars
      PROVE  [Verdict!Next]_(Verdict!vars)
  <2>1. CASE UNCHANGED <<task, verdict>>
    BY <2>1 DEF Verdict!vars, TotalErrors, ResourceStates
  <2>2. CASE ConsumeTrackErr
    <3>1. verdict = "tracking" /\ verdict' \in {"error", "stopped"} /\ UNCHANGED task
      BY <1>2, <2>2 DEF ConsumeTrackErr, GenericInv, ConsumerInv
    <3>2. Verdict!GiveUp
      BY <3>1 DEF Verdict!GiveUp, TotalErrors, ResourceStates
    <3>3. QED
      BY <3>2 DEF Verdict!Next
  <2>3. CASE Consumes
    <3>1. Undecided
      BY <1>2, <2>3, ConsumesIs DEF GenericInv, ConsumerInv
    <3>2. CASE ConsumeRegular
      <4>1. Head(regular) \in Waiting
        BY <3>1, <3>2, HeadTailProperties DEF ConsumeRegular, Undecided
      <4>2. Head(regular) \in Message /\ FitsChannel(Head(regular)) /\ Consume(Head(regular))
        BY <3>2, <4>1, WaitingFits DEF ConsumeRegular
      <4>3. QED
        BY <3>1, <4>2, ConsumeRefines
    <3>3. CASE ConsumeAdded \/ ConsumeSucceeded \/ ConsumeFailed \/ ConsumeEvent
      <4>1. out # <<>> /\ Consume(Head(out))
        BY <3>3 DEF ConsumeAdded, ConsumeSucceeded, ConsumeFailed, ConsumeEvent, ConsumeUnbuffered,
                    Sending
      <4>2. Head(out) \in Message /\ FitsChannel(Head(out))
        BY <1>2, <3>1, <4>1, TakenMessage DEF GenericInv, TrackerInv, Undecided
      <4>3. QED
        BY <3>1, <4>1, <4>2, ConsumeRefines
    <3>4. QED
      BY <2>3, <3>2, <3>3 DEF Consumes
  <2>4. QED
    BY <1>2, <2>1, <2>2, <2>3 DEF ReadinessNext, readinessVars, consumer, EnqueueRegular,
       ConsumerReturns, TrackCancelled, TrackFails, Over
<1>3. QED
  BY <1>1, <1>2, Inductive, PTL DEF ReadinessSpec, BudgetIsKept, Verdict!Spec
=============================================================================
