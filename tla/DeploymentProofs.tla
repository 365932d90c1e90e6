-------------------------- MODULE DeploymentProofs --------------------------
(***************************************************************************)
(* The tracker of a Deployment and its consumer, for any number of         *)
(* ReplicaSets, Deployments, names, templates and changes of the cluster,  *)
(* any budget and any size of the channels.  There are three parts: the    *)
(* tracker alone; what its bookkeeping is for, against the history of what *)
(* it consumed and sent; and the tracker with its consumer.                *)
(***************************************************************************)
EXTENDS DeploymentHistory, DeploymentReadiness, FiniteSetTheorems, SequenceTheorems, TLAPS

-----------------------------------------------------------------------------
(***************************************************************************)
(* PART 1.  Safety of DeploymentTracker.                                   *)
(***************************************************************************)

-----------------------------------------------------------------------------
(***************************************************************************)
(* What each part of a handler returns.                                    *)
(***************************************************************************)

LEMMA KnownType ==
  ASSUME NEW d \in Tracker
  PROVE  /\ Known(d) \subseteq Snapshot
         /\ FailingNew(d) \subseteq Known(d)
         /\ FailingNew(d) # {} => d.lastObject \in Object
BY DEF Tracker, Known, FailingNew, NewReplicaSet, Candidates

LEMMA SendType ==
  ASSUME NEW d \in Tracker, NEW m \in Message
  PROVE  /\ Send(d, m) \in Tracker
         /\ Send(d, m) = [d EXCEPT !.out = Append(d.out, m)]
<1>1. Append(d.out, m) \in Seq(Message)
  BY DEF Tracker
<1> DEFINE o == Append(d.out, m)
<1>2. Send(d, m) = [d EXCEPT !.out = o]
  BY DEF Send
<1>3. o \in Seq(Message)
  BY <1>1
<1> HIDE DEF o
<1>4. [d EXCEPT !.out = o] \in Tracker
  BY <1>3 DEF Tracker
<1>5. QED
  BY <1>2, <1>4 DEF o

LEMMA MsgType ==
  ASSUME NEW ch \in Channel
  PROVE  Msg(ch) \in Message
BY DEF Message, Msg, Mode

LEMMA AbsolveType ==
  ASSUME NEW d \in Tracker, NEW u \in UID
  PROVE  Absolve(d, u) \in Tracker
<1> DEFINE f == ForgetReplicaSetFailure(d, u)
<1>1. f \in Tracker
  BY DEF ForgetReplicaSetFailure, Tracker, Age
<1>2. QED
  BY <1>1 DEF Absolve, ClearReplicaSetFailure, Tracker, TrackerState

LEMMA HandleResourceFailureType ==
  ASSUME NEW d \in Tracker, NEW u \in UID \cup {None}, NEW mode \in Mode
  PROVE  HandleResourceFailure(d, u, mode) \in Tracker
<1> DEFINE e == [d EXCEPT !.State = "Failed", !.failedFrom = u]
           m == [ch |-> "Failed", from |-> u, mode |-> mode]
<1>1. e \in Tracker
  BY DEF Tracker, TrackerState
<1>2. m \in Message
  BY DEF Message, Channel
<1>3. QED
  BY <1>1, <1>2, SendType DEF HandleResourceFailure

LEMMA JudgeType ==
  ASSUME NEW d \in Tracker, NEW s \in Snapshot, NEW canRelease \in BOOLEAN,
         d.lastObject \in Object
  PROVE  JudgeNewFailure(d, s, canRelease) \in Tracker
<1>0. s.uid \in UID
  BY DEF Snapshot
<1>1. Absolve(d, s.uid) \in Tracker
  BY <1>0, AbsolveType
<1>2. Suspect(d, s.uid) \in Tracker
  BY <1>0 DEF Suspect, Tracker, Age
<1>3. ReportNewFailure(d, s, canRelease) \in Tracker
  <2>1. [d EXCEPT !.reported = @ \cup {s.uid}] \in Tracker
    BY <1>0 DEF Tracker
  <2>2. ReplicaSetFailureMode(s.failure, canRelease) \in Mode
    BY DEF ReplicaSetFailureMode, Mode
  <2>3. QED
    BY <2>1, <2>2, <1>0, HandleResourceFailureType DEF ReportNewFailure
<1>4. d.lastObject.ready \in BOOLEAN
  BY DEF Object
<1>5. QED
  BY <1>1, <1>2, <1>3, <1>4 DEF JudgeNewFailure

LEMMA HandleNewType ==
  ASSUME NEW d \in Tracker, NEW canRelease \in BOOLEAN
  PROVE  HandleNewReplicaSetFailure(d, canRelease) \in Tracker
BY KnownType, JudgeType DEF HandleNewReplicaSetFailure

LEMMA StatusChannelIs ==
  ASSUME NEW state \in TrackerState, NEW ready \in BOOLEAN
  PROVE  \/ StatusChannel(state, ready) = {} /\ state = "Ready"
         \/ StatusChannel(state, ready) = {"Ready"} /\ state # "Ready"
         \/ StatusChannel(state, ready) = {"Added"} /\ state \in {"Initial", "Deleted"}
         \/ StatusChannel(state, ready) = {"Status"} /\ state \in {"Added", "Failed"}
BY DEF StatusChannel, TrackerState

\* Only the last seen object, the state and the pending sends change, and the
\* tracker is past its first Deployment.
LEMMA HandleDeploymentStateIs ==
  ASSUME NEW d \in Tracker, NEW o \in Object
  PROVE  LET e == HandleDeploymentState(d, o)
         IN /\ e \in Tracker
            /\ e.lastObject = o
            /\ e.State # "Initial"
            /\ e.known = d.known /\ e.deleted = d.deleted /\ e.synced = d.synced
            /\ e.reported = d.reported /\ e.since = d.since
            /\ e.failedFrom = d.failedFrom
<1> DEFINE seenObject == [d EXCEPT !.lastObject = o]
           channel == StatusChannel(d.State, o.ready)
           ch == CHOOSE c \in channel : TRUE
           sent == [seenObject EXCEPT !.State = IF ch = "Status" THEN @ ELSE ch]
<1>1. d.State \in TrackerState /\ o.ready \in BOOLEAN
  BY DEF Tracker, Object
<1>2. seenObject \in Tracker
  BY DEF Tracker
<1>3. CASE channel = {}
  <2>1. HandleDeploymentState(d, o) = seenObject /\ d.State = "Ready"
    BY <1>1, <1>3, StatusChannelIs DEF HandleDeploymentState
  <2>2. QED
    BY <1>2, <2>1 DEF Tracker
<1>4. CASE channel # {}
  <2>1. /\ ch \in {"Ready", "Added", "Status"}
        /\ ch = "Status" => d.State \in {"Added", "Failed"}
    BY <1>1, <1>4, StatusChannelIs
  <2>2. sent \in Tracker
    BY <2>1, <1>2 DEF Tracker, TrackerState
  <2>3. Msg(ch) \in Message
    BY <2>1, MsgType DEF Channel
  <2>4. HandleDeploymentState(d, o) = Send(sent, Msg(ch))
    BY <1>4 DEF HandleDeploymentState
  <2>5. /\ sent.lastObject = o
        /\ sent.State # "Initial"
        /\ sent.known = d.known /\ sent.deleted = d.deleted /\ sent.synced = d.synced
        /\ sent.reported = d.reported /\ sent.since = d.since
        /\ sent.failedFrom = d.failedFrom
    BY <2>1 DEF Tracker
  <2> HIDE DEF sent
  <2>6. Send(sent, Msg(ch)) \in Tracker /\ Send(sent, Msg(ch)) = [sent EXCEPT !.out = Append(sent.out, Msg(ch))]
    BY <2>2, <2>3, SendType
  <2>7. QED
    BY <2>2, <2>4, <2>5, <2>6 DEF Tracker
<1>5. QED
  BY <1>3, <1>4

LEMMA AddKnownType ==
  ASSUME NEW d \in Tracker, NEW s \in Snapshot
  PROVE  AddKnown(d, s) \in Tracker
<1> DEFINE e == [d EXCEPT !.known[NameOf[s.uid]] = s]
<1>1. s.uid \in UID
  BY DEF Snapshot
<1>2. e \in Tracker
  BY <1>1, ConstantsAssumption DEF Tracker
<1>3. QED
  BY <1>1, <1>2, AbsolveType DEF AddKnown, RearmReplicaSetFailure

LEMMA DropKnownType ==
  ASSUME NEW d \in Tracker, NEW s \in Snapshot
  PROVE  DropKnown(d, s) \in Tracker
<1>1. NameOf[s.uid] \in Name
  BY ConstantsAssumption DEF Snapshot
<1>2. QED
  BY <1>1 DEF DropKnown, Tracker

LEMMA ResetType ==
  ASSUME NEW d \in Tracker
  PROVE  ResetOnDelete(d) \in Tracker
<1> DEFINE e == [d EXCEPT !.State = "Deleted", !.lastObject = None,
                          !.known = [n \in Name |-> None], !.deleted = {},
                          !.reported = {}, !.since = [u \in UID |-> "none"],
                          !.failedFrom = None]
<1>1. e \in Tracker
  BY DEF Tracker, TrackerState, Age
<1>2. Msg("Status") \in Message
  BY MsgType DEF Channel
<1>3. QED
  BY <1>1, <1>2, SendType DEF ResetOnDelete

LEMMA ResetIs ==
  ASSUME NEW d \in Tracker
  PROVE  LET e == ResetOnDelete(d)
         IN /\ e.State = "Deleted" /\ e.lastObject = None
            /\ e.known = [n \in Name |-> None] /\ e.deleted = {}
            /\ e.failedFrom = None
BY DEF ResetOnDelete, Send, Tracker

LEMMA BecomeType ==
  ASSUME TypeOK, NEW d \in Tracker, Become(d)
  PROVE  t' \in Tracker /\ staleTimers' \in Nat
<1> DEFINE stopped == {u \in Running(t) : d.since[u] = "none"}
<1>1. IsFiniteSet(stopped)
  <2>1. stopped \subseteq UID
    BY DEF Running
  <2>2. QED
    BY <2>1, FS_Subset, ConstantsAssumption
<1>2. Cardinality(stopped) \in Nat
  BY <1>1, FS_CardinalityType
<1>3. QED
  BY <1>2 DEF Become, TypeOK

-----------------------------------------------------------------------------
(***************************************************************************)
(* Type correctness.                                                       *)
(***************************************************************************)

LEMMA OfferType ==
  ASSUME TypeOK, rsOffer # <<>>
  PROVE  /\ Head(rsOffer) \in Event
         /\ Head(rsOffer).rs \in Snapshot
         /\ Head(rsOffer).rs.uid \in UID
         /\ Tail(rsOffer) \in Seq(Event)
<1>1. rsOffer \in Seq(Event)
  BY DEF TypeOK
<1>2. Head(rsOffer) \in Event /\ Tail(rsOffer) \in Seq(Event)
  BY <1>1
<1>3. QED
  BY <1>2 DEF Event, Snapshot

LEMMA EventType ==
  ASSUME TypeOK, NEW kind \in Kind, NEW u \in UID, NEW r \in ReplicaSetState, NEW b \in BOOLEAN
  PROVE  /\ EventOf(kind, u, r) \in Event
         /\ If(b, EventOf(kind, u, r)) \in Seq(Event)
<1>1. EventOf(kind, u, r) \in Event
  BY DEF EventOf, Event, SnapshotOf, Snapshot, ReplicaSetState
<1>2. QED
  BY <1>1 DEF If

LEMMA ReplicaSetEventType ==
  ASSUME TypeOK, NEW newSets \in [UID -> ReplicaSetState], NEW newSeen \in SUBSET UID,
         NEW events \in Seq(Event), ReplicaSetEvent(newSets, newSeen, events)
  PROVE  TypeOK'
<1>1. rsOffer' \in Seq(Event)
  BY DEF ReplicaSetEvent
<1>2. changes' \in 0 .. MaxChanges
  BY ConstantsAssumption DEF ReplicaSetEvent, Change, TypeOK
<1>3. QED
  BY <1>1, <1>2 DEF TypeOK, ReplicaSetEvent, Change

LEMMA LiveStateType ==
  ASSUME NEW r \in LiveStates
  PROVE  r \in ReplicaSetState /\ r.phase = "live" /\ r.selected \in BOOLEAN
BY ConstantsAssumption DEF ReplicaSetState

LEMMA TypeStep ==
  ASSUME TypeOK, [Next]_vars
  PROVE  TypeOK'
<1> USE DEF env
<1> DEFINE T == t' \in Tracker /\ staleTimers' \in Nat
<1>1. ASSUME NEW kind \in {"Added", "Modified"}, HandleResource(kind)
      PROVE  TypeOK'
  <2>1. buf[kind] \in Object
    BY <1>1 DEF HandleResource, TypeOK
  <2>2. T
    <3>1. PICK c \in BOOLEAN :
            Become(HandleNewReplicaSetFailure(HandleDeploymentState(t, buf[kind]), c))
      BY <1>1 DEF HandleResource
    <3>2. HandleDeploymentState(t, buf[kind]) \in Tracker
      BY <2>1, HandleDeploymentStateIs DEF TypeOK
    <3>3. QED
      BY <3>1, <3>2, HandleNewType, BecomeType
  <2>3. watch' \in {"off", "listing", "synced"} /\ listing' \subseteq UID
    BY <1>1 DEF HandleResource, StartInformers, TypeOK
  <2>4. QED
    BY <1>1, <2>2, <2>3 DEF HandleResource, TypeOK
<1>2. CASE HandleResourceDeleted
  <2>1. T
    BY <1>2, ResetType, BecomeType DEF HandleResourceDeleted, TypeOK
  <2>2. QED
    BY <1>2, <2>1 DEF HandleResourceDeleted, TypeOK
<1>3. CASE HandleResourceFailed
  <2>1. t' \in Tracker
    BY <1>3, HandleResourceFailureType DEF HandleResourceFailed, TypeOK, Mode
  <2>2. QED
    BY <1>3, <2>1 DEF HandleResourceFailed, TypeOK
<1>4. ASSUME NEW kind, Receive(kind), T PROVE TypeOK'
  BY <1>4, OfferType DEF Receive, TypeOK
<1>5. CASE HandleReplicaSetAdded
  <2> DEFINE s == Head(rsOffer).rs
             d == AddKnown(t, s)
             announced == IF d.lastObject = None THEN d ELSE Send(d, Msg("AddedReplicaSet"))
  <2>1. Receive("Added") /\ s \in Snapshot
    BY <1>5, OfferType DEF HandleReplicaSetAdded, Receive
  <2>2. announced \in Tracker
    BY <2>1, AddKnownType, MsgType, SendType DEF TypeOK, Channel
  <2>3. PICK c \in BOOLEAN :
          Become(IF s.uid \in t.deleted THEN t ELSE HandleNewReplicaSetFailure(announced, c))
    BY <1>5 DEF HandleReplicaSetAdded
  <2>4. T
    BY <2>2, <2>3, HandleNewType, BecomeType DEF TypeOK
  <2>5. QED
    BY <1>4, <2>1, <2>4
<1>6. CASE HandleReplicaSetModified
  <2> DEFINE s == Head(rsOffer).rs
  <2>1. Receive("Modified") /\ s \in Snapshot
    BY <1>6, OfferType DEF HandleReplicaSetModified, Receive
  <2>2. AddKnown(t, s) \in Tracker
    BY <2>1, AddKnownType DEF TypeOK
  <2>3. PICK c \in BOOLEAN :
          Become(IF s.uid \notin t.deleted /\ MayUpdate(t, s)
                   THEN HandleNewReplicaSetFailure(AddKnown(t, s), c)
                   ELSE t)
    BY <1>6 DEF HandleReplicaSetModified
  <2>4. T
    BY <2>2, <2>3, HandleNewType, BecomeType DEF TypeOK
  <2>5. QED
    BY <1>4, <2>1, <2>4
<1>7. ASSUME NEW d \in Tracker, NEW kind, Receive(kind),
             \E c \in BOOLEAN : Become(HandleNewReplicaSetFailure(
                Absolve(DropKnown(d, Head(rsOffer).rs), Head(rsOffer).rs.uid), c))
      PROVE  TypeOK'
  <2> DEFINE s == Head(rsOffer).rs
             e == Absolve(DropKnown(d, s), s.uid)
  <2>1. s \in Snapshot /\ s.uid \in UID
    BY <1>7, OfferType DEF Receive
  <2>2. e \in Tracker
    BY <2>1, DropKnownType, AbsolveType
  <2>3. T
    BY <1>7, <2>2, HandleNewType, BecomeType
  <2>4. QED
    BY <1>4, <1>7, <2>3
<1>8. CASE HandleReplicaSetDeleted
  <2> DEFINE d == [t EXCEPT !.deleted = @ \cup {Head(rsOffer).rs.uid}]
  <2>1. Receive("Deleted")
    BY <1>8 DEF HandleReplicaSetDeleted
  <2>2. d \in Tracker
    BY <2>1, OfferType DEF Receive, Tracker, TypeOK
  <2>3. QED
    BY <1>7, <1>8, <2>1, <2>2 DEF HandleReplicaSetDeleted
<1>9. CASE HandleReplicaSetUnselected
  BY <1>7, <1>9 DEF HandleReplicaSetUnselected, TypeOK
<1>10. CASE HandleReplicaSetSynced
  <2>1. [t EXCEPT !.synced = TRUE] \in Tracker
    BY DEF TypeOK, Tracker
  <2>2. T
    BY <1>10, <2>1, HandleNewType, BecomeType DEF HandleReplicaSetSynced
  <2>3. QED
    BY <1>10, <2>2 DEF HandleReplicaSetSynced, TypeOK
<1>11. CASE HandleQuotaDeadlockRecheck
  <2>1. T
    BY <1>11, HandleNewType, BecomeType DEF HandleQuotaDeadlockRecheck, TypeOK
  <2>2. QED
    BY <1>11, <2>1 DEF HandleQuotaDeadlockRecheck, TypeOK
<1>12. CASE HandlePodUpdate
  <2>1. t' \in Tracker
    <3>1. t \in Tracker /\ t.lastObject \in Object
      BY <1>12 DEF HandlePodUpdate, TypeOK, Tracker
    <3>2. QED
      BY <1>12, <3>1, HandleDeploymentStateIs DEF HandlePodUpdate
  <2>2. QED
    BY <1>12, <2>1 DEF HandlePodUpdate, TypeOK
<1>13. CASE HandleCtxDone \/ HandleError \/ AbortFailedSend
  BY <1>13 DEF HandleCtxDone, HandleError, AbortFailedSend, TypeOK
<1>14. CASE DeploymentAdded \/ DeploymentModified \/ DeploymentDeleted
  <2>1. PICK kind \in {"Added", "Modified", "Deleted"}, new \in Object \cup {None}, sent \in Object :
          DeploymentEvent(kind, new, sent)
    BY <1>14 DEF DeploymentAdded, DeploymentModified, DeploymentDeleted, TypeOK
  <2>2. buf' \in [{"Added", "Modified", "Deleted"} -> Object \cup {None}]
    BY <2>1 DEF DeploymentEvent, TypeOK
  <2>3. changes' \in 0 .. MaxChanges
    BY <2>1, ConstantsAssumption DEF DeploymentEvent, Change, TypeOK
  <2>4. QED
    BY <2>1, <2>2, <2>3 DEF DeploymentEvent, TypeOK
<1>15. ASSUME NEW u \in UID, ReplicaSetCreated(u)
       PROVE  TypeOK'
  <2>1. PICK r \in LiveStates :
          ReplicaSetEvent([rsets EXCEPT ![u] = r], seen \cup Watched({u}),
                          If(r.selected, EventOf("Added", u, r)))
    BY <1>15 DEF ReplicaSetCreated
  <2>2. [rsets EXCEPT ![u] = r] \in [UID -> ReplicaSetState] /\ seen \cup Watched({u}) \in SUBSET UID
    BY LiveStateType DEF TypeOK, Watched
  <2>3. If(r.selected, EventOf("Added", u, r)) \in Seq(Event)
    BY LiveStateType, EventType DEF Kind
  <2>4. QED
    BY <2>1, <2>2, <2>3, ReplicaSetEventType
<1>16. ASSUME NEW u \in UID, ReplicaSetUpdated(u)
       PROVE  TypeOK'
  <2> DEFINE events(r) ==
         CASE rsets[u].selected /\ r.selected     -> <<EventOf("Modified", u, r)>>
           [] rsets[u].selected /\ ~ r.selected   -> <<EventOf("Unselected", u, r)>>
           [] ~ rsets[u].selected /\ r.selected   -> <<EventOf("Added", u, r)>>
           [] ~ rsets[u].selected /\ ~ r.selected -> <<>>
  <2>1. PICK r \in LiveStates \ {rsets[u]} : ReplicaSetEvent([rsets EXCEPT ![u] = r], seen, events(r))
    BY <1>16 DEF ReplicaSetUpdated
  <2>2. r \in ReplicaSetState /\ r.selected \in BOOLEAN /\ rsets[u].selected \in BOOLEAN
    BY LiveStateType DEF TypeOK, ReplicaSetState
  <2>3. \A kind \in Kind : EventOf(kind, u, r) \in Event
    BY <2>2, EventType
  <2>4. events(r) \in Seq(Event)
    BY <2>2, <2>3 DEF Kind
  <2>5. [rsets EXCEPT ![u] = r] \in [UID -> ReplicaSetState] /\ seen \in SUBSET UID
    BY <2>2 DEF TypeOK
  <2> HIDE DEF events
  <2>6. QED
    BY <2>1, <2>4, <2>5, ReplicaSetEventType
<1>17. ASSUME NEW u \in UID, NEW v \in UID, ReplicaSetReplaced(u, v)
       PROVE  TypeOK'
  <2>1. PICK r \in LiveStates :
          ReplicaSetEvent([rsets EXCEPT ![u].phase = "gone", ![v] = r],
                       (seen \ {u}) \cup Watched({v}),
                       If(rsets[u].selected, EventOf("Deleted", u, rsets[u]))
                         \o If(r.selected, EventOf("Added", v, r)))
    BY <1>17 DEF ReplicaSetReplaced
  <2>2. /\ If(rsets[u].selected, EventOf("Deleted", u, rsets[u])) \in Seq(Event)
        /\ If(r.selected, EventOf("Added", v, r)) \in Seq(Event)
    BY LiveStateType, EventType DEF Kind, TypeOK, ReplicaSetState
  <2> DEFINE a == If(rsets[u].selected, EventOf("Deleted", u, rsets[u]))
             b == If(r.selected, EventOf("Added", v, r))
  <2> HIDE DEF a, b
  <2>a. a \o b \in Seq(Event)
    BY <2>2 DEF a, b
  <2>3. /\ [rsets EXCEPT ![u].phase = "gone", ![v] = r] \in [UID -> ReplicaSetState]
        /\ (seen \ {u}) \cup Watched({v}) \in SUBSET UID
    BY LiveStateType DEF TypeOK, ReplicaSetState, Watched
  <2>4. QED
    BY <2>1, <2>a, <2>3, ReplicaSetEventType DEF a, b
<1>18. ASSUME NEW u \in UID, ReplicaSetDeleted(u)
       PROVE  TypeOK'
  <2>1. If(rsets[u].selected, EventOf("Deleted", u, rsets[u])) \in Seq(Event)
    BY EventType DEF Kind, TypeOK, ReplicaSetState
  <2>2. [rsets EXCEPT ![u].phase = "gone"] \in [UID -> ReplicaSetState] /\ seen \ {u} \in SUBSET UID
    BY DEF TypeOK, ReplicaSetState
  <2>3. QED
    BY <1>18, <2>1, <2>2, ReplicaSetEventType DEF ReplicaSetDeleted
<1>19. ASSUME NEW u \in UID, ReplicaSetListed(u)
       PROVE  TypeOK'
  <2>1. If(rsets[u].selected, EventOf("Added", u, rsets[u])) \in Seq(Event)
    BY EventType DEF Kind, TypeOK, ReplicaSetState
  <2>2. listing' \subseteq UID /\ seen' \subseteq UID
    BY <1>19 DEF ReplicaSetListed, TypeOK
  <2>3. QED
    BY <1>19, <2>1, <2>2 DEF ReplicaSetListed, TypeOK
<1>20. ASSUME NEW u \in UID, Elapse(u) \/ TimerFires(u)
       PROVE  TypeOK'
  <2>1. t' \in Tracker
    BY <1>20 DEF Elapse, TimerFires, TypeOK, Tracker, Age
  <2>2. QED
    BY <1>20, <2>1 DEF Elapse, TimerFires, TypeOK
<1>21. CASE Sent
  <2>1. t' \in Tracker
    <3>1. t.out \in Seq(Message) /\ t.out # <<>>
      BY <1>21 DEF Sent, TypeOK, Tracker
    <3>2. Tail(t.out) \in Seq(Message)
      BY <3>1
    <3>3. QED
      BY <1>21, <3>2 DEF Sent, TypeOK, Tracker
  <2>2. QED
    BY <1>21, <2>1 DEF Sent, TypeOK
<1>22. CASE DropOffer
  BY <1>22, OfferType DEF DropOffer, TypeOK
<1>23. CASE EventFailure \/ StaleTimerFires \/ Cancel
  <2>1. changes' \in 0 .. MaxChanges
    BY <1>23, ConstantsAssumption DEF EventFailure, StaleTimerFires, Cancel, Change, TypeOK
  <2>2. CASE EventFailure
    BY <2>1, <2>2 DEF EventFailure, TypeOK
  <2>3. CASE StaleTimerFires
    BY <2>1, <2>3 DEF StaleTimerFires, TypeOK
  <2>4. CASE Cancel
    BY <2>1, <2>4 DEF Cancel, TypeOK
  <2>5. QED
    BY <1>23, <2>2, <2>3, <2>4
<1>24. CASE UNCHANGED vars
  BY <1>24 DEF vars, TypeOK
<1>25. CASE Track
  BY <1>1, <1>2, <1>3, <1>5, <1>6, <1>8, <1>9, <1>10, <1>11, <1>12, <1>13, <1>25
  DEF Track, HandleResourceAdded, HandleResourceModified
<1>26. CASE Environment
  BY <1>14, <1>15, <1>16, <1>17, <1>18, <1>19, <1>20, <1>21, <1>22, <1>23, <1>24, <1>26
  DEF Environment, Returned, Quiet
<1>27. QED
  BY <1>24, <1>25, <1>26 DEF Next

LEMMA TypeInit == Init => TypeOK
<1> SUFFICES ASSUME Init PROVE TypeOK
  OBVIOUS
<1>1. t \in Tracker
  BY DEF Init, Tracker, TrackerState, Age
<1>2. rsets \in [UID -> ReplicaSetState]
  BY ConstantsAssumption DEF Init
<1>3. buf \in [{"Added", "Modified", "Deleted"} -> Object \cup {None}]
  BY DEF Init
<1>4. rsOffer \in Seq(Event)
  BY DEF Init
<1>5. /\ depl \in Object \cup {None}
      /\ watch \in {"off", "listing", "synced"}
      /\ seen \subseteq UID /\ listing \subseteq UID
      /\ eventFailure \in BOOLEAN /\ recheck \in BOOLEAN /\ staleTimers \in Nat
      /\ ctxDone \in BOOLEAN
      /\ pc \in {"running", "returned"}
  BY DEF Init
<1>6. changes \in 0 .. MaxChanges
  BY ConstantsAssumption DEF Init
<1>7. QED
  BY <1>1, <1>2, <1>3, <1>4, <1>5, <1>6 DEF TypeOK

\* Every variable keeps its type, for any number of ReplicaSets and changes.
THEOREM TypeCorrect == Spec => []TypeOK
<1>1. TypeOK /\ [Next]_vars => TypeOK'
  BY TypeStep
<1>2. QED
  BY TypeInit, <1>1, PTL DEF Spec

-----------------------------------------------------------------------------
(***************************************************************************)
(* What the handlers leave alone, and what they make of a failure.         *)
(***************************************************************************)

\* d and e agree on what the informers have said.
SameView(d, e) ==
  /\ e.known = d.known /\ e.deleted = d.deleted
  /\ e.lastObject = d.lastObject /\ e.synced = d.synced
  /\ e.State = "Initial" => d.State = "Initial"

\* An entry of knownReplicaSets is filed under its name.
Filed(d) == \A n \in Name : d.known[n] # None => NameOf[d.known[n].uid] = n

LEMMA SameFailing ==
  ASSUME NEW d \in Tracker, NEW e \in Tracker, SameView(d, e)
  PROVE  Known(e) = Known(d) /\ FailingNew(e) = FailingNew(d)
<1>1. Known(e) = Known(d)
  BY DEF SameView, Known
<1>2. Candidates(e) = Candidates(d)
  BY <1>1 DEF SameView, Candidates
<1>3. QED
  BY <1>1, <1>2 DEF SameView, FailingNew, NewReplicaSet

LEMMA SendIs ==
  ASSUME NEW d \in Tracker, NEW m \in Message
  PROVE  /\ SameView(d, Send(d, m))
         /\ Send(d, m).State = d.State
         /\ Send(d, m).reported = d.reported /\ Send(d, m).since = d.since
         /\ Send(d, m).failedFrom = d.failedFrom
BY SendType DEF SameView, Tracker

LEMMA AbsolveIs ==
  ASSUME NEW d \in Tracker, NEW u \in UID
  PROVE  LET e == Absolve(d, u)
         IN /\ SameView(d, e)
            /\ e.reported = d.reported \ {u}
            /\ e.since = [d.since EXCEPT ![u] = "none"]
            /\ e.failedFrom = IF d.failedFrom = u THEN None ELSE d.failedFrom
<1> DEFINE f == ForgetReplicaSetFailure(d, u)
<1>1. /\ f \in Tracker /\ SameView(d, f)
      /\ f.State = d.State
      /\ f.reported = d.reported \ {u}
      /\ f.since = [d.since EXCEPT ![u] = "none"]
      /\ f.failedFrom = d.failedFrom
  BY DEF ForgetReplicaSetFailure, Tracker, Age, SameView
<1> HIDE DEF f
<1>2. LET e == ClearReplicaSetFailure(f, u)
      IN /\ SameView(f, e)
         /\ e.reported = f.reported /\ e.since = f.since
         /\ e.failedFrom = IF f.failedFrom = u THEN None ELSE f.failedFrom
  BY <1>1 DEF ClearReplicaSetFailure, Tracker, SameView
<1>3. Absolve(d, u) = ClearReplicaSetFailure(f, u)
  BY DEF Absolve, f
<1>4. QED
  BY <1>1, <1>2, <1>3 DEF SameView

LEMMA ReportIs ==
  ASSUME NEW d \in Tracker, NEW s \in Snapshot, NEW canRelease \in BOOLEAN
  PROVE  LET e == ReportNewFailure(d, s, canRelease)
         IN /\ SameView(d, e)
            /\ e.reported = d.reported \cup {s.uid}
            /\ e.since = d.since
            /\ e.failedFrom = s.uid
<1> DEFINE u == s.uid
           mode == ReplicaSetFailureMode(s.failure, canRelease)
           m == [ch |-> "Failed", from |-> u, mode |-> mode]
           f == [d EXCEPT !.reported = @ \cup {s.uid}]
           g == [f EXCEPT !.State = "Failed", !.failedFrom = u]
<1>1. u \in UID
  BY DEF Snapshot
<1>2. m \in Message
  BY <1>1 DEF Message, Channel, Mode, ReplicaSetFailureMode
<1>3. /\ g \in Tracker /\ SameView(d, g)
      /\ g.reported = d.reported \cup {s.uid} /\ g.since = d.since /\ g.failedFrom = s.uid
  BY <1>1 DEF Tracker, TrackerState, SameView
<1>4. ReportNewFailure(d, s, canRelease) = Send(g, m)
  BY DEF ReportNewFailure, HandleResourceFailure
<1> HIDE DEF g, m
<1>5. QED
  BY <1>2, <1>3, <1>4, SendIs DEF SameView

LEMMA SuspectIs ==
  ASSUME NEW d \in Tracker, NEW u \in UID
  PROVE  LET e == Suspect(d, u)
         IN /\ SameView(d, e)
            /\ e.reported = d.reported /\ e.failedFrom = d.failedFrom
            /\ e.since[u] = IF d.since[u] = "none" THEN "young" ELSE d.since[u]
BY DEF Suspect, SameView, Tracker

LEMMA SendOut ==
  ASSUME NEW d \in Tracker, NEW m \in Message
  PROVE  Send(d, m).out = Append(d.out, m)
<1> DEFINE o == Append(d.out, m)
<1>1. Send(d, m) = [d EXCEPT !.out = o]
  BY DEF Send
<1> HIDE DEF o
<1>2. Send(d, m).out = o
  BY <1>1 DEF Tracker
<1>3. QED
  BY <1>2 DEF o

LEMMA AbsolveOut ==
  ASSUME NEW d \in Tracker, NEW u \in UID
  PROVE  LET e == Absolve(d, u)
         IN /\ e.out = d.out
            /\ e.State = d.State \/ (d.State = "Failed" /\ e.State = "Added")
BY DEF Absolve, ClearReplicaSetFailure, ForgetReplicaSetFailure, Tracker

\* FindNewReplicaSet has one answer.
LEMMA OneNewReplicaSet ==
  ASSUME NEW d \in Tracker, Filed(d), NEW s \in FailingNew(d), NEW r \in FailingNew(d)
  PROVE  s = r
<1>1. s \in NewReplicaSet(d) /\ r \in NewReplicaSet(d)
  BY DEF FailingNew
<1>2. s \in Known(d) /\ r \in Known(d) /\ s.uid \in UID /\ r.uid \in UID
  BY KnownType DEF Snapshot
<1>3. Rank[s.uid] = Rank[r.uid]
  BY <1>1, <1>2, ConstantsAssumption DEF NewReplicaSet
<1>4. s.uid = r.uid
  BY <1>2, <1>3, ConstantsAssumption
<1>5. QED
  BY <1>2, <1>4 DEF Known, Filed

LEMMA JudgeIs ==
  ASSUME NEW d \in Tracker, Filed(d), NEW s \in FailingNew(d), NEW canRelease \in BOOLEAN,
         NEW token
  PROVE  LET e == JudgeNewFailure(d, s, canRelease)
         IN /\ SameView(d, e)
            /\ Attributable(d) => Attributable(e)
            /\ Settled(e, token)
<1> DEFINE e == JudgeNewFailure(d, s, canRelease)
<1>1. /\ s \in Snapshot /\ s.uid \in UID /\ s \in Known(d) /\ s.failure # "none"
      /\ d.lastObject \in Object /\ d.lastObject.ready \in BOOLEAN
  BY KnownType DEF Snapshot, Object, FailingNew
<1>2. e \in Tracker
  BY <1>1, JudgeType
<1>3. FailingNew(d) = {s}
  BY OneNewReplicaSet
<1>4. CASE d.lastObject.ready
  <2>1. e = Absolve(d, s.uid)
    BY <1>4, <1>1 DEF JudgeNewFailure
  <2> HIDE DEF e
  <2>2. /\ SameView(d, e)
        /\ e.reported = d.reported \ {s.uid}
        /\ e.failedFrom = IF d.failedFrom = s.uid THEN None ELSE d.failedFrom
    BY <1>1, <2>1, AbsolveIs
  <2>3. Known(e) = Known(d) /\ FailingNew(e) = {s}
    BY <1>2, <1>3, <2>2, SameFailing
  <2>4. Attributable(d) => Attributable(e)
    BY <2>2, <2>3 DEF Attributable
  <2>5. Settled(e, token)
    BY <1>4, <2>2, <2>3 DEF Settled, SameView
  <2>6. QED
    BY <2>2, <2>4, <2>5 DEF e
<1>5. CASE ~ d.lastObject.ready /\ s.uid \in d.reported
  <2>1. e = d
    BY <1>5, <1>1 DEF JudgeNewFailure
  <2>2. QED
    BY <1>3, <1>5, <2>1 DEF Settled, SameView
<1>6. CASE ~ d.lastObject.ready /\ s.uid \notin d.reported /\ Undecided(d, s, canRelease)
  <2>1. e = Suspect(d, s.uid)
    BY <1>6, <1>1 DEF JudgeNewFailure
  <2>2. SameView(d, e) /\ Known(e) = Known(d) /\ FailingNew(e) = {s}
    BY <1>1, <1>2, <1>3, <2>1, SuspectIs, SameFailing
  <2>3. e.since[s.uid] = "young" /\ s.failure = "quota"
    BY <1>1, <1>6, <2>1, SuspectIs DEF Undecided
  <2>4. QED
    BY <1>1, <2>1, <2>2, <2>3, SuspectIs DEF Attributable, Settled
<1>7. CASE ~ d.lastObject.ready /\ s.uid \notin d.reported /\ ~ Undecided(d, s, canRelease)
  <2>1. e = ReportNewFailure(d, s, canRelease)
    BY <1>7, <1>1 DEF JudgeNewFailure
  <2> HIDE DEF e
  <2>2. /\ SameView(d, e)
        /\ e.reported = d.reported \cup {s.uid}
        /\ e.failedFrom = s.uid
    BY <1>1, <2>1, ReportIs
  <2>3. Known(e) = Known(d) /\ FailingNew(e) = {s}
    BY <1>2, <1>3, <2>2, SameFailing
  <2>4. Attributable(e)
    BY <1>1, <2>2, <2>3 DEF Attributable
  <2>5. Settled(e, token)
    BY <2>2, <2>3 DEF Settled
  <2>6. QED
    BY <2>2, <2>4, <2>5 DEF e
<1>8. QED
  BY <1>1, <1>4, <1>5, <1>6, <1>7

LEMMA HandleNewIs ==
  ASSUME NEW d \in Tracker, Filed(d), NEW canRelease \in BOOLEAN, NEW token
  PROVE  LET e == HandleNewReplicaSetFailure(d, canRelease)
         IN /\ SameView(d, e)
            /\ Attributable(d) => Attributable(e)
            /\ Settled(e, token)
<1>1. CASE FailingNew(d) = {}
  BY <1>1 DEF HandleNewReplicaSetFailure, SameView, Settled
<1>2. CASE FailingNew(d) # {}
  <2>1. PICK s \in FailingNew(d) :
          HandleNewReplicaSetFailure(d, canRelease) = JudgeNewFailure(d, s, canRelease)
    BY <1>2 DEF HandleNewReplicaSetFailure
  <2>2. QED
    BY <2>1, JudgeIs
<1>3. QED
  BY <1>1, <1>2

\* A ReplicaSet enters the map under its name, and the failure it may have had
\* is still accounted for.
LEMMA AddKnownIs ==
  ASSUME NEW d \in Tracker, NEW s \in Snapshot
  PROVE  LET e == AddKnown(d, s)
         IN /\ e.known = [d.known EXCEPT ![NameOf[s.uid]] = s]
            /\ e.deleted = d.deleted
            /\ e.lastObject = d.lastObject /\ e.synced = d.synced
            /\ e.State = "Initial" => d.State = "Initial"
            /\ Filed(d) => Filed(e)
            /\ MayUpdate(d, s) /\ Filed(d) /\ Attributable(d) => Attributable(e)
<1> DEFINE n == NameOf[s.uid]
           f == [d EXCEPT !.known[n] = s]
           e == AddKnown(d, s)
<1>1. s.uid \in UID /\ n \in Name /\ s # None /\ s.failure \in Failure
  BY ConstantsAssumption, NoneAssumption DEF Snapshot
<1>2. /\ f \in Tracker
      /\ f.known = [d.known EXCEPT ![n] = s]
      /\ f.deleted = d.deleted /\ f.lastObject = d.lastObject /\ f.synced = d.synced
      /\ f.State = d.State /\ f.reported = d.reported /\ f.failedFrom = d.failedFrom
  BY <1>1 DEF Tracker
<1>3. Filed(d) => Filed(f)
  BY <1>1, <1>2 DEF Filed, Tracker
<1>4. ASSUME MayUpdate(d, s), Filed(d)
      PROVE  s \in Known(f) /\ \A r \in Known(d) : r.uid = s.uid \/ r \in Known(f)
  BY <1>1, <1>2, <1>4 DEF Known, MayUpdate, Filed, Tracker
<1> HIDE DEF f
<1>5. CASE s.failure # "none"
  <2>1. e = f
    BY <1>5 DEF AddKnown, RearmReplicaSetFailure, f
  <2>2. MayUpdate(d, s) /\ Filed(d) /\ Attributable(d) => Attributable(f)
    BY <1>2, <1>4, <1>5 DEF Attributable
  <2>3. QED
    BY <1>2, <1>3, <2>1, <2>2
<1>6. CASE s.failure = "none"
  <2>1. e = Absolve(f, s.uid)
    BY <1>6 DEF AddKnown, RearmReplicaSetFailure, f
  <2> HIDE DEF e
  <2>2. /\ SameView(f, e)
        /\ e.reported = f.reported \ {s.uid}
        /\ e.failedFrom = IF f.failedFrom = s.uid THEN None ELSE f.failedFrom
    BY <1>1, <1>2, <2>1, AbsolveIs
  <2>3. Known(e) = Known(f) /\ (Filed(f) => Filed(e))
    BY <2>2 DEF SameView, Known, Filed
  <2>4. MayUpdate(d, s) /\ Filed(d) /\ Attributable(d) => Attributable(e)
    BY <1>2, <1>4, <2>2, <2>3 DEF Attributable
  <2>5. QED
    BY <1>2, <1>3, <2>2, <2>3, <2>4 DEF SameView, e
<1>7. QED
  BY <1>5, <1>6

\* A ReplicaSet leaves the map, and its failure leaves with it.
LEMMA DropKnownIs ==
  ASSUME NEW d \in Tracker, NEW s \in Snapshot, Filed(d)
  PROVE  LET e == Absolve(DropKnown(d, s), s.uid)
         IN /\ e \in Tracker
            /\ Known(e) = {r \in Known(d) : r.uid # s.uid}
            /\ e.deleted = d.deleted
            /\ e.lastObject = d.lastObject /\ e.synced = d.synced
            /\ e.State = "Initial" => d.State = "Initial"
            /\ Filed(e)
            /\ Attributable(d) => Attributable(e)
<1> DEFINE n == NameOf[s.uid]
           f == DropKnown(d, s)
           e == Absolve(f, s.uid)
<1>1. s.uid \in UID /\ n \in Name
  BY ConstantsAssumption DEF Snapshot
<1>2. /\ f \in Tracker
      /\ f.known = [d.known EXCEPT ![n] = IF d.known[n] # None /\ d.known[n].uid = s.uid
                                            THEN None ELSE d.known[n]]
      /\ f.deleted = d.deleted /\ f.lastObject = d.lastObject /\ f.synced = d.synced
      /\ f.State = d.State /\ f.reported = d.reported /\ f.failedFrom = d.failedFrom
  BY <1>1, DropKnownType DEF DropKnown, Tracker
<1>3. Filed(f)
  BY <1>1, <1>2 DEF Filed, Tracker
<1>4. Known(f) = {r \in Known(d) : r.uid # s.uid}
  BY <1>1, <1>2 DEF Known, Filed, Tracker
<1> HIDE DEF f
<1>5. /\ e \in Tracker /\ SameView(f, e)
      /\ e.reported = f.reported \ {s.uid}
      /\ e.failedFrom = IF f.failedFrom = s.uid THEN None ELSE f.failedFrom
  BY <1>1, <1>2, AbsolveIs, AbsolveType
<1> HIDE DEF e
<1>6. Known(e) = Known(f) /\ Filed(e)
  BY <1>3, <1>5 DEF SameView, Known, Filed
<1>7. Attributable(d) => Attributable(e)
  BY <1>2, <1>4, <1>5, <1>6 DEF Attributable
<1>8. QED
  BY <1>2, <1>4, <1>5, <1>6, <1>7 DEF SameView, e, f

-----------------------------------------------------------------------------
(***************************************************************************)
(* The steps of Track, by what they do to the tracker.                     *)
(***************************************************************************)

\* The step has ended with handleNewReplicaSetFailure on d.
Handled(d) ==
  /\ d \in Tracker
  /\ SameView(d, t')
  /\ Attributable(d) => Attributable(t')
  /\ \A token : Settled(t', token)

LEMMA BecomeHandled ==
  ASSUME NEW d \in Tracker, Filed(d),
         \E c \in BOOLEAN : Become(HandleNewReplicaSetFailure(d, c))
  PROVE  Handled(d)
<1>1. PICK c \in BOOLEAN : t' = HandleNewReplicaSetFailure(d, c)
  BY DEF Become
<1>2. QED
  BY <1>1, HandleNewIs DEF Handled

\* The parts of the tracker that the bookkeeping of failures reads.
SameFailures(d, e) ==
  /\ e.known = d.known /\ e.deleted = d.deleted
  /\ e.reported = d.reported /\ e.since = d.since /\ e.failedFrom = d.failedFrom

LEMMA ResourceSteps ==
  ASSUME TypeOK, Filed(t), NEW kind \in {"Added", "Modified"}, HandleResource(kind)
  PROVE  \E d \in Tracker : SameFailures(t, d) /\ d.State # "Initial" /\ Handled(d)
<1> DEFINE d == HandleDeploymentState(t, buf[kind])
<1>1. t \in Tracker /\ buf[kind] \in Object
  BY DEF HandleResource, TypeOK
<1>2. d \in Tracker /\ SameFailures(t, d) /\ d.State # "Initial"
  BY <1>1, HandleDeploymentStateIs DEF SameFailures
<1>3. Filed(d)
  BY <1>2 DEF SameFailures, Filed
<1>4. \E c \in BOOLEAN : Become(HandleNewReplicaSetFailure(d, c))
  BY DEF HandleResource
<1> HIDE DEF d
<1>5. QED
  BY <1>2, <1>3, <1>4, BecomeHandled

LEMMA AddedSteps ==
  ASSUME TypeOK, Filed(t), HandleReplicaSetAdded, Head(rsOffer).rs.uid \notin t.deleted
  PROVE  LET s == Head(rsOffer).rs
         IN \E d \in Tracker :
              /\ d.known = [t.known EXCEPT ![NameOf[s.uid]] = s]
              /\ d.deleted = t.deleted
              /\ d.State = "Initial" => t.State = "Initial"
              /\ Filed(d)
              /\ MayUpdate(t, s) /\ Attributable(t) => Attributable(d)
              /\ Handled(d)
<1> DEFINE s == Head(rsOffer).rs
           a == AddKnown(t, s)
           m == Msg("AddedReplicaSet")
           d == IF a.lastObject = None THEN a ELSE Send(a, m)
<1>1. t \in Tracker /\ s \in Snapshot /\ m \in Message
  BY OfferType, MsgType DEF HandleReplicaSetAdded, Receive, TypeOK, Channel
<1>2. /\ a \in Tracker
      /\ a.known = [t.known EXCEPT ![NameOf[s.uid]] = s]
      /\ a.deleted = t.deleted
      /\ a.State = "Initial" => t.State = "Initial"
      /\ Filed(a)
      /\ MayUpdate(t, s) /\ Attributable(t) => Attributable(a)
  BY <1>1, AddKnownIs, AddKnownType
<1>3. \E c \in BOOLEAN : Become(HandleNewReplicaSetFailure(d, c))
  BY DEF HandleReplicaSetAdded
<1> HIDE DEF a, m
<1>4. /\ d \in Tracker
      /\ d.known = a.known /\ d.deleted = a.deleted /\ d.State = a.State
      /\ d.reported = a.reported /\ d.failedFrom = a.failedFrom
  BY <1>1, <1>2, SendType, SendIs DEF SameView
<1> HIDE DEF d
<1>5. Filed(d) /\ (Attributable(a) => Attributable(d))
  BY <1>2, <1>4 DEF Filed, Attributable, Known
<1>6. Handled(d)
  BY <1>3, <1>4, <1>5, BecomeHandled
<1>7. QED
  BY <1>2, <1>4, <1>5, <1>6

LEMMA ModifiedSteps ==
  ASSUME TypeOK, Filed(t), HandleReplicaSetModified,
         Head(rsOffer).rs.uid \notin t.deleted, MayUpdate(t, Head(rsOffer).rs)
  PROVE  LET s == Head(rsOffer).rs
         IN \E d \in Tracker :
              /\ d.known = [t.known EXCEPT ![NameOf[s.uid]] = s]
              /\ d.deleted = t.deleted
              /\ d.State = "Initial" => t.State = "Initial"
              /\ Filed(d)
              /\ Attributable(t) => Attributable(d)
              /\ Handled(d)
<1> DEFINE s == Head(rsOffer).rs
           d == AddKnown(t, s)
<1>1. t \in Tracker /\ s \in Snapshot
  BY OfferType DEF HandleReplicaSetModified, Receive, TypeOK
<1>2. /\ d \in Tracker
      /\ d.known = [t.known EXCEPT ![NameOf[s.uid]] = s]
      /\ d.deleted = t.deleted
      /\ d.State = "Initial" => t.State = "Initial"
      /\ Filed(d)
      /\ Attributable(t) => Attributable(d)
  BY <1>1, AddKnownIs, AddKnownType
<1>3. \E c \in BOOLEAN : Become(HandleNewReplicaSetFailure(d, c))
  BY DEF HandleReplicaSetModified
<1> HIDE DEF d
<1>4. Handled(d)
  BY <1>2, <1>3, BecomeHandled
<1>5. QED
  BY <1>2, <1>4

LEMMA DroppedSteps ==
  ASSUME TypeOK, Filed(t), HandleReplicaSetDeleted \/ HandleReplicaSetUnselected
  PROVE  LET s == Head(rsOffer).rs
         IN \E d \in Tracker :
              /\ Known(d) = {r \in Known(t) : r.uid # s.uid}
              /\ d.deleted \in {t.deleted, t.deleted \cup {s.uid}}
              /\ d.State = "Initial" => t.State = "Initial"
              /\ Filed(d)
              /\ Attributable(t) => Attributable(d)
              /\ Handled(d)
<1> DEFINE s == Head(rsOffer).rs
           e == [t EXCEPT !.deleted = @ \cup {s.uid}]
<1>1. t \in Tracker /\ s \in Snapshot /\ s.uid \in UID
  BY OfferType DEF HandleReplicaSetDeleted, HandleReplicaSetUnselected, Receive, TypeOK
<1>2. /\ e \in Tracker /\ e.known = t.known /\ e.deleted = t.deleted \cup {s.uid}
      /\ e.State = t.State /\ e.reported = t.reported /\ e.failedFrom = t.failedFrom
  BY <1>1 DEF Tracker
<1>3. Filed(e) /\ Known(e) = Known(t) /\ (Attributable(t) => Attributable(e))
  BY <1>2 DEF Filed, Known, Attributable
<1>4. \/ \E c \in BOOLEAN : Become(HandleNewReplicaSetFailure(Absolve(DropKnown(e, s), s.uid), c))
      \/ \E c \in BOOLEAN : Become(HandleNewReplicaSetFailure(Absolve(DropKnown(t, s), s.uid), c))
  BY DEF HandleReplicaSetDeleted, HandleReplicaSetUnselected
<1> HIDE DEF e, s
<1>5. ASSUME NEW f \in {e, t},
             \E c \in BOOLEAN : Become(HandleNewReplicaSetFailure(Absolve(DropKnown(f, s), s.uid), c))
      PROVE  \E d \in Tracker :
              /\ Known(d) = {r \in Known(t) : r.uid # s.uid}
              /\ d.deleted \in {t.deleted, t.deleted \cup {s.uid}}
              /\ d.State = "Initial" => t.State = "Initial"
              /\ Filed(d)
              /\ Attributable(t) => Attributable(d)
              /\ Handled(d)
  <2> DEFINE d == Absolve(DropKnown(f, s), s.uid)
  <2>1. f \in Tracker /\ Filed(f)
    BY <1>1, <1>2, <1>3
  <2>2. /\ d \in Tracker
        /\ Known(d) = {r \in Known(f) : r.uid # s.uid}
        /\ d.deleted = f.deleted
        /\ d.State = "Initial" => f.State = "Initial"
        /\ Filed(d)
        /\ Attributable(f) => Attributable(d)
    BY <1>1, <2>1, DropKnownIs
  <2>3. \E c \in BOOLEAN : Become(HandleNewReplicaSetFailure(d, c))
    BY <1>5
  <2> HIDE DEF d
  <2>4. Handled(d)
    BY <2>2, <2>3, BecomeHandled
  <2>5. QED
    BY <1>2, <1>3, <2>2, <2>4
<1>6. QED
  BY <1>4, <1>5 DEF s

-----------------------------------------------------------------------------
(***************************************************************************)
(* What the informer of the ReplicaSets may say.                           *)
(***************************************************************************)

\* The API server admits one live object of a name.
OneLivePerName ==
  \A u, v \in UID : NameOf[u] = NameOf[v] /\ Live(u) /\ Live(v) => u = v

\* Before the informer of the ReplicaSets is started, nothing is known of them.
NothingBeforeWatch ==
  /\ t.State = "Initial" => watch = "off"
  /\ watch = "off" => rsOffer = <<>> /\ seen = {} /\ listing = {} /\ Known(t) = {}

\* What is still to be listed has not changed since the list was made.
ListedIsLive ==
  \A u \in listing : \/ Live(u) /\ u \notin seen
                     \/ rsOffer # <<>> /\ u = Head(rsOffer).rs.uid

CurrentOffer(ev) ==
  \/ ev.kind \in {"Deleted", "Unselected"}
  \/ /\ Live(ev.rs.uid)
     /\ rsets[ev.rs.uid].selected
     /\ ev.rs = SnapshotOf(ev.rs.uid, rsets[ev.rs.uid])

\* What the handler sends is what the store holds, and only a replacement makes
\* it send twice: the end of the old incarnation, then the new one.
OfferIsCurrent ==
  \/ rsOffer = <<>>
  \/ \E e \in Event : rsOffer = <<e>> /\ CurrentOffer(e)
  \/ \E e, f \in Event : /\ rsOffer = <<e, f>>
                         /\ e.kind = "Deleted"
                         /\ f.kind = "Added" /\ CurrentOffer(f)

\* The part of the invariant that is not about the tracker's own bookkeeping.
Surroundings ==
  OneLivePerName /\ NothingBeforeWatch /\ ListedIsLive /\ OfferIsCurrent

\* The steps that neither receive an event of a ReplicaSet nor make one.
CalmStep ==
  \/ HandleResourceAdded \/ HandleResourceModified \/ HandleResourceFailed
  \/ HandleReplicaSetSynced \/ HandleQuotaDeadlockRecheck \/ HandlePodUpdate
  \/ HandleCtxDone \/ HandleError \/ AbortFailedSend
  \/ DeploymentAdded \/ DeploymentModified \/ DeploymentDeleted
  \/ \E u \in UID : Elapse(u) \/ TimerFires(u)
  \/ EventFailure \/ StaleTimerFires \/ Sent \/ Cancel \/ UNCHANGED vars

ReceiveStep ==
  \/ HandleReplicaSetAdded \/ HandleReplicaSetModified
  \/ HandleReplicaSetDeleted \/ HandleReplicaSetUnselected

OfferStep ==
  \/ \E u \in UID : ReplicaSetCreated(u) \/ ReplicaSetUpdated(u) \/ ReplicaSetDeleted(u)
  \/ \E u, v \in UID : ReplicaSetReplaced(u, v)

LEMMA Steps ==
  [Next]_vars => \/ CalmStep \/ ReceiveStep \/ OfferStep
                 \/ HandleResourceDeleted \/ DropOffer
                 \/ \E u \in UID : ReplicaSetListed(u)
BY DEF Next, Track, Environment, CalmStep, ReceiveStep, OfferStep, Returned, Quiet

\* A calm step leaves the informer of the ReplicaSets and what it has said alone,
\* except that the first Deployment starts it and that its list comes to an end.
LEMMA CalmIs ==
  ASSUME TypeOK, Filed(t), NothingBeforeWatch, CalmStep
  PROVE  /\ rsets' = rsets /\ rsOffer' = rsOffer /\ seen' = seen
         /\ t'.known = t.known /\ t'.deleted = t.deleted
         /\ ctxDone => ctxDone'
         /\ \/ watch' = watch /\ listing' = listing /\ (t'.State = "Initial" => t.State = "Initial")
            \/ /\ watch' = "listing" /\ t'.State # "Initial" /\ watch = "off"
               /\ \A u \in listing' : u \in UID /\ Live(u)
            \/ watch' = "synced" /\ t'.State # "Initial" /\ watch # "off" /\ listing' = listing
<1>0. t \in Tracker
  BY DEF TypeOK
<1>1. ASSUME NEW kind \in {"Added", "Modified"}, HandleResource(kind)
      PROVE  /\ t'.known = t.known /\ t'.deleted = t.deleted /\ t'.State # "Initial"
             /\ rsets' = rsets /\ rsOffer' = rsOffer /\ seen' = seen /\ ctxDone' = ctxDone
             /\ \/ watch' = watch /\ listing' = listing
                \/ /\ watch' = "listing" /\ watch = "off"
                   /\ \A u \in listing' : u \in UID /\ Live(u)
  <2>1. PICK d \in Tracker : SameFailures(t, d) /\ d.State # "Initial" /\ Handled(d)
    BY <1>1, ResourceSteps
  <2>2. t'.known = t.known /\ t'.deleted = t.deleted /\ t'.State # "Initial"
    BY <2>1 DEF SameFailures, Handled, SameView
  <2>3. QED
    BY <1>1, <2>2 DEF HandleResource, StartInformers, NothingBeforeWatch, Live
<1>2. CASE HandleResourceFailed
  <2>1. SameView(t, t')
    <3>1. CASE t.lastObject = None
      BY <1>2, <3>1 DEF HandleResourceFailed, SameView
    <3>2. CASE t.lastObject # None
      <4> DEFINE e == [t EXCEPT !.State = "Failed", !.failedFrom = None]
                 m == [ch |-> "Failed", from |-> None, mode |-> "counted"]
      <4>1. e \in Tracker /\ SameView(t, e)
        BY <1>0 DEF Tracker, TrackerState, SameView
      <4>2. m \in Message
        BY DEF Message, Channel, Mode
      <4>3. t' = Send(e, m)
        BY <1>2, <3>2 DEF HandleResourceFailed, HandleResourceFailure
      <4> HIDE DEF e, m
      <4>4. QED
        BY <4>1, <4>2, <4>3, SendIs DEF SameView
    <3>3. QED
      BY <3>1, <3>2
  <2>2. QED
    BY <1>2, <2>1 DEF HandleResourceFailed, SameView, env
<1>3. CASE HandleReplicaSetSynced
  <2> DEFINE d == [t EXCEPT !.synced = TRUE]
  <2>1. /\ d \in Tracker /\ d.known = t.known /\ d.deleted = t.deleted /\ d.State = t.State
    BY <1>0 DEF Tracker
  <2>2. \E c \in BOOLEAN : Become(HandleNewReplicaSetFailure(d, c))
    BY <1>3 DEF HandleReplicaSetSynced
  <2> HIDE DEF d
  <2>3. Handled(d)
    BY <2>1, <2>2, BecomeHandled DEF Filed
  <2>4. t'.known = t.known /\ t'.deleted = t.deleted /\ (t'.State = "Initial" => t.State = "Initial")
    BY <2>1, <2>3 DEF Handled, SameView
  <2>5. QED
    BY <1>3, <2>4 DEF HandleReplicaSetSynced, NothingBeforeWatch
<1>4. CASE HandleQuotaDeadlockRecheck
  <2>1. Handled(t)
    BY <1>0, <1>4, BecomeHandled DEF HandleQuotaDeadlockRecheck
  <2>2. QED
    BY <1>4, <2>1 DEF HandleQuotaDeadlockRecheck, env, Handled, SameView
<1>5. CASE HandlePodUpdate
  <2>1. t.lastObject \in Object
    BY <1>0, <1>5 DEF HandlePodUpdate, Tracker
  <2>2. t'.known = t.known /\ t'.deleted = t.deleted /\ t'.State # "Initial"
    BY <1>0, <1>5, <2>1, HandleDeploymentStateIs DEF HandlePodUpdate
  <2>3. QED
    BY <1>5, <2>2 DEF HandlePodUpdate, env
<1>6. CASE HandleCtxDone \/ HandleError \/ AbortFailedSend
  BY <1>6 DEF HandleCtxDone, HandleError, AbortFailedSend, env
<1>7. CASE DeploymentAdded \/ DeploymentModified \/ DeploymentDeleted
  BY <1>7 DEF DeploymentAdded, DeploymentModified, DeploymentDeleted, DeploymentEvent
<1>8. ASSUME NEW u \in UID, Elapse(u) \/ TimerFires(u)
      PROVE  /\ t'.known = t.known /\ t'.deleted = t.deleted /\ t'.State = t.State
             /\ UNCHANGED <<rsets, rsOffer, seen, watch, listing, ctxDone>>
  BY <1>0, <1>8 DEF Elapse, TimerFires, env, Tracker
<1>9. CASE EventFailure \/ StaleTimerFires \/ Cancel \/ UNCHANGED vars
  BY <1>9 DEF EventFailure, StaleTimerFires, Cancel, env, vars
<1>10. CASE Sent
  BY <1>0, <1>10 DEF Sent, env, Tracker
<1>11. QED
  BY <1>1, <1>2, <1>3, <1>4, <1>5, <1>6, <1>7, <1>8, <1>9, <1>10
  DEF CalmStep, HandleResourceAdded, HandleResourceModified

\* The events an event handler still has to send are true when Track gets them.
LEMMA HeadOffer ==
  ASSUME TypeOK, OfferIsCurrent, rsOffer # <<>>
  PROVE  /\ CurrentOffer(Head(rsOffer))
         /\ \/ Tail(rsOffer) = <<>>
            \/ \E f \in Event : Tail(rsOffer) = <<f>> /\ f.kind = "Added" /\ CurrentOffer(f)
         /\ Tail(rsOffer) # <<>> => Head(rsOffer).kind = "Deleted"
         /\ Len(Tail(rsOffer)) < Len(rsOffer)
<1>1. CASE \E e \in Event : rsOffer = <<e>> /\ CurrentOffer(e)
  <2>1. PICK e \in Event : rsOffer = <<e>> /\ CurrentOffer(e)
    BY <1>1
  <2>2. Head(rsOffer) = e /\ Tail(rsOffer) = <<>>
    BY <2>1
  <2>3. QED
    BY <2>1, <2>2
<1>2. CASE \E e, f \in Event : /\ rsOffer = <<e, f>> /\ e.kind = "Deleted"
                               /\ f.kind = "Added" /\ CurrentOffer(f)
  <2>1. PICK e \in Event, f \in Event : /\ rsOffer = <<e, f>> /\ e.kind = "Deleted"
                                        /\ f.kind = "Added" /\ CurrentOffer(f)
    BY <1>2
  <2>2. Head(rsOffer) = e /\ Tail(rsOffer) = <<f>>
    BY <2>1
  <2>3. CurrentOffer(e)
    BY <2>1 DEF CurrentOffer
  <2>4. QED
    BY <2>1, <2>2, <2>3
<1>3. QED
  BY <1>1, <1>2 DEF OfferIsCurrent

LEMMA ReceiveIs ==
  ASSUME TypeOK, ReceiveStep
  PROVE  /\ rsOffer # <<>>
         /\ rsOffer' = Tail(rsOffer)
         /\ listing' = listing \ {Head(rsOffer).rs.uid}
         /\ UNCHANGED <<rsets, seen, watch, ctxDone>>
BY DEF ReceiveStep, HandleReplicaSetAdded, HandleReplicaSetModified, HandleReplicaSetDeleted,
       HandleReplicaSetUnselected, Receive

\* No event of a ReplicaSet takes the tracker back to its first state.
LEMMA ReceiveState ==
  ASSUME TypeOK, Filed(t), ReceiveStep
  PROVE  t'.State = "Initial" => t.State = "Initial"
<1>1. CASE HandleReplicaSetAdded
  <2>1. CASE Head(rsOffer).rs.uid \in t.deleted
    BY <1>1, <2>1 DEF HandleReplicaSetAdded, Become
  <2>2. CASE Head(rsOffer).rs.uid \notin t.deleted
    BY <1>1, <2>2, AddedSteps DEF Handled, SameView
  <2>3. QED
    BY <2>1, <2>2
<1>2. CASE HandleReplicaSetModified
  <2> DEFINE s == Head(rsOffer).rs
  <2>1. CASE s.uid \in t.deleted \/ ~ MayUpdate(t, s)
    BY <1>2, <2>1 DEF HandleReplicaSetModified, Become
  <2>2. CASE s.uid \notin t.deleted /\ MayUpdate(t, s)
    BY <1>2, <2>2, ModifiedSteps DEF Handled, SameView
  <2>3. QED
    BY <2>1, <2>2
<1>3. CASE HandleReplicaSetDeleted \/ HandleReplicaSetUnselected
  BY <1>3, DroppedSteps DEF Handled, SameView
<1>4. QED
  BY <1>1, <1>2, <1>3 DEF ReceiveStep

LEMMA ConcatIs ==
  ASSUME NEW e \in Event, NEW f \in Event
  PROVE  /\ <<>> \o <<>> = <<>>
         /\ <<e>> \o <<>> = <<e>>
         /\ <<>> \o <<f>> = <<f>>
         /\ <<e>> \o <<f>> = <<e, f>>
<1>1. <<>> \in Seq(Event) /\ <<e>> \in Seq(Event) /\ <<f>> \in Seq(Event)
  OBVIOUS
<1>2. <<>> \o <<>> = <<>>
  OBVIOUS
<1>3. <<e>> \o <<>> = <<e>>
  BY <1>1
<1>4. <<>> \o <<f>> = <<f>>
  BY <1>1
<1>5. <<e>> \o <<f>> = <<e, f>>
  <2> DEFINE c == <<e>> \o <<f>>
  <2>1. c \in Seq(Event) /\ Len(c) = 2 /\ c[1] = e /\ c[2] = f
    BY <1>1, ConcatProperties
  <2> HIDE DEF c
  <2>2. <<e, f>> \in Seq(Event) /\ Len(<<e, f>>) = 2
        /\ <<e, f>>[1] = e /\ <<e, f>>[2] = f
    OBVIOUS
  <2>3. \A i \in 1 .. Len(c) : c[i] = <<e, f>>[i]
    BY <2>1, <2>2
  <2>4. c = <<e, f>>
    BY <2>1, <2>2, <2>3, SeqEqual
  <2>5. QED
    BY <2>4 DEF c
<1>6. QED
  BY <1>2, <1>3, <1>4, <1>5

\* What a change of a ReplicaSet does, seen from the invariant: the handler is
\* past the initial list, and it offers at most what the store now holds.
LEMMA OfferIs ==
  ASSUME TypeOK, Surroundings, OfferStep
  PROVE  /\ rsOffer = <<>> /\ listing = {} /\ ~ ctxDone
         /\ UNCHANGED <<t, watch, listing, ctxDone>>
         /\ watch = "off" => rsOffer' = <<>> /\ seen' = seen
         /\ OfferIsCurrent'
         /\ OneLivePerName'
         /\ \A u \in UID :
              Live(u) /\ rsets[u].selected /\ rsets'[u] # rsets[u] /\ watch # "off"
                => \E i \in DOMAIN rsOffer' : rsOffer'[i].rs.uid = u
<1>1. ASSUME NEW newSets, NEW newSeen, NEW events, ReplicaSetEvent(newSets, newSeen, events)
      PROVE  /\ rsOffer = <<>> /\ listing = {} /\ ~ ctxDone
             /\ UNCHANGED <<t, watch, listing, ctxDone>>
             /\ rsets' = newSets /\ seen' = newSeen
             /\ rsOffer' = IF watch = "off" THEN <<>> ELSE events
  BY <1>1 DEF ReplicaSetEvent, HandlerIdle, Change, Surroundings, ListedIsLive, NothingBeforeWatch
<1>2. \A kind \in Kind, u \in UID, r \in ReplicaSetState :
        EventOf(kind, u, r) \in Event /\ EventOf(kind, u, r).rs.uid = u
                                      /\ EventOf(kind, u, r).kind = kind
                                      /\ EventOf(kind, u, r).rs = SnapshotOf(u, r)
  BY EventType DEF EventOf, SnapshotOf
<1>3. ASSUME NEW u \in UID, ReplicaSetCreated(u)
      PROVE  /\ rsOffer = <<>> /\ listing = {} /\ ~ ctxDone
             /\ UNCHANGED <<t, watch, listing, ctxDone>>
             /\ watch = "off" => rsOffer' = <<>> /\ seen' = seen
             /\ OfferIsCurrent'
             /\ OneLivePerName'
             /\ \A v \in UID : Live(v) => rsets'[v] = rsets[v]
  <2>1. PICK r \in LiveStates :
          ReplicaSetEvent([rsets EXCEPT ![u] = r], seen \cup Watched({u}),
                          If(r.selected, EventOf("Added", u, r)))
    BY <1>3 DEF ReplicaSetCreated
  <2>2. r \in ReplicaSetState /\ r.phase = "live" /\ rsets \in [UID -> ReplicaSetState]
    BY LiveStateType DEF TypeOK
  <2>a. rsOffer' = IF watch = "off" THEN <<>> ELSE If(r.selected, EventOf("Added", u, r))
    BY <1>1, <2>1
  <2>b. r.selected \in BOOLEAN
    BY LiveStateType
  <2> DEFINE ev == EventOf("Added", u, r)
  <2>c. rsOffer' = IF watch = "off" THEN <<>> ELSE If(r.selected, ev)
    BY <2>a
  <2> HIDE DEF ev
  <2>d. rsOffer' = <<>> \/ (rsOffer' = <<ev>> /\ r.selected)
    BY <2>b, <2>c DEF If
  <2>3. rsOffer' = <<>> \/ (rsOffer' = <<EventOf("Added", u, r)>> /\ r.selected)
    BY <2>d DEF ev
  <2>4. rsets' = [rsets EXCEPT ![u] = r]
    BY <1>1, <2>1
  <2>5. OfferIsCurrent'
    BY <1>2, <2>2, <2>3, <2>4 DEF OfferIsCurrent, CurrentOffer, Live, Kind
  <2>6. OneLivePerName'
    BY <1>3, <2>2, <2>4 DEF ReplicaSetCreated, OneLivePerName, Surroundings, Live
  <2>7. \A v \in UID : Live(v) => rsets'[v] = rsets[v]
    BY <1>3, <2>2, <2>4 DEF ReplicaSetCreated, Live
  <2>8. QED
    BY <1>1, <2>1, <2>5, <2>6, <2>7 DEF Watched
<1>4. ASSUME NEW u \in UID, ReplicaSetUpdated(u)
      PROVE  /\ rsOffer = <<>> /\ listing = {} /\ ~ ctxDone
             /\ UNCHANGED <<t, watch, listing, ctxDone>>
             /\ watch = "off" => rsOffer' = <<>> /\ seen' = seen
             /\ OfferIsCurrent'
             /\ OneLivePerName'
             /\ \A v \in UID \ {u} : rsets'[v] = rsets[v]
             /\ rsets[u].selected /\ watch # "off" => \E i \in DOMAIN rsOffer' : rsOffer'[i].rs.uid = u
  <2> DEFINE events(r) ==
         CASE rsets[u].selected /\ r.selected     -> <<EventOf("Modified", u, r)>>
           [] rsets[u].selected /\ ~ r.selected   -> <<EventOf("Unselected", u, r)>>
           [] ~ rsets[u].selected /\ r.selected   -> <<EventOf("Added", u, r)>>
           [] ~ rsets[u].selected /\ ~ r.selected -> <<>>
  <2>1. PICK r \in LiveStates \ {rsets[u]} : ReplicaSetEvent([rsets EXCEPT ![u] = r], seen, events(r))
    BY <1>4 DEF ReplicaSetUpdated
  <2>2. /\ r \in ReplicaSetState /\ r.phase = "live" /\ rsets \in [UID -> ReplicaSetState]
        /\ r.selected \in BOOLEAN /\ rsets[u].selected \in BOOLEAN
    BY LiveStateType DEF TypeOK, ReplicaSetState
  <2>3. /\ \/ events(r) = <<>> /\ ~ rsets[u].selected
           \/ events(r) = <<EventOf("Unselected", u, r)>>
           \/ events(r) = <<EventOf("Modified", u, r)>> /\ r.selected
           \/ events(r) = <<EventOf("Added", u, r)>> /\ r.selected
    BY <2>2
  <2>4. rsets' = [rsets EXCEPT ![u] = r] /\ rsOffer' = IF watch = "off" THEN <<>> ELSE events(r)
    BY <1>1, <2>1
  <2> HIDE DEF events
  <2>5. OfferIsCurrent'
    BY <1>2, <2>2, <2>3, <2>4 DEF OfferIsCurrent, CurrentOffer, Live, Kind
  <2>6. OneLivePerName'
    BY <1>4, <2>2, <2>4 DEF ReplicaSetUpdated, OneLivePerName, Surroundings, Live
  <2>7. rsets[u].selected /\ watch # "off" => \E i \in DOMAIN rsOffer' : rsOffer'[i].rs.uid = u
    <3> SUFFICES ASSUME rsets[u].selected, watch # "off"
                 PROVE  \E i \in DOMAIN rsOffer' : rsOffer'[i].rs.uid = u
      OBVIOUS
    <3>1. PICK kind \in Kind : rsOffer' = <<EventOf(kind, u, r)>>
      BY <2>3, <2>4 DEF Kind
    <3>2. 1 \in DOMAIN rsOffer' /\ rsOffer'[1] = EventOf(kind, u, r)
      BY <3>1
    <3>3. rsOffer'[1].rs.uid = u
      BY <3>2, <1>2, <2>2
    <3>4. QED
      BY <3>2, <3>3
  <2>8. QED
    BY <1>1, <2>1, <2>2, <2>4, <2>5, <2>6, <2>7
<1>5. ASSUME NEW u \in UID, ReplicaSetDeleted(u)
      PROVE  /\ rsOffer = <<>> /\ listing = {} /\ ~ ctxDone
             /\ UNCHANGED <<t, watch, listing, ctxDone>>
             /\ watch = "off" => rsOffer' = <<>> /\ seen' = seen
             /\ OfferIsCurrent'
             /\ OneLivePerName'
             /\ \A v \in UID \ {u} : rsets'[v] = rsets[v]
             /\ rsets[u].selected /\ watch # "off" => \E i \in DOMAIN rsOffer' : rsOffer'[i].rs.uid = u
  <2> DEFINE ev == EventOf("Deleted", u, rsets[u])
  <2>1. ReplicaSetEvent([rsets EXCEPT ![u].phase = "gone"], seen \ {u}, If(rsets[u].selected, ev))
    BY <1>5 DEF ReplicaSetDeleted
  <2>2. rsets \in [UID -> ReplicaSetState] /\ ev \in Event /\ ev.rs.uid = u /\ ev.kind = "Deleted"
    BY <1>2 DEF TypeOK, Kind
  <2> HIDE DEF ev
  <2>3. /\ rsets' = [rsets EXCEPT ![u].phase = "gone"]
        /\ rsOffer' = IF watch = "off" THEN <<>> ELSE If(rsets[u].selected, ev)
        /\ seen' = seen \ {u}
    BY <1>1, <2>1
  <2>4. OfferIsCurrent'
    BY <2>2, <2>3 DEF OfferIsCurrent, CurrentOffer, If
  <2>5. OneLivePerName'
    BY <2>2, <2>3 DEF OneLivePerName, Surroundings, Live, ReplicaSetState
  <2>6. rsets[u].selected /\ watch # "off" => \E i \in DOMAIN rsOffer' : rsOffer'[i].rs.uid = u
    <3> SUFFICES ASSUME rsets[u].selected, watch # "off"
                 PROVE  \E i \in DOMAIN rsOffer' : rsOffer'[i].rs.uid = u
      OBVIOUS
    <3>1. rsOffer' = <<ev>>
      BY <2>3 DEF If
    <3>2. 1 \in DOMAIN rsOffer' /\ rsOffer'[1] = ev
      BY <3>1
    <3>3. QED
      BY <3>2, <2>2
  <2>7. watch = "off" => seen = {}
    BY DEF Surroundings, NothingBeforeWatch
  <2>8. QED
    BY <1>1, <2>1, <2>2, <2>3, <2>4, <2>5, <2>6, <2>7
<1>6. ASSUME NEW u \in UID, NEW v \in UID, ReplicaSetReplaced(u, v)
      PROVE  /\ rsOffer = <<>> /\ listing = {} /\ ~ ctxDone
             /\ UNCHANGED <<t, watch, listing, ctxDone>>
             /\ watch = "off" => rsOffer' = <<>> /\ seen' = seen
             /\ OfferIsCurrent'
             /\ OneLivePerName'
             /\ \A w \in UID \ {u} : Live(w) => rsets'[w] = rsets[w]
             /\ rsets[u].selected /\ watch # "off" => \E i \in DOMAIN rsOffer' : rsOffer'[i].rs.uid = u
  <2> DEFINE ev == EventOf("Deleted", u, rsets[u])
  <2>1. PICK r \in LiveStates :
          ReplicaSetEvent([rsets EXCEPT ![u].phase = "gone", ![v] = r],
                          (seen \ {u}) \cup Watched({v}),
                          If(rsets[u].selected, ev) \o If(r.selected, EventOf("Added", v, r)))
    BY <1>6 DEF ReplicaSetReplaced
  <2> DEFINE added == EventOf("Added", v, r)
  <2>2. /\ rsets \in [UID -> ReplicaSetState] /\ r \in ReplicaSetState /\ r.phase = "live"
        /\ ev \in Event /\ ev.rs.uid = u /\ ev.kind = "Deleted"
        /\ added \in Event /\ added.rs.uid = v /\ added.kind = "Added"
        /\ added.rs = SnapshotOf(v, r)
        /\ u # v
    <3>1. rsets \in [UID -> ReplicaSetState] /\ r \in ReplicaSetState /\ r.phase = "live"
      BY LiveStateType DEF TypeOK
    <3>2. u # v
      BY <1>6 DEF ReplicaSetReplaced, Live
    <3>3. QED
      BY <1>2, <3>1, <3>2 DEF Kind
  <2> HIDE DEF ev, added
  <2>3. /\ rsets' = [rsets EXCEPT ![u].phase = "gone", ![v] = r]
        /\ rsOffer' = IF watch = "off" THEN <<>> ELSE If(rsets[u].selected, ev) \o If(r.selected, added)
        /\ seen' = (seen \ {u}) \cup Watched({v})
    BY <1>1, <2>1 DEF added
  <2>4. PICK e \in Event, f \in Event : e = ev /\ f = added
    BY <2>2
  <2>a. /\ \/ rsOffer' = <<>> /\ (~ rsets[u].selected \/ watch = "off")
           \/ rsOffer' = <<e>>
           \/ rsOffer' = <<f>> /\ r.selected /\ ~ rsets[u].selected
           \/ rsOffer' = <<e, f>> /\ r.selected
    <3>1. /\ <<>> \o <<>> = <<>>
          /\ <<e>> \o <<>> = <<e>>
          /\ <<>> \o <<f>> = <<f>>
          /\ <<e>> \o <<f>> = <<e, f>>
      BY ConcatIs
    <3>2. rsOffer' = IF watch = "off" THEN <<>> ELSE If(rsets[u].selected, e) \o If(r.selected, f)
      BY <2>3, <2>4
    <3>3. QED
      BY <3>1, <3>2 DEF If
  <2>5. rsets'[v] = r
    BY <2>2, <2>3
  <2>6. CurrentOffer(e)' /\ (r.selected => CurrentOffer(f)')
    BY <2>2, <2>4, <2>5 DEF CurrentOffer, Live
  <2>7. OfferIsCurrent'
    BY <2>2, <2>4, <2>a, <2>6 DEF OfferIsCurrent
  <2>8. OneLivePerName'
    <3>1. \A w \in UID : Live(w)' => w = v \/ (w # u /\ Live(w))
      BY <2>2, <2>3 DEF Live, ReplicaSetState
    <3>2. NameOf[u] = NameOf[v] /\ Live(u)
      BY <1>6 DEF ReplicaSetReplaced
    <3>3. QED
      BY <3>1, <3>2 DEF OneLivePerName, Surroundings
  <2>9. rsets[u].selected /\ watch # "off" => \E i \in DOMAIN rsOffer' : rsOffer'[i].rs.uid = u
    <3> SUFFICES ASSUME rsets[u].selected, watch # "off"
                 PROVE  \E i \in DOMAIN rsOffer' : rsOffer'[i].rs.uid = u
      OBVIOUS
    <3>1. rsOffer' = <<e>> \/ rsOffer' = <<e, f>>
      BY <2>a
    <3>2. 1 \in DOMAIN rsOffer' /\ rsOffer'[1] = e
      BY <3>1
    <3>3. QED
      BY <3>2, <2>2, <2>4
  <2>10. \A w \in UID \ {u} : Live(w) => rsets'[w] = rsets[w]
    BY <1>6, <2>2, <2>3 DEF ReplicaSetReplaced, Live
  <2>11. watch = "off" => seen = {}
    BY DEF Surroundings, NothingBeforeWatch
  <2>12. QED
    BY <1>1, <2>1, <2>3, <2>7, <2>8, <2>9, <2>10, <2>11 DEF Watched
<1>7. QED
  BY <1>3, <1>4, <1>5, <1>6 DEF OfferStep

\* An event leaves the handler: Track takes it, or SendOrDone gives it up.
LEMMA OfferLeaves ==
  ASSUME TypeOK, Surroundings, rsOffer # <<>>, rsOffer' = Tail(rsOffer),
         listing' = listing \ {Head(rsOffer).rs.uid},
         UNCHANGED <<rsets, seen, watch>>,
         t'.State = "Initial" => t.State = "Initial"
  PROVE  Surroundings'
<1>1. OneLivePerName'
  BY DEF Surroundings, OneLivePerName, Live
<1>2. NothingBeforeWatch'
  BY DEF Surroundings, NothingBeforeWatch
<1>3. ListedIsLive'
  BY DEF Surroundings, ListedIsLive, Live
<1>4. OfferIsCurrent'
  <2>1. CASE Tail(rsOffer) = <<>>
    BY <2>1 DEF OfferIsCurrent
  <2>2. CASE Tail(rsOffer) # <<>>
    <3>1. PICK f \in Event : Tail(rsOffer) = <<f>> /\ f.kind = "Added" /\ CurrentOffer(f)
      BY <2>2, HeadOffer DEF Surroundings
    <3>2. CurrentOffer(f)'
      BY <3>1 DEF CurrentOffer, Live
    <3>3. QED
      BY <3>1, <3>2 DEF OfferIsCurrent
  <2>3. QED
    BY <2>1, <2>2
<1>5. QED
  BY <1>1, <1>2, <1>3, <1>4 DEF Surroundings

LEMMA SurroundingsStep ==
  ASSUME TypeOK, Filed(t), Surroundings, [Next]_vars
  PROVE  Surroundings'
<1>1. CASE CalmStep
  <2>1. /\ rsets' = rsets /\ rsOffer' = rsOffer /\ seen' = seen /\ t'.known = t.known
        /\ \/ watch' = watch /\ listing' = listing /\ (t'.State = "Initial" => t.State = "Initial")
           \/ /\ watch' = "listing" /\ t'.State # "Initial" /\ watch = "off"
              /\ \A u \in listing' : u \in UID /\ Live(u)
           \/ watch' = "synced" /\ t'.State # "Initial" /\ watch # "off" /\ listing' = listing
    BY <1>1, CalmIs DEF Surroundings
  <2>2. OneLivePerName' /\ OfferIsCurrent'
    BY <2>1 DEF Surroundings, OneLivePerName, OfferIsCurrent, CurrentOffer, Live
  <2>3. NothingBeforeWatch'
    BY <2>1 DEF Surroundings, NothingBeforeWatch, Known
  <2>4. ListedIsLive'
    BY <2>1 DEF Surroundings, ListedIsLive, NothingBeforeWatch, Live
  <2>5. QED
    BY <2>2, <2>3, <2>4 DEF Surroundings
<1>2. CASE ReceiveStep
  BY <1>2, ReceiveIs, ReceiveState, OfferLeaves
<1>3. CASE OfferStep
  <2>1. /\ rsOffer = <<>> /\ listing = {}
        /\ UNCHANGED <<t, watch, listing, ctxDone>>
        /\ watch = "off" => rsOffer' = <<>> /\ seen' = seen
        /\ OfferIsCurrent' /\ OneLivePerName'
    BY <1>3, OfferIs
  <2>2. NothingBeforeWatch' /\ ListedIsLive'
    BY <2>1 DEF Surroundings, NothingBeforeWatch, ListedIsLive, Known
  <2>3. QED
    BY <2>1, <2>2 DEF Surroundings
<1>4. CASE HandleResourceDeleted
  <2>1. t'.State # "Initial" /\ Known(t') = {}
    BY <1>4, ResetIs DEF HandleResourceDeleted, Become, TypeOK, Known
  <2>2. UNCHANGED <<rsets, rsOffer, seen, watch, listing>>
    BY <1>4 DEF HandleResourceDeleted, env
  <2>3. QED
    BY <2>1, <2>2 DEF Surroundings, OneLivePerName, NothingBeforeWatch, ListedIsLive,
                      OfferIsCurrent, CurrentOffer, Live, Known
<1>5. CASE DropOffer
  BY <1>5, OfferLeaves DEF DropOffer
<1>6. ASSUME NEW u \in UID, ReplicaSetListed(u)
      PROVE  Surroundings'
  <2> DEFINE ev == EventOf("Added", u, rsets[u])
  <2>1. /\ rsOffer = <<>> /\ watch = "listing" /\ u \in listing \ seen
        /\ seen' = seen \cup {u}
        /\ rsOffer' = If(rsets[u].selected, ev)
        /\ listing' = IF rsets[u].selected THEN listing ELSE listing \ {u}
        /\ UNCHANGED <<rsets, watch, t>>
    BY <1>6 DEF ReplicaSetListed
  <2>2. /\ ev \in Event /\ ev.rs.uid = u /\ ev.rs = SnapshotOf(u, rsets[u])
        /\ rsets[u].selected \in BOOLEAN
        /\ Live(u)
    <3>1. Live(u) /\ rsets[u] \in ReplicaSetState
      BY <2>1 DEF Surroundings, ListedIsLive, TypeOK
    <3>2. QED
      BY <3>1, EventType DEF Kind, EventOf, SnapshotOf, ReplicaSetState
  <2> HIDE DEF ev
  <2>3. PICK e \in Event : e = ev
    BY <2>2
  <2>4. \/ rsOffer' = <<>> /\ listing' = listing \ {u}
        \/ rsOffer' = <<e>> /\ listing' = listing /\ rsets[u].selected
    BY <2>1, <2>2, <2>3 DEF If
  <2>5. rsOffer' = <<e>> => rsOffer' # <<>> /\ Head(rsOffer') = e
    OBVIOUS
  <2>6. OneLivePerName' /\ NothingBeforeWatch'
    BY <2>1 DEF Surroundings, OneLivePerName, NothingBeforeWatch, Live, Known
  <2>7. ListedIsLive'
    BY <2>1, <2>2, <2>3, <2>4, <2>5 DEF Surroundings, ListedIsLive, Live
  <2>8. OfferIsCurrent'
    BY <2>1, <2>2, <2>3, <2>4 DEF OfferIsCurrent, CurrentOffer, Live
  <2>9. QED
    BY <2>6, <2>7, <2>8 DEF Surroundings
<1>7. QED
  BY <1>1, <1>2, <1>3, <1>4, <1>5, <1>6, Steps

LEMMA InitSurroundings == Init => Surroundings /\ Filed(t)
<1> SUFFICES ASSUME Init PROVE Surroundings /\ Filed(t)
  OBVIOUS
<1>1. t.State = "Initial" /\ t.known = [n \in Name |-> None]
  BY DEF Init
<1>2. OneLivePerName
  BY InitialAssumption DEF Init, OneLivePerName, Live
<1>3. QED
  BY <1>1, <1>2 DEF Init, Surroundings, NothingBeforeWatch, ListedIsLive, OfferIsCurrent,
                    Known, Filed

-----------------------------------------------------------------------------
(***************************************************************************)
(* What the tracker knows of the ReplicaSets.                              *)
(***************************************************************************)

\* The snapshot s is what the store has, or the handler has news of it to send.
Current(s) ==
  \/ \E i \in DOMAIN rsOffer : rsOffer[i].rs.uid = s.uid
  \/ /\ rsets[s.uid].phase = "live"
     /\ rsets[s.uid].selected
     /\ s = SnapshotOf(s.uid, rsets[s.uid])

Bookkeeping == Filed(t) /\ DeletedStayUnknown /\ KnownIsCurrent

\* After an event has been received, the rest of the map is as current as it was.
LEMMA StillCurrent ==
  ASSUME TypeOK, Surroundings, rsOffer # <<>>, rsOffer' = Tail(rsOffer), rsets' = rsets,
         NEW r \in Snapshot, Current(r), r.uid # Head(rsOffer).rs.uid
  PROVE  Current(r)'
<1>1. CASE \E i \in DOMAIN rsOffer : rsOffer[i].rs.uid = r.uid
  <2>1. CASE \E e \in Event : rsOffer = <<e>>
    BY <1>1, <2>1
  <2>2. CASE \E e, f \in Event : rsOffer = <<e, f>>
    <3>1. PICK e \in Event, f \in Event : rsOffer = <<e, f>>
      BY <2>2
    <3>2. Head(rsOffer) = e /\ Tail(rsOffer) = <<f>>
      BY <3>1
    <3>3. DOMAIN rsOffer = {1, 2} /\ rsOffer[1] = e /\ rsOffer[2] = f
      BY <3>1
    <3>4. f.rs.uid = r.uid
      BY <1>1, <3>2, <3>3
    <3>a. rsOffer' = <<f>>
      BY <3>2
    <3>b. 1 \in DOMAIN <<f>> /\ <<f>>[1] = f
      OBVIOUS
    <3>5. 1 \in DOMAIN rsOffer' /\ rsOffer'[1] = f
      BY ONLY <3>a, <3>b
    <3>6. QED
      BY <3>4, <3>5 DEF Current
  <2>3. QED
    BY <2>1, <2>2 DEF Surroundings, OfferIsCurrent
<1>2. CASE /\ rsets[r.uid].phase = "live" /\ rsets[r.uid].selected
           /\ r = SnapshotOf(r.uid, rsets[r.uid])
  BY <1>2 DEF Current
<1>3. QED
  BY <1>1, <1>2 DEF Current

LEMMA HeadIsCurrent ==
  ASSUME TypeOK, Surroundings, rsOffer # <<>>, rsOffer' = Tail(rsOffer), rsets' = rsets,
         Head(rsOffer).kind \in {"Added", "Modified"}, NEW s, s = Head(rsOffer).rs
  PROVE  Current(s)'
<1>1. CurrentOffer(Head(rsOffer))
  BY HeadOffer DEF Surroundings
<1>2. QED
  BY <1>1 DEF CurrentOffer, Current, Live

\* Two incarnations of a name never meet in the map: when the later one comes,
\* the end of the earlier one has been handled.
LEMMA NoRival ==
  ASSUME TypeOK, Surroundings, Bookkeeping, ~ ctxDone, rsOffer # <<>>,
         Head(rsOffer).kind \in {"Added", "Modified"}
  PROVE  MayUpdate(t, Head(rsOffer).rs)
<1> DEFINE s == Head(rsOffer).rs
           r == t.known[NameOf[s.uid]]
<1>0. s \in Snapshot /\ s.uid \in UID /\ NameOf[s.uid] \in Name
  BY OfferType, ConstantsAssumption
<1>1. SUFFICES ASSUME r # None, r.uid # s.uid PROVE FALSE
  BY DEF MayUpdate
<1>2. r \in Known(t) /\ r \in Snapshot /\ r.uid \in UID /\ NameOf[r.uid] = NameOf[s.uid]
  BY <1>0, <1>1 DEF Known, Bookkeeping, Filed, TypeOK, Tracker, Snapshot
<1>3. Current(r)
  BY <1>2 DEF Bookkeeping, KnownIsCurrent, Current
<1>4. Tail(rsOffer) = <<>> /\ CurrentOffer(Head(rsOffer))
  BY HeadOffer DEF Surroundings
<1>5. \A i \in DOMAIN rsOffer : rsOffer[i] = Head(rsOffer)
  <2>1. CASE \E e \in Event : rsOffer = <<e>>
    <3>1. PICK e \in Event : rsOffer = <<e>>
      BY <2>1
    <3>2. Head(rsOffer) = e /\ DOMAIN rsOffer = {1} /\ rsOffer[1] = e
      BY <3>1
    <3>3. QED
      BY <3>2
  <2>2. CASE \E e, f \in Event : rsOffer = <<e, f>> /\ e.kind = "Deleted"
    <3>1. PICK e \in Event, f \in Event : rsOffer = <<e, f>> /\ e.kind = "Deleted"
      BY <2>2
    <3>2. Head(rsOffer) = e
      BY <3>1
    <3>3. QED
      BY <3>1, <3>2
  <2>3. QED
    BY <2>1, <2>2 DEF Surroundings, OfferIsCurrent
<1>6. Live(r.uid) /\ Live(s.uid)
  BY <1>1, <1>3, <1>4, <1>5 DEF Current, CurrentOffer, Live
<1>7. QED
  BY <1>0, <1>1, <1>2, <1>6 DEF Surroundings, OneLivePerName

\* The map after s has been received and entered.
LEMMA EnteredIs ==
  ASSUME TypeOK, Surroundings, Bookkeeping, rsOffer # <<>>, rsOffer' = Tail(rsOffer),
         UNCHANGED <<rsets, ctxDone>>,
         Head(rsOffer).kind \in {"Added", "Modified"},
         Head(rsOffer).rs.uid \notin t.deleted,
         t'.known = [t.known EXCEPT ![NameOf[Head(rsOffer).rs.uid]] = Head(rsOffer).rs],
         t'.deleted = t.deleted
  PROVE  Bookkeeping'
<1> DEFINE s == Head(rsOffer).rs
           n == NameOf[s.uid]
<1>1. s \in Snapshot /\ s.uid \in UID /\ n \in Name /\ t \in Tracker /\ s # None
  BY OfferType, ConstantsAssumption, NoneAssumption DEF TypeOK
<1>2. \A m \in Name : t'.known[m] = IF m = n THEN s ELSE t.known[m]
  BY <1>1 DEF Tracker
<1>3. Filed(t)'
  BY <1>1, <1>2 DEF Filed, Bookkeeping
<1>4. \A r \in Known(t)' : r = s \/ (r \in Known(t) /\ r.uid # s.uid)
  BY <1>1, <1>2 DEF Known, Bookkeeping, Filed
<1>5. DeletedStayUnknown'
  BY <1>4 DEF DeletedStayUnknown, Bookkeeping
<1>6. KnownIsCurrent'
  <2>1. SUFFICES ASSUME ~ ctxDone, NEW r \in Known(t)' PROVE Current(r)'
    BY DEF KnownIsCurrent, Current
  <2>2. CASE r = s
    BY <2>2, HeadIsCurrent
  <2>3. CASE r \in Known(t) /\ r.uid # s.uid
    <3>1. Current(r) /\ r \in Snapshot
      BY <1>1, <2>1, <2>3, KnownType DEF Bookkeeping, KnownIsCurrent, Current
    <3>2. QED
      BY <2>3, <3>1, StillCurrent
  <2>4. QED
    BY <1>4, <2>2, <2>3
<1>7. QED
  BY <1>3, <1>5, <1>6 DEF Bookkeeping

\* The map after s has been received and nothing of it is left there.
LEMMA LeftIs ==
  ASSUME TypeOK, Surroundings, Bookkeeping, rsOffer # <<>>, rsOffer' = Tail(rsOffer),
         UNCHANGED <<rsets, ctxDone>>,
         Known(t') = {r \in Known(t) : r.uid # Head(rsOffer).rs.uid},
         t'.deleted \in {t.deleted, t.deleted \cup {Head(rsOffer).rs.uid}},
         Filed(t')
  PROVE  Bookkeeping'
<1>1. DeletedStayUnknown'
  BY DEF DeletedStayUnknown, Bookkeeping, Known
<1>2. KnownIsCurrent'
  <2>1. SUFFICES ASSUME ~ ctxDone, NEW r \in Known(t') PROVE Current(r)'
    BY DEF KnownIsCurrent, Current, Known
  <2>2. Current(r) /\ r \in Snapshot
    BY <2>1, KnownType DEF Bookkeeping, KnownIsCurrent, Current, TypeOK
  <2>3. QED
    BY <2>2, StillCurrent
<1>3. QED
  BY <1>1, <1>2 DEF Bookkeeping, Filed

LEMMA BookkeepingStep ==
  ASSUME TypeOK, Surroundings, Bookkeeping, [Next]_vars
  PROVE  Bookkeeping'
<1>0. t \in Tracker /\ Filed(t)
  BY DEF TypeOK, Bookkeeping
<1>1. CASE CalmStep
  BY <1>0, <1>1, CalmIs DEF Surroundings, Bookkeeping, Filed, DeletedStayUnknown, KnownIsCurrent, Known
<1>2. ASSUME ReceiveStep, t' = t, Head(rsOffer).rs.uid \notin {r.uid : r \in Known(t)}
      PROVE  Bookkeeping'
  BY <1>0, <1>2, ReceiveIs, LeftIs
<1>3. CASE HandleReplicaSetAdded
  <2> DEFINE s == Head(rsOffer).rs
  <2>1. ReceiveStep /\ Head(rsOffer).kind = "Added"
    BY <1>3 DEF ReceiveStep, HandleReplicaSetAdded, Receive
  <2>2. CASE s.uid \in t.deleted
    <3>1. t' = t
      BY <1>3, <2>2 DEF HandleReplicaSetAdded, Become
    <3>2. s.uid \notin {r.uid : r \in Known(t)}
      BY <2>2 DEF Bookkeeping, DeletedStayUnknown
    <3>3. QED
      BY <1>2, <2>1, <3>1, <3>2
  <2>3. CASE s.uid \notin t.deleted
    <3>1. t'.known = [t.known EXCEPT ![NameOf[s.uid]] = s] /\ t'.deleted = t.deleted
      BY <1>0, <1>3, <2>3, AddedSteps DEF Handled, SameView
    <3>2. QED
      BY <2>1, <2>3, <3>1, ReceiveIs, EnteredIs
  <2>4. QED
    BY <2>2, <2>3
<1>4. CASE HandleReplicaSetModified
  <2> DEFINE s == Head(rsOffer).rs
  <2>1. ReceiveStep /\ Head(rsOffer).kind = "Modified" /\ s.uid \in UID /\ NameOf[s.uid] \in Name
    BY <1>4, OfferType, ConstantsAssumption DEF ReceiveStep, HandleReplicaSetModified, Receive
  <2>2. CASE s.uid \in t.deleted \/ ~ MayUpdate(t, s)
    <3>1. t' = t
      BY <1>4, <2>2 DEF HandleReplicaSetModified, Become
    <3>2. s.uid \notin {r.uid : r \in Known(t)}
      BY <1>0, <2>1, <2>2 DEF Bookkeeping, DeletedStayUnknown, MayUpdate, Filed, Known
    <3>3. QED
      BY <1>2, <2>1, <3>1, <3>2
  <2>3. CASE s.uid \notin t.deleted /\ MayUpdate(t, s)
    <3>1. t'.known = [t.known EXCEPT ![NameOf[s.uid]] = s] /\ t'.deleted = t.deleted
      BY <1>0, <1>4, <2>3, ModifiedSteps DEF Handled, SameView
    <3>2. QED
      BY <2>1, <2>3, <3>1, ReceiveIs, EnteredIs
  <2>4. QED
    BY <2>2, <2>3
<1>5. CASE HandleReplicaSetDeleted \/ HandleReplicaSetUnselected
  <2>1. ReceiveStep
    BY <1>5 DEF ReceiveStep
  <2>2. /\ Known(t') = {r \in Known(t) : r.uid # Head(rsOffer).rs.uid}
        /\ t'.deleted \in {t.deleted, t.deleted \cup {Head(rsOffer).rs.uid}}
        /\ Filed(t')
    BY <1>0, <1>5, DroppedSteps DEF Handled, SameView, Known, Filed
  <2>3. QED
    BY <2>1, <2>2, ReceiveIs, LeftIs
<1>6. CASE OfferStep
  <2>1. /\ rsOffer = <<>> /\ UNCHANGED <<t, ctxDone>> /\ ~ ctxDone
        /\ \A u \in UID : Live(u) /\ rsets[u].selected /\ rsets'[u] # rsets[u] /\ watch # "off"
                => \E i \in DOMAIN rsOffer' : rsOffer'[i].rs.uid = u
    BY <1>6, OfferIs
  <2>2. KnownIsCurrent'
    <3>1. SUFFICES ASSUME NEW r \in Known(t) PROVE Current(r)'
      BY <2>1 DEF KnownIsCurrent, Current, Known
    <3>2. /\ r.uid \in UID /\ Live(r.uid) /\ rsets[r.uid].selected
          /\ r = SnapshotOf(r.uid, rsets[r.uid])
      BY <1>0, <2>1, KnownType DEF Bookkeeping, KnownIsCurrent, Live, Snapshot
    <3>3. watch # "off"
      BY DEF Surroundings, NothingBeforeWatch
    <3>4. QED
      BY <2>1, <3>2, <3>3 DEF Current, Live
  <2>3. QED
    BY <2>1, <2>2 DEF Bookkeeping, Filed, DeletedStayUnknown, Known
<1>7. CASE HandleResourceDeleted
  <2>1. \A n \in Name : t'.known[n] = None
    BY <1>0, <1>7, ResetIs DEF HandleResourceDeleted, Become
  <2>2. QED
    BY <2>1 DEF Bookkeeping, Filed, DeletedStayUnknown, KnownIsCurrent, Known
<1>8. CASE DropOffer
  BY <1>8 DEF DropOffer, Bookkeeping, Filed, DeletedStayUnknown, KnownIsCurrent, Known
<1>9. ASSUME NEW u \in UID, ReplicaSetListed(u)
      PROVE  Bookkeeping'
  BY <1>9 DEF ReplicaSetListed, Bookkeeping, Filed, DeletedStayUnknown, KnownIsCurrent, Known
<1>10. QED
  BY <1>1, <1>3, <1>4, <1>5, <1>6, <1>7, <1>8, <1>9, Steps DEF ReceiveStep

-----------------------------------------------------------------------------
(***************************************************************************)
(* What the tracker makes of the failures.                                 *)
(***************************************************************************)

LEMMA CalmFailures ==
  ASSUME TypeOK, Filed(t), CalmStep
  PROVE  /\ Attributable(t) => Attributable(t')
         /\ NothingSuppressed => NothingSuppressed'
<1>0. t \in Tracker
  BY DEF TypeOK
<1>1. ASSUME NEW d \in Tracker, SameFailures(t, d), Handled(d)
      PROVE  (Attributable(t) => Attributable(t')) /\ NothingSuppressed'
  <2>1. Attributable(t) => Attributable(d)
    BY <1>1 DEF SameFailures, Attributable, Known
  <2>2. Settled(t', recheck')
    BY <1>1 DEF Handled
  <2>3. QED
    BY <1>1, <2>1, <2>2 DEF Handled, NothingSuppressed, Settled, FailingNew, NewReplicaSet,
                            Candidates, Known
<1>2. ASSUME NEW kind \in {"Added", "Modified"}, HandleResource(kind)
      PROVE  (Attributable(t) => Attributable(t')) /\ NothingSuppressed'
  BY <1>1, <1>2, ResourceSteps
<1>3. CASE HandleReplicaSetSynced
  <2> DEFINE d == [t EXCEPT !.synced = TRUE]
  <2>1. d \in Tracker /\ SameFailures(t, d)
    BY <1>0 DEF Tracker, SameFailures
  <2>2. \E c \in BOOLEAN : Become(HandleNewReplicaSetFailure(d, c))
    BY <1>3 DEF HandleReplicaSetSynced
  <2> HIDE DEF d
  <2>3. Handled(d)
    BY <2>1, <2>2, BecomeHandled DEF Filed, SameFailures
  <2>4. QED
    BY <1>1, <2>1, <2>3
<1>4. CASE HandleQuotaDeadlockRecheck
  <2>1. Handled(t)
    BY <1>0, <1>4, BecomeHandled DEF HandleQuotaDeadlockRecheck
  <2>2. QED
    BY <1>0, <1>1, <2>1 DEF SameFailures
<1>5. ASSUME t' \in Tracker, t'.known = t.known, t'.lastObject = t.lastObject,
             t'.synced = t.synced, t'.reported = t.reported, t'.since = t.since,
             recheck => recheck'
      PROVE  NothingSuppressed => NothingSuppressed'
  <2>1. FailingNew(t') = FailingNew(t)
    BY <1>5 DEF FailingNew, NewReplicaSet, Candidates, Known
  <2>2. Settled(t, recheck) => Settled(t', recheck')
    BY <1>5, <2>1 DEF Settled
  <2>3. QED
    BY <2>2 DEF NothingSuppressed, Settled, FailingNew, NewReplicaSet, Candidates, Known
<1>6. ASSUME t'.known = t.known, t'.failedFrom = t.failedFrom, t'.reported = t.reported
      PROVE  Attributable(t) => Attributable(t')
  BY <1>6 DEF Attributable, Known
<1>7. CASE HandleResourceFailed
  <2>1. CASE t.lastObject = None
    BY <1>0, <1>5, <1>6, <1>7, <2>1 DEF HandleResourceFailed
  <2>2. CASE t.lastObject # None
    <3> DEFINE e == [t EXCEPT !.State = "Failed", !.failedFrom = None]
               m == [ch |-> "Failed", from |-> None, mode |-> "counted"]
    <3>1. /\ e \in Tracker /\ m \in Message /\ SameView(t, e)
          /\ e.failedFrom = None /\ e.reported = t.reported /\ e.since = t.since
      BY <1>0 DEF Tracker, TrackerState, Message, Channel, Mode, SameView
    <3>2. t' = Send(e, m) /\ recheck' = recheck
      BY <1>7, <2>2 DEF HandleResourceFailed, HandleResourceFailure
    <3> HIDE DEF e, m
    <3>3. /\ t' \in Tracker /\ t'.known = t.known /\ t'.lastObject = t.lastObject
          /\ t'.synced = t.synced /\ t'.reported = t.reported /\ t'.since = t.since
          /\ t'.failedFrom = None
      BY <3>1, <3>2, SendType, SendIs DEF SameView
    <3>4. QED
      BY <1>5, <3>2, <3>3 DEF Attributable
  <2>3. QED
    BY <2>1, <2>2
<1>8. CASE HandlePodUpdate
  <2>1. t.lastObject \in Object
    BY <1>0, <1>8 DEF HandlePodUpdate, Tracker
  <2>2. /\ t' \in Tracker /\ t'.known = t.known /\ t'.lastObject = t.lastObject
        /\ t'.synced = t.synced /\ t'.reported = t.reported /\ t'.since = t.since
        /\ t'.failedFrom = t.failedFrom
    BY <1>0, <1>8, <2>1, HandleDeploymentStateIs DEF HandlePodUpdate
  <2>3. QED
    BY <1>5, <1>6, <1>8, <2>2 DEF HandlePodUpdate
<1>9. CASE HandleCtxDone \/ HandleError \/ AbortFailedSend
  BY <1>0, <1>5, <1>6, <1>9 DEF HandleCtxDone, HandleError, AbortFailedSend
<1>10. CASE DeploymentAdded \/ DeploymentModified \/ DeploymentDeleted
  BY <1>0, <1>5, <1>6, <1>10 DEF DeploymentAdded, DeploymentModified, DeploymentDeleted, DeploymentEvent
<1>11. ASSUME NEW u \in UID, Elapse(u) \/ TimerFires(u)
       PROVE  /\ Attributable(t) => Attributable(t')
              /\ NothingSuppressed => NothingSuppressed'
  <2>1. /\ t'.known = t.known /\ t'.lastObject = t.lastObject /\ t'.synced = t.synced
        /\ t'.reported = t.reported /\ t'.failedFrom = t.failedFrom
        /\ t'.deleted = t.deleted
    BY <1>0, <1>11 DEF Elapse, TimerFires, Tracker
  <2>2. FailingNew(t') = FailingNew(t)
    BY <2>1 DEF FailingNew, NewReplicaSet, Candidates, Known
  <2>3. \A v \in UID : \/ t'.since[v] = t.since[v] /\ recheck' = recheck
                       \/ t'.since[v] = "due"
                       \/ recheck' /\ (t.since[v] = "due" => t'.since[v] \in {"due", "ripe"})
                                  /\ (t.since[v] # "due" => t'.since[v] = t.since[v])
    BY <1>0, <1>11 DEF Elapse, TimerFires, Tracker
  <2>4. \A s \in FailingNew(t) : s.uid \in UID
    BY <1>0, KnownType DEF Snapshot
  <2>5. Settled(t, recheck) => Settled(t', recheck')
    BY <2>1, <2>2, <2>3, <2>4 DEF Settled
  <2>6. QED
    BY <1>6, <2>1, <2>5 DEF NothingSuppressed, Settled, FailingNew, NewReplicaSet, Candidates, Known
<1>12. CASE EventFailure \/ StaleTimerFires \/ Cancel \/ UNCHANGED vars
  BY <1>0, <1>5, <1>6, <1>12 DEF EventFailure, StaleTimerFires, Cancel, vars
<1>13. CASE Sent
  <2>1. TypeOK'
    BY <1>13, TypeStep DEF Next, Environment
  <2>2. QED
    BY <1>0, <1>5, <1>6, <1>13, <2>1 DEF Sent, Tracker, TypeOK
<1>14. QED
  BY <1>2, <1>3, <1>4, <1>7, <1>8, <1>9, <1>10, <1>11, <1>12, <1>13
  DEF CalmStep, HandleResourceAdded, HandleResourceModified

LEMMA ReceiveFailures ==
  ASSUME TypeOK, Surroundings, Bookkeeping, ReceiveStep
  PROVE  /\ ~ ctxDone /\ Attributable(t) => Attributable(t')
         /\ NothingSuppressed => NothingSuppressed'
<1>0. t \in Tracker /\ Filed(t) /\ recheck' = recheck
  BY DEF TypeOK, Bookkeeping, ReceiveStep, HandleReplicaSetAdded, HandleReplicaSetModified,
         HandleReplicaSetDeleted, HandleReplicaSetUnselected, Receive
<1>1. ASSUME t' = t
      PROVE  (Attributable(t) => Attributable(t')) /\ (NothingSuppressed => NothingSuppressed')
  BY <1>0, <1>1 DEF NothingSuppressed, Settled, FailingNew, NewReplicaSet, Candidates, Known
<1>2. ASSUME NEW d, Handled(d)
      PROVE  NothingSuppressed'
  <2>1. Settled(t', recheck')
    BY <1>2 DEF Handled
  <2>2. QED
    BY <2>1 DEF NothingSuppressed, Settled, FailingNew, NewReplicaSet, Candidates, Known
<1>3. CASE HandleReplicaSetAdded
  <2> DEFINE s == Head(rsOffer).rs
  <2>1. CASE s.uid \in t.deleted
    BY <1>1, <1>3, <2>1 DEF HandleReplicaSetAdded, Become
  <2>2. CASE s.uid \notin t.deleted
    <3>1. PICK d \in Tracker : /\ MayUpdate(t, s) /\ Attributable(t) => Attributable(d)
                               /\ Handled(d)
      BY <1>0, <1>3, <2>2, AddedSteps
    <3>2. rsOffer # <<>> /\ Head(rsOffer).kind = "Added"
      BY <1>3 DEF HandleReplicaSetAdded, Receive
    <3>3. ~ ctxDone => MayUpdate(t, s)
      BY <3>2, NoRival
    <3>4. QED
      BY <1>2, <3>1, <3>3 DEF Handled
  <2>3. QED
    BY <2>1, <2>2
<1>4. CASE HandleReplicaSetModified
  <2> DEFINE s == Head(rsOffer).rs
  <2>1. CASE s.uid \in t.deleted \/ ~ MayUpdate(t, s)
    BY <1>1, <1>4, <2>1 DEF HandleReplicaSetModified, Become
  <2>2. CASE s.uid \notin t.deleted /\ MayUpdate(t, s)
    <3>1. PICK d \in Tracker : (Attributable(t) => Attributable(d)) /\ Handled(d)
      BY <1>0, <1>4, <2>2, ModifiedSteps
    <3>2. QED
      BY <1>2, <3>1 DEF Handled
  <2>3. QED
    BY <2>1, <2>2
<1>5. CASE HandleReplicaSetDeleted \/ HandleReplicaSetUnselected
  <2>1. PICK d \in Tracker : (Attributable(t) => Attributable(d)) /\ Handled(d)
    BY <1>0, <1>5, DroppedSteps
  <2>2. QED
    BY <1>2, <2>1 DEF Handled
<1>6. QED
  BY <1>3, <1>4, <1>5 DEF ReceiveStep

LEMMA FailuresStep ==
  ASSUME TypeOK, Surroundings, Bookkeeping, FailureIsAttributable, NothingSuppressed, [Next]_vars
  PROVE  FailureIsAttributable' /\ NothingSuppressed'
<1>0. t \in Tracker /\ Filed(t)
  BY DEF TypeOK, Bookkeeping
<1>1. CASE CalmStep
  <2>1. (Attributable(t) => Attributable(t')) /\ NothingSuppressed'
    BY <1>0, <1>1, CalmFailures
  <2>2. ctxDone => ctxDone'
    BY <1>0, <1>1, CalmIs DEF Surroundings
  <2>3. QED
    BY <2>1, <2>2 DEF FailureIsAttributable, Attributable, Known
<1>2. CASE ReceiveStep
  <2>1. (~ ctxDone /\ Attributable(t) => Attributable(t')) /\ NothingSuppressed'
    BY <1>2, ReceiveFailures
  <2>2. ctxDone' = ctxDone
    BY <1>2, ReceiveIs
  <2>3. QED
    BY <2>1, <2>2 DEF FailureIsAttributable, Attributable, Known
<1>3. ASSUME t' = t, recheck' = recheck, ctxDone' = ctxDone
      PROVE  FailureIsAttributable' /\ NothingSuppressed'
  BY <1>3 DEF FailureIsAttributable, Attributable, NothingSuppressed, Settled, FailingNew,
              NewReplicaSet, Candidates, Known
<1>4. CASE OfferStep
  <2>1. t' = t /\ ctxDone' = ctxDone
    BY <1>4, OfferIs
  <2>2. recheck' = recheck
    BY <1>4 DEF OfferStep, ReplicaSetCreated, ReplicaSetUpdated, ReplicaSetDeleted,
                ReplicaSetReplaced, ReplicaSetEvent
  <2>3. QED
    BY <1>3, <2>1, <2>2
<1>5. CASE HandleResourceDeleted
  <2>1. t'.failedFrom = None /\ t'.lastObject = None
    BY <1>0, <1>5, ResetIs DEF HandleResourceDeleted, Become
  <2>2. QED
    BY <2>1 DEF FailureIsAttributable, Attributable, NothingSuppressed, Settled, FailingNew
<1>6. CASE DropOffer
  BY <1>3, <1>6 DEF DropOffer
<1>7. ASSUME NEW u \in UID, ReplicaSetListed(u)
      PROVE  FailureIsAttributable' /\ NothingSuppressed'
  BY <1>3, <1>7 DEF ReplicaSetListed
<1>8. QED
  BY <1>1, <1>2, <1>4, <1>5, <1>6, <1>7, Steps

-----------------------------------------------------------------------------
(***************************************************************************)
(* The invariants.  FailureIsAttributable rests on KnownIsCurrent: were an *)
(* incarnation replaced in the map while the tracker is Failed because of  *)
(* it, nothing would ever clear that failure.                              *)
(***************************************************************************)
IInv ==
  /\ TypeOK
  /\ Surroundings
  /\ Bookkeeping
  /\ FailureIsAttributable
  /\ NothingSuppressed

LEMMA InitInductive == Init => IInv
<1> SUFFICES ASSUME Init PROVE IInv
  OBVIOUS
<1>1. TypeOK /\ Surroundings /\ Filed(t)
  BY TypeInit, InitSurroundings
<1>2. Known(t) = {} /\ t.lastObject = None /\ t.failedFrom = None
  BY DEF Init, Known
<1>3. QED
  BY <1>1, <1>2 DEF IInv, Bookkeeping, DeletedStayUnknown, KnownIsCurrent, FailureIsAttributable,
                    Attributable, NothingSuppressed, Settled, FailingNew

LEMMA StepInductive == IInv /\ [Next]_vars => IInv'
<1> SUFFICES ASSUME IInv, [Next]_vars PROVE IInv'
  OBVIOUS
<1>1. TypeOK'
  BY TypeStep DEF IInv
<1>2. Surroundings'
  BY SurroundingsStep DEF IInv, Bookkeeping
<1>3. Bookkeeping'
  BY BookkeepingStep DEF IInv
<1>4. FailureIsAttributable' /\ NothingSuppressed'
  BY FailuresStep DEF IInv
<1>5. QED
  BY <1>1, <1>2, <1>3, <1>4 DEF IInv

LEMMA Inductive == Spec => []IInv
BY InitInductive, StepInductive, PTL DEF Spec

\* However the events of incarnations interleave, none whose deletion has been
\* handled is known again.
THEOREM DeletedNeverReturn == Spec => []DeletedStayUnknown
<1>1. IInv => DeletedStayUnknown
  BY DEF IInv, Bookkeeping
<1>2. QED
  BY <1>1, Inductive, PTL

\* What the tracker knows of the ReplicaSets never lags behind their informer by
\* more than the event being sent.
THEOREM NoStaleSnapshot == Spec => []KnownIsCurrent
<1>1. IInv => KnownIsCurrent
  BY DEF IInv, Bookkeeping
<1>2. QED
  BY <1>1, Inductive, PTL

\* The tracker is never left Failed by a ReplicaSet that recovered or is gone.
THEOREM NoOrphanFailure == Spec => []FailureIsAttributable
<1>1. IInv => FailureIsAttributable
  BY DEF IInv
<1>2. QED
  BY <1>1, Inductive, PTL

\* No order of events lets a failing new ReplicaSet go unreported and unawaited.
THEOREM NoFailureIsLost == Spec => []NothingSuppressed
<1>1. IInv => NothingSuppressed
  BY DEF IInv
<1>2. QED
  BY <1>1, Inductive, PTL

-----------------------------------------------------------------------------
(***************************************************************************)
(* PART 2.  A failure is charged once, a quota deadlock is confirmed       *)
(* before it is fatal, and no ReplicaSet is lost (DeploymentHistory).      *)
(***************************************************************************)

-----------------------------------------------------------------------------
(***************************************************************************)
(* What handleNewReplicaSetFailure reports, suspects and absolves.         *)
(***************************************************************************)

Cleared(d, e, u) ==
  /\ e.reported = d.reported \ {u}
  /\ e.since = [d.since EXCEPT ![u] = "none"]

Suspected(d, e, u) ==
  /\ e.reported = d.reported
  /\ d.since[u] \in {"none", "young"}
  /\ e.since = [d.since EXCEPT ![u] = "young"]

\* A quota failure is fatal only when the suspicion was held.
Reported(d, e, s) ==
  /\ s.uid \notin d.reported
  /\ e.reported = d.reported \cup {s.uid}
  /\ e.since = d.since
  /\ \E mode \in Mode :
       /\ e.out = Append(d.out, [ch |-> "Failed", from |-> s.uid, mode |-> mode])
       /\ mode = "fatal" /\ s.failure = "quota" => d.since[s.uid] \in {"due", "ripe"}

Judged(d, e) ==
  \/ e = d /\ (d.lastObject = None \/ ~ d.lastObject.ready \/ FailingNew(d) = {})
  \/ \E s \in FailingNew(d) : d.lastObject.ready /\ Cleared(d, e, s.uid) /\ e.out = d.out
  \/ \E s \in FailingNew(d) : ~ d.lastObject.ready /\ Suspected(d, e, s.uid) /\ e.out = d.out
  \/ \E s \in FailingNew(d) : ~ d.lastObject.ready /\ Reported(d, e, s)

LEMMA SuspectDetail ==
  ASSUME NEW d \in Tracker, NEW u \in UID, d.since[u] \in {"none", "young"}
  PROVE  Suspected(d, Suspect(d, u), u) /\ Suspect(d, u).out = d.out
BY DEF Suspected, Suspect, Tracker

LEMMA ReportDetail ==
  ASSUME NEW d \in Tracker, NEW s \in Snapshot, NEW canRelease \in BOOLEAN,
         s.uid \notin d.reported, ~ Undecided(d, s, canRelease)
  PROVE  Reported(d, ReportNewFailure(d, s, canRelease), s)
<1> DEFINE u == s.uid
           mode == ReplicaSetFailureMode(s.failure, canRelease)
           m == [ch |-> "Failed", from |-> u, mode |-> mode]
           g == [[d EXCEPT !.reported = @ \cup {s.uid}] EXCEPT !.State = "Failed", !.failedFrom = u]
           e == ReportNewFailure(d, s, canRelease)
<1>1. u \in UID /\ d.since[u] \in Age
  BY DEF Snapshot, Tracker
<1>2. mode \in Mode /\ m \in Message
  BY <1>1 DEF Message, Channel, Mode, ReplicaSetFailureMode
<1>3. g \in Tracker /\ g.out = d.out
  BY <1>1 DEF Tracker, TrackerState
<1>4. e = Send(g, m)
  BY DEF ReportNewFailure, HandleResourceFailure
<1>5. mode = "fatal" /\ s.failure = "quota" => d.since[u] \in {"due", "ripe"}
  BY <1>1 DEF ReplicaSetFailureMode, Undecided, Age
<1>6. e.reported = d.reported \cup {u} /\ e.since = d.since
  BY ReportIs
<1> HIDE DEF g, m, e
<1>7. e.out = Append(d.out, m)
  BY <1>2, <1>3, <1>4, SendOut
<1>8. QED
  BY <1>2, <1>5, <1>6, <1>7 DEF Reported, m, e

LEMMA JudgedIs ==
  ASSUME NEW d \in Tracker, NEW canRelease \in BOOLEAN
  PROVE  Judged(d, HandleNewReplicaSetFailure(d, canRelease))
<1> DEFINE e == HandleNewReplicaSetFailure(d, canRelease)
<1>1. CASE FailingNew(d) = {}
  BY <1>1 DEF HandleNewReplicaSetFailure, Judged
<1>2. CASE FailingNew(d) # {}
  <2>1. PICK s \in FailingNew(d) : e = JudgeNewFailure(d, s, canRelease)
    BY <1>2 DEF HandleNewReplicaSetFailure
  <2>2. s \in Snapshot /\ s.uid \in UID /\ d.lastObject.ready \in BOOLEAN
    BY <1>2, KnownType DEF Snapshot, Object
  <2> HIDE DEF e
  <2>3. CASE d.lastObject.ready
    <3>1. e = Absolve(d, s.uid)
      BY <2>1, <2>2, <2>3 DEF JudgeNewFailure
    <3>2. Cleared(d, e, s.uid) /\ e.out = d.out
      BY <2>2, <3>1, AbsolveIs, AbsolveOut DEF Cleared
    <3>3. QED
      BY <2>3, <3>2 DEF Judged, e
  <2>4. CASE ~ d.lastObject.ready /\ s.uid \in d.reported
    BY <2>1, <2>2, <2>4 DEF JudgeNewFailure, Judged, e
  <2>5. CASE ~ d.lastObject.ready /\ s.uid \notin d.reported /\ Undecided(d, s, canRelease)
    <3>1. e = Suspect(d, s.uid) /\ d.since[s.uid] \in {"none", "young"}
      BY <2>1, <2>2, <2>5 DEF JudgeNewFailure, Undecided
    <3>2. Suspected(d, e, s.uid) /\ e.out = d.out
      BY <2>2, <3>1, SuspectDetail
    <3>3. QED
      BY <2>5, <3>2 DEF Judged, e
  <2>6. CASE ~ d.lastObject.ready /\ s.uid \notin d.reported /\ ~ Undecided(d, s, canRelease)
    <3>1. e = ReportNewFailure(d, s, canRelease)
      BY <2>1, <2>2, <2>6 DEF JudgeNewFailure
    <3>2. Reported(d, e, s)
      BY <2>2, <2>6, <3>1, ReportDetail
    <3>3. QED
      BY <2>6, <3>2 DEF Judged, e
  <2>7. QED
    BY <2>2, <2>3, <2>4, <2>5, <2>6
<1>3. QED
  BY <1>1, <1>2

\* A failure that is nobody's, counted, is the only one that needs no record.
Nobodys(m) == m.from = None /\ m.mode = "counted"
FailureFree(out) == \A i \in DOMAIN out : out[i].ch = "Failed" => Nobodys(out[i])

LEMMA AppendFree ==
  ASSUME NEW out \in Seq(Message), NEW m \in Message, FailureFree(out),
         m.ch = "Failed" => Nobodys(m)
  PROVE  FailureFree(Append(out, m))
<1>1. DOMAIN Append(out, m) = 1 .. Len(out) + 1
  OBVIOUS
<1>2. \A i \in 1 .. Len(out) + 1 :
        Append(out, m)[i] = IF i = Len(out) + 1 THEN m ELSE out[i]
  OBVIOUS
<1>3. \A i \in 1 .. Len(out) + 1 : i # Len(out) + 1 => i \in DOMAIN out
  OBVIOUS
<1>4. QED
  BY <1>1, <1>2, <1>3 DEF FailureFree

\* Who reports what: only the failing new ReplicaSet, when it was not reported.
LEMMA JudgedReports ==
  ASSUME NEW d \in Tracker, NEW e, FailureFree(d.out), Judged(d, e), NEW m \in Reports(t, e)
  PROVE  \/ Nobodys(m)
         \/ \E s \in FailingNew(d) :
              /\ m.from = s.uid
              /\ ~ d.lastObject.ready
              /\ Reported(d, e, s)
              /\ m.mode = "fatal" /\ s.failure = "quota" => d.since[s.uid] \in {"due", "ripe"}
<1>1. PICK i \in DOMAIN e.out : m = e.out[i] /\ m.ch = "Failed"
  BY DEF Reports
<1>2. d.out \in Seq(Message)
  BY DEF Tracker
<1>3. CASE e.out = d.out
  BY <1>1, <1>3 DEF FailureFree
<1>4. CASE \E s \in FailingNew(d) : ~ d.lastObject.ready /\ Reported(d, e, s)
  <2>1. PICK s \in FailingNew(d) : ~ d.lastObject.ready /\ Reported(d, e, s)
    BY <1>4
  <2>2. PICK mode \in Mode :
           /\ e.out = Append(d.out, [ch |-> "Failed", from |-> s.uid, mode |-> mode])
           /\ mode = "fatal" /\ s.failure = "quota" => d.since[s.uid] \in {"due", "ripe"}
    BY <2>1 DEF Reported
  <2> DEFINE f == [ch |-> "Failed", from |-> s.uid, mode |-> mode]
  <2>3. f.from = s.uid /\ f.mode = mode
    OBVIOUS
  <2> HIDE DEF f
  <2>4. DOMAIN Append(d.out, f) = 1 .. Len(d.out) + 1
    BY <1>2
  <2>5. \A j \in 1 .. Len(d.out) + 1 :
          Append(d.out, f)[j] = IF j = Len(d.out) + 1 THEN f ELSE d.out[j]
    BY <1>2
  <2>6. \A j \in 1 .. Len(d.out) + 1 : j # Len(d.out) + 1 => j \in DOMAIN d.out
    BY <1>2
  <2>7. m = f \/ \E j \in DOMAIN d.out : m = d.out[j]
    BY <1>1, <2>2, <2>4, <2>5, <2>6 DEF f
  <2>8. QED
    BY <1>1, <2>1, <2>2, <2>3, <2>7 DEF FailureFree
<1>5. QED
  BY <1>3, <1>4 DEF Judged

-----------------------------------------------------------------------------
(***************************************************************************)
(* The steps, by what they do to reports and suspicions.                   *)
(***************************************************************************)

SameRecord(d, e) == e.reported = d.reported /\ e.since = d.since

\* d is the tracker just before handleNewReplicaSetFailure is called.
CalmEntry(d) == d.known = t.known /\ d.deleted = t.deleted /\ SameRecord(t, d)

SnapshotEntry(d, s) ==
  /\ d.deleted = t.deleted
  /\ d.known = [t.known EXCEPT ![NameOf[s.uid]] = s]
  /\ s.failure # "none" => SameRecord(t, d)
  /\ s.failure = "none" => Cleared(t, d, s.uid)

ExitEntry(d, ev) ==
  /\ Known(d) = {r \in Known(t) : r.uid # ev.rs.uid}
  /\ d.deleted = t.deleted \cup (IF ev.kind = "Deleted" THEN {ev.rs.uid} ELSE {})
  /\ Cleared(t, d, ev.rs.uid)

Entry(d) ==
  /\ d \in Tracker
  /\ Filed(d)
  /\ FailureFree(d.out)
  /\ SameView(d, t')
  /\ Judged(d, t')

LEMMA BecomeEntry ==
  ASSUME NEW d \in Tracker, Filed(d), FailureFree(d.out),
         \E c \in BOOLEAN : Become(HandleNewReplicaSetFailure(d, c))
  PROVE  Entry(d)
<1>1. PICK c \in BOOLEAN : t' = HandleNewReplicaSetFailure(d, c)
  BY DEF Become
<1>2. QED
  BY <1>1, HandleNewIs, JudgedIs DEF Entry

LEMMA AddKnownDetail ==
  ASSUME NEW d \in Tracker, NEW s \in Snapshot
  PROVE  LET e == AddKnown(d, s)
         IN /\ e.out = d.out
            /\ s.failure # "none" => SameRecord(d, e)
            /\ s.failure = "none" => Cleared(d, e, s.uid)
<1> DEFINE f == [d EXCEPT !.known[NameOf[s.uid]] = s]
<1>1. s.uid \in UID /\ NameOf[s.uid] \in Name
  BY ConstantsAssumption DEF Snapshot
<1>2. f \in Tracker /\ SameRecord(d, f) /\ f.out = d.out
  BY <1>1 DEF Tracker, SameRecord
<1>3. AddKnown(d, s) = IF s.failure # "none" THEN f ELSE Absolve(f, s.uid)
  BY DEF AddKnown, RearmReplicaSetFailure
<1> HIDE DEF f
<1>4. QED
  BY <1>1, <1>2, <1>3, AbsolveIs, AbsolveOut DEF SameRecord, Cleared

LEMMA DropKnownDetail ==
  ASSUME NEW d \in Tracker, NEW s \in Snapshot
  PROVE  LET e == Absolve(DropKnown(d, s), s.uid)
         IN e.out = d.out /\ Cleared(d, e, s.uid)
<1> DEFINE f == DropKnown(d, s)
<1>1. s.uid \in UID /\ NameOf[s.uid] \in Name
  BY ConstantsAssumption DEF Snapshot
<1>2. f \in Tracker /\ SameRecord(d, f) /\ f.out = d.out
  BY <1>1, DropKnownType DEF Tracker, SameRecord, DropKnown
<1> HIDE DEF f
<1>3. QED
  BY <1>1, <1>2, AbsolveIs, AbsolveOut DEF SameRecord, Cleared, f

LEMMA StateDetail ==
  ASSUME NEW d \in Tracker, NEW o \in Object, FailureFree(d.out)
  PROVE  FailureFree(HandleDeploymentState(d, o).out)
<1> DEFINE seenObject == [d EXCEPT !.lastObject = o]
           channel == StatusChannel(d.State, o.ready)
           ch == CHOOSE c \in channel : TRUE
           sent == [seenObject EXCEPT !.State = IF ch = "Status" THEN @ ELSE ch]
<1>1. d.State \in TrackerState /\ o.ready \in BOOLEAN
  BY DEF Tracker, Object
<1>2. seenObject \in Tracker /\ seenObject.out = d.out
  BY DEF Tracker
<1>3. CASE channel = {}
  BY <1>2, <1>3 DEF HandleDeploymentState
<1>4. CASE channel # {}
  <2>1. ch \in {"Ready", "Added", "Status"}
    BY <1>1, <1>4, StatusChannelIs
  <2>2. sent \in Tracker /\ sent.out = d.out
    BY <1>2, <2>1 DEF Tracker, TrackerState
  <2>3. Msg(ch) \in Message /\ Msg(ch).ch # "Failed"
    BY <2>1, MsgType DEF Channel, Msg
  <2>4. HandleDeploymentState(d, o) = Send(sent, Msg(ch))
    BY <1>4 DEF HandleDeploymentState
  <2> HIDE DEF sent, ch
  <2>5. HandleDeploymentState(d, o).out = Append(d.out, Msg(ch))
    BY <2>2, <2>3, <2>4, SendOut
  <2>6. QED
    BY <2>3, <2>5, AppendFree DEF Tracker
<1>5. QED
  BY <1>3, <1>4

\* The events of the Deployment, the end of the list and the quota timer.
CalmJudgement ==
  HandleResourceAdded \/ HandleResourceModified
    \/ HandleReplicaSetSynced \/ HandleQuotaDeadlockRecheck

LEMMA CalmEntries ==
  ASSUME TypeOK, Filed(t), CalmJudgement
  PROVE  \E d \in Tracker : CalmEntry(d) /\ Entry(d)
<1>0. t \in Tracker /\ t.out = <<>> /\ FailureFree(t.out)
  BY DEF TypeOK, CalmJudgement, HandleResourceAdded, HandleResourceModified, HandleResource,
         HandleReplicaSetSynced, HandleQuotaDeadlockRecheck, Selecting, FailureFree
<1>1. ASSUME NEW kind \in {"Added", "Modified"}, HandleResource(kind)
      PROVE  \E d \in Tracker : CalmEntry(d) /\ Entry(d)
  <2> DEFINE d == HandleDeploymentState(t, buf[kind])
  <2>1. buf[kind] \in Object
    BY <1>1 DEF HandleResource, TypeOK
  <2>2. d \in Tracker /\ d.known = t.known /\ d.deleted = t.deleted /\ SameRecord(t, d)
        /\ FailureFree(d.out)
    BY <1>0, <2>1, HandleDeploymentStateIs, StateDetail DEF SameRecord
  <2>3. \E c \in BOOLEAN : Become(HandleNewReplicaSetFailure(d, c))
    BY <1>1 DEF HandleResource
  <2> HIDE DEF d
  <2>4. Entry(d)
    BY <2>2, <2>3, BecomeEntry DEF Filed
  <2>5. QED
    BY <2>2, <2>4 DEF CalmEntry
<1>2. CASE HandleReplicaSetSynced
  <2> DEFINE d == [t EXCEPT !.synced = TRUE]
  <2>1. d \in Tracker /\ d.known = t.known /\ d.deleted = t.deleted /\ SameRecord(t, d)
        /\ FailureFree(d.out)
    BY <1>0 DEF Tracker, SameRecord
  <2>2. \E c \in BOOLEAN : Become(HandleNewReplicaSetFailure(d, c))
    BY <1>2 DEF HandleReplicaSetSynced
  <2> HIDE DEF d
  <2>3. Entry(d)
    BY <2>1, <2>2, BecomeEntry DEF Filed
  <2>4. QED
    BY <2>1, <2>3 DEF CalmEntry
<1>3. CASE HandleQuotaDeadlockRecheck
  <2>1. Entry(t)
    BY <1>0, <1>3, BecomeEntry DEF HandleQuotaDeadlockRecheck
  <2>2. QED
    BY <1>0, <2>1 DEF CalmEntry, SameRecord
<1>4. QED
  BY <1>1, <1>2, <1>3 DEF CalmJudgement, HandleResourceAdded, HandleResourceModified

\* Of an incarnation in its tombstones, and under a name it knows another
\* incarnation of, Track hears nothing.
Ignored(s) == s.uid \in t.deleted \/ ~ MayUpdate(t, s)

LEMMA ReceiveEntries ==
  ASSUME TypeOK, Filed(t), ReceiveStep
  PROVE  LET ev == Head(rsOffer)
         IN \/ ev.kind \in {"Added", "Modified"} /\ Ignored(ev.rs) /\ t' = t
            \/ /\ ev.kind \in {"Added", "Modified"}
               /\ \E d \in Tracker : SnapshotEntry(d, ev.rs) /\ Entry(d)
            \/ /\ ev.kind \in {"Deleted", "Unselected"}
               /\ \E d \in Tracker : ExitEntry(d, ev) /\ Entry(d)
<1> DEFINE s == Head(rsOffer).rs
<1>1. t \in Tracker /\ s \in Snapshot /\ t.out = <<>> /\ FailureFree(t.out)
  <2>1. t.out = <<>>
    BY DEF ReceiveStep, HandleReplicaSetAdded, HandleReplicaSetModified, HandleReplicaSetDeleted,
           HandleReplicaSetUnselected, Receive, Selecting
  <2>2. s \in Snapshot
    BY ReceiveIs, OfferType
  <2>3. QED
    BY <2>1, <2>2 DEF TypeOK, FailureFree
<1>2. CASE HandleReplicaSetAdded
  <2> DEFINE a == AddKnown(t, s)
             m == Msg("AddedReplicaSet")
             d == IF a.lastObject = None THEN a ELSE Send(a, m)
  <2>1. Head(rsOffer).kind = "Added"
    BY <1>2 DEF HandleReplicaSetAdded, Receive
  <2>2. CASE s.uid \in t.deleted
    BY <1>2, <2>1, <2>2 DEF HandleReplicaSetAdded, Become, Ignored
  <2>3. CASE s.uid \notin t.deleted
    <3>1. \E c \in BOOLEAN : Become(HandleNewReplicaSetFailure(d, c))
      BY <1>2, <2>3 DEF HandleReplicaSetAdded
    <3>2. /\ a \in Tracker /\ a.out = t.out /\ a.deleted = t.deleted /\ Filed(a)
          /\ a.known = [t.known EXCEPT ![NameOf[s.uid]] = s]
          /\ s.failure # "none" => SameRecord(t, a)
          /\ s.failure = "none" => Cleared(t, a, s.uid)
      BY <1>1, AddKnownIs, AddKnownType, AddKnownDetail
    <3>3. m \in Message /\ m.ch # "Failed"
      BY MsgType DEF Msg, Channel
    <3> HIDE DEF a, m
    <3>4. /\ d \in Tracker /\ d.known = a.known /\ d.deleted = a.deleted /\ SameRecord(a, d)
          /\ d.out = a.out \/ d.out = Append(a.out, m)
      BY <3>2, <3>3, SendType, SendIs, SendOut DEF SameView, SameRecord
    <3> HIDE DEF d
    <3>5. FailureFree(d.out)
      <4>1. a.out \in Seq(Message) /\ FailureFree(a.out)
        BY <1>1, <3>2 DEF Tracker
      <4>2. QED
        BY <3>3, <3>4, <4>1, AppendFree
    <3>6. SnapshotEntry(d, s)
      BY <3>2, <3>4 DEF SnapshotEntry, SameRecord, Cleared
    <3>7. Entry(d)
      BY <3>1, <3>2, <3>4, <3>5, BecomeEntry DEF Filed
    <3>8. QED
      BY <2>1, <3>4, <3>6, <3>7
  <2>4. QED
    BY <2>2, <2>3
<1>3. CASE HandleReplicaSetModified
  <2> DEFINE d == AddKnown(t, s)
  <2>1. Head(rsOffer).kind = "Modified"
    BY <1>3 DEF HandleReplicaSetModified, Receive
  <2>2. CASE Ignored(s)
    BY <1>3, <2>1, <2>2 DEF HandleReplicaSetModified, Become, Ignored
  <2>3. CASE ~ Ignored(s)
    <3>1. \E c \in BOOLEAN : Become(HandleNewReplicaSetFailure(d, c))
      BY <1>3, <2>3 DEF HandleReplicaSetModified, Ignored
    <3>2. /\ d \in Tracker /\ d.out = t.out /\ d.deleted = t.deleted /\ Filed(d)
          /\ d.known = [t.known EXCEPT ![NameOf[s.uid]] = s]
          /\ s.failure # "none" => SameRecord(t, d)
          /\ s.failure = "none" => Cleared(t, d, s.uid)
      BY <1>1, AddKnownIs, AddKnownType, AddKnownDetail
    <3> HIDE DEF d
    <3>3. SnapshotEntry(d, s) /\ Entry(d)
      BY <1>1, <3>1, <3>2, BecomeEntry DEF SnapshotEntry
    <3>4. QED
      BY <2>1, <3>2, <3>3
  <2>4. QED
    BY <2>2, <2>3
<1> DEFINE ev == Head(rsOffer)
<1>4. ASSUME NEW f \in Tracker, f.known = t.known, SameRecord(t, f), f.out = t.out,
             f.deleted = t.deleted \cup (IF ev.kind = "Deleted" THEN {s.uid} ELSE {}),
             \E c \in BOOLEAN : Become(HandleNewReplicaSetFailure(Absolve(DropKnown(f, s), s.uid), c))
      PROVE  \E d \in Tracker : ExitEntry(d, ev) /\ Entry(d)
  <2> DEFINE d == Absolve(DropKnown(f, s), s.uid)
  <2>1. Filed(f) /\ Known(f) = Known(t)
    BY <1>4 DEF Filed, Known
  <2>2. /\ d \in Tracker /\ d.out = f.out /\ d.deleted = f.deleted /\ Filed(d)
        /\ Known(d) = {r \in Known(f) : r.uid # s.uid}
        /\ Cleared(f, d, s.uid)
    BY <1>1, <2>1, DropKnownIs, DropKnownDetail
  <2>3. \E c \in BOOLEAN : Become(HandleNewReplicaSetFailure(d, c))
    BY <1>4
  <2> HIDE DEF d
  <2>4. ExitEntry(d, ev)
    BY <1>4, <2>1, <2>2 DEF ExitEntry, SameRecord, Cleared
  <2>5. Entry(d)
    BY <1>1, <1>4, <2>2, <2>3, BecomeEntry
  <2>6. QED
    BY <2>2, <2>4, <2>5
<1>5. CASE HandleReplicaSetDeleted
  <2> DEFINE f == [t EXCEPT !.deleted = @ \cup {s.uid}]
  <2>1. /\ f \in Tracker /\ f.known = t.known /\ SameRecord(t, f) /\ f.out = t.out
        /\ f.deleted = t.deleted \cup {s.uid}
    BY <1>1 DEF Tracker, Snapshot, SameRecord
  <2>2. /\ Head(rsOffer).kind = "Deleted"
        /\ \E c \in BOOLEAN : Become(HandleNewReplicaSetFailure(Absolve(DropKnown(f, s), s.uid), c))
    BY <1>5 DEF HandleReplicaSetDeleted, Receive
  <2> HIDE DEF f
  <2>3. QED
    BY <1>4, <2>1, <2>2
<1>6. CASE HandleReplicaSetUnselected
  <2>1. /\ Head(rsOffer).kind = "Unselected"
        /\ \E c \in BOOLEAN : Become(HandleNewReplicaSetFailure(Absolve(DropKnown(t, s), s.uid), c))
    BY <1>6 DEF HandleReplicaSetUnselected, Receive
  <2>2. QED
    BY <1>1, <1>4, <2>1 DEF SameRecord
<1>7. QED
  BY <1>2, <1>3, <1>5, <1>6 DEF ReceiveStep

\* A step that judges no ReplicaSet: at most a suspicion grows older.
Aside ==
  /\ t'.known = t.known /\ t'.lastObject = t.lastObject /\ t'.synced = t.synced
  /\ t'.reported = t.reported
  /\ \A u \in UID : \/ t'.since[u] = t.since[u]
                    \/ t.since[u] = "young" /\ t'.since[u] = "due"
                    \/ t.since[u] = "due" /\ t'.since[u] = "ripe"
  /\ \A m \in Reports(t, t') : Nobodys(m)

LEMMA AsideIs ==
  ASSUME TypeOK, Filed(t), Surroundings, [Next]_vars,
         ~ CalmJudgement, ~ ReceiveStep, ~ HandleResourceDeleted
  PROVE  Aside
<1>0. t \in Tracker
  BY DEF TypeOK
<1>1. ASSUME t' = t PROVE Aside
  BY <1>1 DEF Aside, Reports
<1>2. CASE HandleResourceFailed
  <2>1. CASE t.lastObject = None
    BY <1>1, <1>2, <2>1 DEF HandleResourceFailed
  <2>2. CASE t.lastObject # None
    <3> DEFINE e == [t EXCEPT !.State = "Failed", !.failedFrom = None]
               m == [ch |-> "Failed", from |-> None, mode |-> "counted"]
    <3>1. /\ e \in Tracker /\ m \in Message /\ Nobodys(m)
          /\ e.known = t.known /\ e.lastObject = t.lastObject /\ e.synced = t.synced
          /\ SameRecord(t, e) /\ e.out = t.out
      BY <1>0 DEF Tracker, TrackerState, Message, Channel, Mode, SameRecord, Nobodys
    <3>2. t' = Send(e, m) /\ t.out = <<>>
      BY <1>2, <2>2 DEF HandleResourceFailed, HandleResourceFailure, Selecting
    <3> HIDE DEF e, m
    <3>3. /\ t'.known = t.known /\ t'.lastObject = t.lastObject /\ t'.synced = t.synced
          /\ SameRecord(t, t')
      BY <3>1, <3>2, SendIs DEF SameView, SameRecord
    <3>4. t'.out = Append(t.out, m) /\ FailureFree(t.out)
      BY <3>1, <3>2, SendOut DEF FailureFree
    <3>5. FailureFree(t'.out)
      BY <1>0, <3>1, <3>4, AppendFree DEF Tracker
    <3>6. QED
      BY <3>3, <3>5 DEF Aside, SameRecord, FailureFree, Reports
  <2>3. QED
    BY <2>1, <2>2
<1>3. CASE HandlePodUpdate
  <2>1. t.lastObject \in Object /\ t.out = <<>> /\ FailureFree(t.out)
    BY <1>0, <1>3 DEF HandlePodUpdate, Tracker, Selecting, FailureFree
  <2>2. /\ t'.known = t.known /\ t'.lastObject = t.lastObject /\ t'.synced = t.synced
        /\ SameRecord(t, t') /\ FailureFree(t'.out)
    BY <1>0, <1>3, <2>1, HandleDeploymentStateIs, StateDetail DEF HandlePodUpdate, SameRecord
  <2>3. QED
    BY <2>2 DEF Aside, SameRecord, FailureFree, Reports
<1>4. CASE HandleCtxDone \/ HandleError \/ AbortFailedSend
  BY <1>1, <1>4 DEF HandleCtxDone, HandleError, AbortFailedSend
<1>5. CASE DeploymentAdded \/ DeploymentModified \/ DeploymentDeleted
  BY <1>1, <1>5 DEF DeploymentAdded, DeploymentModified, DeploymentDeleted, DeploymentEvent
<1>6. ASSUME NEW u \in UID, Elapse(u) \/ TimerFires(u)
      PROVE  Aside
  BY <1>0, <1>6 DEF Elapse, TimerFires, Aside, Reports, Tracker
<1>7. CASE EventFailure \/ StaleTimerFires \/ Cancel \/ UNCHANGED vars
  BY <1>1, <1>7 DEF EventFailure, StaleTimerFires, Cancel, vars
<1>8. CASE Sent
  <2>1. t.out \in Seq(Message) /\ t.out # <<>>
    BY <1>0, <1>8 DEF Sent, Tracker
  <2>2. t' = [t EXCEPT !.out = Tail(t.out)] /\ Len(Tail(t.out)) <= Len(t.out)
    BY <1>8, <2>1 DEF Sent
  <2>3. QED
    BY <1>0, <2>2 DEF Aside, Reports, Tracker
<1>9. CASE OfferStep
  BY <1>1, <1>9, OfferIs
<1>10. CASE DropOffer
  BY <1>1, <1>10 DEF DropOffer
<1>11. ASSUME NEW u \in UID, ReplicaSetListed(u) PROVE Aside
  BY <1>1, <1>11 DEF ReplicaSetListed
<1>12. QED
  BY <1>2, <1>3, <1>4, <1>5, <1>6, <1>7, <1>8, <1>9, <1>10, <1>11, Steps
  DEF CalmStep, CalmJudgement

-----------------------------------------------------------------------------
(***************************************************************************)
(* What is gone stays gone, and what is live is known.                     *)
(***************************************************************************)
GoneForGood ==
  /\ \A u \in t.deleted : rsets[u].phase = "gone"
  /\ \A u \in seen : Live(u)
  /\ \A i \in DOMAIN rsOffer :
       LET ev == rsOffer[i]
       IN /\ ev.kind = "Deleted" => rsets[ev.rs.uid].phase = "gone"
          /\ ev.kind = "Unselected" => ~ rsets[ev.rs.uid].selected

Offered(u) == \E i \in DOMAIN rsOffer : rsOffer[i].rs.uid = u

Complete(u) == Offered(u) \/ ~ rsets[u].selected \/ \E s \in Known(t) : s.uid = u

LEMMA TailIs ==
  ASSUME NEW q \in Seq(Event), q # <<>>
  PROVE  /\ 1 \in DOMAIN q /\ q[1] = Head(q)
         /\ \A i \in DOMAIN Tail(q) : i + 1 \in DOMAIN q /\ Tail(q)[i] = q[i + 1]
         /\ \A j \in DOMAIN q : q[j] = Head(q) \/ (j - 1 \in DOMAIN Tail(q) /\ Tail(q)[j - 1] = q[j])
<1>1. DOMAIN q = 1 .. Len(q) /\ Len(q) \in Nat /\ Len(q) # 0
  OBVIOUS
<1>2. Len(Tail(q)) = Len(q) - 1 /\ DOMAIN Tail(q) = 1 .. (Len(q) - 1)
  OBVIOUS
<1>3. \A i \in 1 .. (Len(q) - 1) : Tail(q)[i] = q[i + 1]
  OBVIOUS
<1>4. Head(q) = q[1]
  OBVIOUS
<1>5. \A j \in 1 .. Len(q) : j = 1 \/ (j - 1 \in 1 .. (Len(q) - 1) /\ (j - 1) + 1 = j)
  BY <1>1
<1>6. QED
  BY <1>1, <1>2, <1>3, <1>4, <1>5

LEMMA NeverIgnored ==
  ASSUME TypeOK, Surroundings, Bookkeeping, GoneForGood, ~ ctxDone, rsOffer # <<>>,
         Head(rsOffer).kind \in {"Added", "Modified"}
  PROVE  ~ Ignored(Head(rsOffer).rs)
<1>1. MayUpdate(t, Head(rsOffer).rs)
  BY NoRival
<1>2. Live(Head(rsOffer).rs.uid)
  BY HeadOffer DEF Surroundings, CurrentOffer
<1>3. QED
  BY <1>1, <1>2 DEF GoneForGood, Ignored, Live

\* What a change of the cluster does, and what the handler says of it.
LEMMA ChangeIs ==
  ASSUME TypeOK, Surroundings, GoneForGood, OfferStep
  PROVE  /\ \A u \in UID : rsets[u].phase = "gone" => rsets'[u].phase = "gone"
         /\ \A u \in seen' : /\ Live(u)'
                             /\ \/ u \in seen /\ rsets'[u] = rsets[u]
                                \/ ~ rsets'[u].selected
                                \/ Offered(u)'
         /\ \A i \in DOMAIN rsOffer' :
              LET ev == rsOffer'[i]
              IN /\ ev.kind = "Deleted" => rsets'[ev.rs.uid].phase = "gone"
                 /\ ev.kind = "Unselected" => ~ rsets'[ev.rs.uid].selected
<1> DEFINE Goal ==
         /\ \A u \in UID : rsets[u].phase = "gone" => rsets'[u].phase = "gone"
         /\ \A u \in seen' : /\ Live(u)'
                             /\ \/ u \in seen /\ rsets'[u] = rsets[u]
                                \/ ~ rsets'[u].selected
                                \/ Offered(u)'
         /\ \A i \in DOMAIN rsOffer' :
              LET ev == rsOffer'[i]
              IN /\ ev.kind = "Deleted" => rsets'[ev.rs.uid].phase = "gone"
                 /\ ev.kind = "Unselected" => ~ rsets'[ev.rs.uid].selected
<1>0. /\ rsets \in [UID -> ReplicaSetState] /\ seen \subseteq UID
      /\ \A u \in seen : Live(u)
      /\ watch = "off" => seen = {}
  BY DEF TypeOK, GoneForGood, Surroundings, NothingBeforeWatch
<1>1. ASSUME NEW newSets, NEW newSeen, NEW events, ReplicaSetEvent(newSets, newSeen, events)
      PROVE  /\ rsets' = newSets /\ seen' = newSeen
             /\ rsOffer' = IF watch = "off" THEN <<>> ELSE events
  BY <1>1 DEF ReplicaSetEvent
<1>2. \A kind \in Kind, u \in UID, r \in ReplicaSetState :
        /\ EventOf(kind, u, r) \in Event
        /\ EventOf(kind, u, r).rs.uid = u /\ EventOf(kind, u, r).kind = kind
  BY EventType DEF EventOf, SnapshotOf
<1>3. ASSUME NEW e PROVE DOMAIN <<e>> = {1} /\ <<e>>[1] = e
  OBVIOUS
<1>4. ASSUME NEW u \in UID, ReplicaSetCreated(u)
      PROVE  Goal
  <2>1. PICK r \in LiveStates :
          ReplicaSetEvent([rsets EXCEPT ![u] = r], seen \cup Watched({u}),
                          If(r.selected, EventOf("Added", u, r)))
    BY <1>4 DEF ReplicaSetCreated
  <2> DEFINE ev == EventOf("Added", u, r)
  <2>2. r \in ReplicaSetState /\ r.phase = "live" /\ ev \in Event /\ ev.rs.uid = u /\ ev.kind = "Added"
    BY LiveStateType, <1>2 DEF Kind
  <2> HIDE DEF ev
  <2>3. /\ rsets' = [rsets EXCEPT ![u] = r] /\ seen' = seen \cup Watched({u})
        /\ rsOffer' = IF watch = "off" THEN <<>> ELSE If(r.selected, ev)
    BY <1>1, <2>1 DEF ev
  <2>4. rsOffer' = <<>> \/ rsOffer' = <<ev>>
    BY <2>3 DEF If
  <2>5. watch # "off" /\ r.selected => rsOffer' = <<ev>>
    BY <2>3 DEF If
  <2>6. rsOffer' = <<ev>> => Offered(u)'
    BY <1>3, <2>2 DEF Offered
  <2>7. rsets[u].phase = "unborn"
    BY <1>4 DEF ReplicaSetCreated
  <2>8. \A w \in seen' : (w = u /\ watch # "off") \/ (w \in seen /\ w # u)
    BY <1>0, <2>3, <2>7 DEF Watched, Live
  <2>9. \A w \in UID : rsets'[w] = IF w = u THEN r ELSE rsets[w]
    BY <1>0, <2>2, <2>3
  <2>10. \A w \in seen' : Live(w)' /\ ((w \in seen /\ rsets'[w] = rsets[w]) \/ ~ rsets'[w].selected \/ Offered(w)')
    BY <1>0, <2>2, <2>5, <2>6, <2>8, <2>9 DEF Live
  <2>11. \A w \in UID : rsets[w].phase = "gone" => rsets'[w].phase = "gone"
    BY <2>7, <2>9
  <2>12. \A i \in DOMAIN rsOffer' : rsOffer'[i] = ev
    BY <1>3, <2>4
  <2>13. QED
    BY <2>2, <2>10, <2>11, <2>12
<1>5. ASSUME NEW u \in UID, ReplicaSetUpdated(u)
      PROVE  Goal
  <2> DEFINE events(r) ==
         CASE rsets[u].selected /\ r.selected     -> <<EventOf("Modified", u, r)>>
           [] rsets[u].selected /\ ~ r.selected   -> <<EventOf("Unselected", u, r)>>
           [] ~ rsets[u].selected /\ r.selected   -> <<EventOf("Added", u, r)>>
           [] ~ rsets[u].selected /\ ~ r.selected -> <<>>
  <2>1. PICK r \in LiveStates \ {rsets[u]} : ReplicaSetEvent([rsets EXCEPT ![u] = r], seen, events(r))
    BY <1>5 DEF ReplicaSetUpdated
  <2>2. /\ r \in ReplicaSetState /\ r.phase = "live"
        /\ r.selected \in BOOLEAN /\ rsets[u].selected \in BOOLEAN
    BY <1>0, LiveStateType DEF ReplicaSetState
  <2>3. \/ events(r) = <<>> /\ ~ r.selected
        \/ events(r) = <<EventOf("Unselected", u, r)>> /\ ~ r.selected
        \/ events(r) = <<EventOf("Modified", u, r)>>
        \/ events(r) = <<EventOf("Added", u, r)>>
    BY <2>2
  <2>4. rsets' = [rsets EXCEPT ![u] = r] /\ seen' = seen
        /\ rsOffer' = IF watch = "off" THEN <<>> ELSE events(r)
    BY <1>1, <2>1
  <2> HIDE DEF events
  <2>5. \A w \in UID : rsets'[w] = IF w = u THEN r ELSE rsets[w]
    BY <1>0, <2>2, <2>4
  <2>6. \A i \in DOMAIN rsOffer' : /\ rsOffer'[i].rs.uid = u
                                   /\ rsOffer'[i].kind # "Deleted"
                                   /\ rsOffer'[i].kind = "Unselected" => ~ r.selected
    BY <1>2, <1>3, <2>2, <2>3, <2>4 DEF Kind
  <2>7. watch # "off" /\ r.selected => Offered(u)'
    <3> SUFFICES ASSUME watch # "off", r.selected PROVE Offered(u)'
      OBVIOUS
    <3>1. PICK kind \in Kind : rsOffer' = <<EventOf(kind, u, r)>>
      BY <2>2, <2>3, <2>4 DEF Kind
    <3>2. QED
      BY <1>2, <1>3, <2>2, <3>1 DEF Offered
  <2>8. Live(u)
    BY <1>5 DEF ReplicaSetUpdated
  <2>9. \A w \in UID : rsets[w].phase = "gone" => rsets'[w].phase = "gone"
    BY <2>5, <2>8 DEF Live
  <2>10. \A w \in seen' : Live(w)' /\ ((w \in seen /\ rsets'[w] = rsets[w]) \/ ~ rsets'[w].selected \/ Offered(w)')
    BY <1>0, <2>2, <2>4, <2>5, <2>7 DEF Live
  <2>11. QED
    BY <2>5, <2>6, <2>9, <2>10
<1>6. ASSUME NEW u \in UID, ReplicaSetDeleted(u)
      PROVE  Goal
  <2> DEFINE ev == EventOf("Deleted", u, rsets[u])
  <2>1. ReplicaSetEvent([rsets EXCEPT ![u].phase = "gone"], seen \ {u}, If(rsets[u].selected, ev))
    BY <1>6 DEF ReplicaSetDeleted
  <2>2. ev \in Event /\ ev.rs.uid = u /\ ev.kind = "Deleted"
    BY <1>0, <1>2 DEF Kind
  <2> HIDE DEF ev
  <2>3. /\ rsets' = [rsets EXCEPT ![u].phase = "gone"] /\ seen' = seen \ {u}
        /\ rsOffer' = IF watch = "off" THEN <<>> ELSE If(rsets[u].selected, ev)
    BY <1>1, <2>1
  <2>4. \A i \in DOMAIN rsOffer' : rsOffer'[i] = ev
    BY <1>3, <2>3 DEF If
  <2>5. rsets'[u].phase = "gone" /\ \A w \in UID \ {u} : rsets'[w] = rsets[w]
    BY <1>0, <2>3 DEF ReplicaSetState
  <2>6. QED
    BY <1>0, <2>2, <2>3, <2>4, <2>5 DEF Live
<1>7. ASSUME NEW u \in UID, NEW v \in UID, ReplicaSetReplaced(u, v)
      PROVE  Goal
  <2> DEFINE gone == EventOf("Deleted", u, rsets[u])
  <2>1. PICK r \in LiveStates :
          ReplicaSetEvent([rsets EXCEPT ![u].phase = "gone", ![v] = r],
                          (seen \ {u}) \cup Watched({v}),
                          If(rsets[u].selected, gone) \o If(r.selected, EventOf("Added", v, r)))
    BY <1>7 DEF ReplicaSetReplaced
  <2> DEFINE added == EventOf("Added", v, r)
  <2>2. /\ r \in ReplicaSetState /\ r.phase = "live"
        /\ gone \in Event /\ gone.rs.uid = u /\ gone.kind = "Deleted"
        /\ added \in Event /\ added.rs.uid = v /\ added.kind = "Added"
    BY LiveStateType, <1>0, <1>2 DEF Kind
  <2>3. Live(u) /\ rsets[v].phase = "unborn" /\ u # v
    BY <1>7 DEF ReplicaSetReplaced, Live
  <2> HIDE DEF gone, added
  <2>4. /\ rsets' = [rsets EXCEPT ![u].phase = "gone", ![v] = r]
        /\ seen' = (seen \ {u}) \cup Watched({v})
        /\ rsOffer' = IF watch = "off" THEN <<>> ELSE If(rsets[u].selected, gone) \o If(r.selected, added)
    BY <1>1, <2>1 DEF added
  <2>5. /\ \A i \in DOMAIN rsOffer' : rsOffer'[i] \in {gone, added}
        /\ watch # "off" /\ r.selected => \E i \in DOMAIN rsOffer' : rsOffer'[i] = added
    <3>1. /\ <<>> \o <<>> = <<>>
          /\ <<gone>> \o <<>> = <<gone>>
          /\ <<>> \o <<added>> = <<added>>
          /\ <<gone>> \o <<added>> = <<gone, added>>
      BY <2>2, ConcatIs
    <3>2. DOMAIN <<gone, added>> = {1, 2} /\ <<gone, added>>[1] = gone /\ <<gone, added>>[2] = added
      OBVIOUS
    <3>3. DOMAIN <<>> = {}
      OBVIOUS
    <3>4. \/ rsOffer' = <<>> /\ ~ (watch # "off" /\ r.selected)
          \/ rsOffer' = <<gone>> /\ ~ r.selected
          \/ rsOffer' = <<added>>
          \/ rsOffer' = <<gone, added>>
      BY <2>4, <3>1 DEF If
    <3>5. QED
      BY <1>3, <3>2, <3>3, <3>4
  <2>6. /\ rsets'[u].phase = "gone" /\ rsets'[v] = r
        /\ \A w \in UID \ {u, v} : rsets'[w] = rsets[w]
    BY <1>0, <2>2, <2>3, <2>4 DEF ReplicaSetState
  <2>7. \A w \in seen' : w # u /\ ((w = v /\ watch # "off") \/ (w \in seen /\ w # v))
    BY <1>0, <2>3, <2>4 DEF Watched, Live
  <2>8. watch # "off" /\ r.selected => Offered(v)'
    BY <2>2, <2>5 DEF Offered
  <2>9. \A w \in seen' : Live(w)' /\ ((w \in seen /\ rsets'[w] = rsets[w]) \/ ~ rsets'[w].selected \/ Offered(w)')
    BY <1>0, <2>2, <2>6, <2>7, <2>8 DEF Live
  <2>10. \A w \in UID : rsets[w].phase = "gone" => rsets'[w].phase = "gone"
    BY <2>3, <2>6
  <2>11. QED
    BY <2>2, <2>5, <2>6, <2>9, <2>10
<1>8. QED
  BY <1>4, <1>5, <1>6, <1>7 DEF OfferStep

LEMMA CtxStays ==
  ASSUME TypeOK, Filed(t), Surroundings, [Next]_vars
  PROVE  ctxDone => ctxDone'
<1>1. CASE CalmStep
  BY <1>1, CalmIs DEF Surroundings
<1>2. CASE ReceiveStep
  BY <1>2, ReceiveIs
<1>3. CASE OfferStep
  BY <1>3, OfferIs
<1>4. CASE HandleResourceDeleted \/ DropOffer \/ \E u \in UID : ReplicaSetListed(u)
  BY <1>4 DEF HandleResourceDeleted, DropOffer, ReplicaSetListed
<1>5. QED
  BY <1>1, <1>2, <1>3, <1>4, Steps

LEMMA GoneInit == Init => GoneForGood
<1> SUFFICES ASSUME Init PROVE GoneForGood
  OBVIOUS
<1>1. t.deleted = {} /\ seen = {} /\ DOMAIN rsOffer = {}
  BY DEF Init
<1>2. QED
  BY <1>1 DEF GoneForGood

LEMMA GoneStep ==
  ASSUME TypeOK, Filed(t), Surroundings, GoneForGood, [Next]_vars
  PROVE  GoneForGood'
<1>0. t \in Tracker /\ rsOffer \in Seq(Event) /\ rsets \in [UID -> ReplicaSetState]
  BY DEF TypeOK
<1>1. CASE CalmStep
  <2>1. rsets' = rsets /\ rsOffer' = rsOffer /\ seen' = seen /\ t'.deleted = t.deleted
    BY <1>1, CalmIs DEF Surroundings
  <2>2. QED
    BY <2>1 DEF GoneForGood, Live
<1>2. CASE ReceiveStep
  <2>1. /\ rsOffer # <<>> /\ rsOffer' = Tail(rsOffer) /\ UNCHANGED <<rsets, seen>>
    BY <1>2, ReceiveIs
  <2>2. 1 \in DOMAIN rsOffer /\ rsOffer[1] = Head(rsOffer)
        /\ \A i \in DOMAIN rsOffer' : i + 1 \in DOMAIN rsOffer /\ rsOffer'[i] = rsOffer[i + 1]
    BY <1>0, <2>1, TailIs
  <2>3. \A u \in t'.deleted : u \in t.deleted \/ (Head(rsOffer).kind = "Deleted" /\ u = Head(rsOffer).rs.uid)
    BY <1>2, ReceiveEntries DEF SnapshotEntry, ExitEntry, Entry, SameView
  <2>4. QED
    BY <2>1, <2>2, <2>3 DEF GoneForGood, Live
<1>3. CASE OfferStep
  <2>1. t' = t
    BY <1>3, OfferIs
  <2>2. QED
    BY <1>0, <1>3, <2>1, ChangeIs DEF GoneForGood, Tracker
<1>4. CASE HandleResourceDeleted
  <2>1. t'.deleted = {} /\ UNCHANGED <<rsets, seen, rsOffer>>
    BY <1>0, <1>4, ResetIs DEF HandleResourceDeleted, Become, env
  <2>2. QED
    BY <2>1 DEF GoneForGood, Live
<1>5. CASE DropOffer
  <2>1. rsOffer # <<>> /\ rsOffer' = Tail(rsOffer) /\ UNCHANGED <<rsets, seen, t>>
    BY <1>5 DEF DropOffer
  <2>2. \A i \in DOMAIN rsOffer' : i + 1 \in DOMAIN rsOffer /\ rsOffer'[i] = rsOffer[i + 1]
    BY <1>0, <2>1, TailIs
  <2>3. QED
    BY <2>1, <2>2 DEF GoneForGood, Live
<1>6. ASSUME NEW u \in UID, ReplicaSetListed(u)
      PROVE  GoneForGood'
  <2> DEFINE ev == EventOf("Added", u, rsets[u])
  <2>1. ev.kind = "Added"
    BY DEF EventOf
  <2> HIDE DEF ev
  <2>2. /\ rsOffer = <<>> /\ seen' = seen \cup {u} /\ rsOffer' = If(rsets[u].selected, ev)
        /\ u \in listing \ seen /\ UNCHANGED <<rsets, t>>
    BY <1>6 DEF ReplicaSetListed, ev
  <2>3. Live(u)
    BY <2>2 DEF Surroundings, ListedIsLive
  <2>4. \A i \in DOMAIN rsOffer' : rsOffer'[i] = ev
    BY <2>2 DEF If
  <2>5. QED
    BY <2>1, <2>2, <2>3, <2>4 DEF GoneForGood, Live
<1>7. QED
  BY <1>1, <1>2, <1>3, <1>4, <1>5, <1>6, Steps

\* An offer that is not the one received is still there.
LEMMA StillOffered ==
  ASSUME TypeOK, rsOffer # <<>>, rsOffer' = Tail(rsOffer),
         NEW u, Offered(u), u # Head(rsOffer).rs.uid
  PROVE  Offered(u)'
<1>1. PICK j \in DOMAIN rsOffer : rsOffer[j].rs.uid = u
  BY DEF Offered
<1>2. j - 1 \in DOMAIN Tail(rsOffer) /\ Tail(rsOffer)[j - 1] = rsOffer[j]
  BY <1>1, TailIs DEF TypeOK
<1>3. QED
  BY <1>1, <1>2 DEF Offered

\* No event is lost between the informer and the map, until a deletion is handled.
LEMMA CompleteStep ==
  ASSUME TypeOK, Surroundings, Bookkeeping, GoneForGood, KnownIsComplete, [Next]_vars,
         wiped => wiped', HandleResourceDeleted => wiped'
  PROVE  KnownIsComplete'
<1>0. t \in Tracker /\ Filed(t) /\ seen \subseteq UID
  BY DEF TypeOK, Bookkeeping
<1>1. SUFFICES ASSUME ~ wiped', ~ ctxDone', NEW u \in seen'
               PROVE  Complete(u)'
  BY DEF KnownIsComplete, Complete, Offered
<1>2. ~ ctxDone /\ ~ wiped /\ ~ HandleResourceDeleted
  BY <1>0, <1>1, CtxStays
<1>3. \A v \in seen : Complete(v)
  BY <1>2 DEF KnownIsComplete, Complete, Offered
<1>4. CASE CalmStep
  <2>1. rsets' = rsets /\ rsOffer' = rsOffer /\ seen' = seen /\ t'.known = t.known
    BY <1>0, <1>4, CalmIs DEF Surroundings
  <2>2. QED
    BY <1>3, <2>1 DEF Complete, Offered, Known
<1>5. CASE ReceiveStep
  <2> DEFINE ev == Head(rsOffer)
             n == NameOf[ev.rs.uid]
  <2>1. rsOffer # <<>> /\ rsOffer' = Tail(rsOffer) /\ UNCHANGED <<rsets, seen>>
    BY <1>5, ReceiveIs
  <2>2. /\ ev \in Event /\ ev.rs \in Snapshot /\ ev.rs.uid \in UID /\ n \in Name /\ ev.rs # None
    BY <2>1, OfferType, ConstantsAssumption, NoneAssumption
  <2>3. u \in seen /\ Complete(u) /\ u \in UID
    BY <1>0, <1>3, <2>1
  <2>4. CASE ev.kind \in {"Added", "Modified"}
    <3>1. ~ Ignored(ev.rs)
      BY <1>2, <2>1, <2>4, NeverIgnored
    <3>2. PICK d \in Tracker : SnapshotEntry(d, ev.rs) /\ Entry(d)
      BY <1>0, <1>5, <2>4, <3>1, ReceiveEntries
    <3>3. t'.known = [t.known EXCEPT ![n] = ev.rs]
      BY <3>2 DEF SnapshotEntry, Entry, SameView
    <3>4. ev.rs \in Known(t')
      BY <1>0, <2>2, <3>3 DEF Known, Tracker
    <3>5. \A r \in Known(t) : r.uid = ev.rs.uid \/ r \in Known(t')
      BY <1>0, <2>2, <3>1, <3>3 DEF Known, Ignored, MayUpdate, Tracker
    <3>6. CASE u = ev.rs.uid
      BY <3>4, <3>6 DEF Complete, Known
    <3>7. CASE u # ev.rs.uid
      <4>1. Offered(u) => Offered(u)'
        BY <2>1, <3>7, StillOffered
      <4>2. QED
        BY <2>1, <2>3, <3>5, <3>7, <4>1 DEF Complete, Known
    <3>8. QED
      BY <3>6, <3>7
  <2>5. CASE ev.kind \in {"Deleted", "Unselected"}
    <3>1. PICK d \in Tracker : ExitEntry(d, ev) /\ Entry(d)
      BY <1>0, <1>5, <2>5, ReceiveEntries
    <3>2. Known(t') = {r \in Known(t) : r.uid # ev.rs.uid}
      BY <3>1 DEF ExitEntry, Entry, SameView, Known
    <3>3. CASE u = ev.rs.uid
      <4>1. 1 \in DOMAIN rsOffer /\ rsOffer[1] = ev
        BY <2>1, TailIs DEF TypeOK
      <4>2. ev.kind = "Unselected" /\ ~ rsets[u].selected
        BY <2>3, <2>5, <3>3, <4>1 DEF GoneForGood, Live
      <4>3. QED
        BY <2>1, <4>2 DEF Complete
    <3>4. CASE u # ev.rs.uid
      <4>1. Offered(u) => Offered(u)'
        BY <2>1, <3>4, StillOffered
      <4>2. QED
        BY <2>1, <2>3, <3>2, <3>4, <4>1 DEF Complete, Known
    <3>5. QED
      BY <3>3, <3>4
  <2>6. QED
    BY <2>2, <2>4, <2>5 DEF Event, Kind
<1>6. CASE OfferStep
  <2>1. t' = t /\ rsOffer = <<>>
    BY <1>6, OfferIs
  <2>2. (u \in seen /\ rsets'[u] = rsets[u]) \/ ~ rsets'[u].selected \/ Offered(u)'
    BY <1>6, ChangeIs
  <2>3. ~ Offered(u)
    BY <2>1 DEF Offered
  <2>4. QED
    BY <1>3, <2>1, <2>2, <2>3 DEF Complete, Known
<1>7. CASE DropOffer
  BY <1>2, <1>7 DEF DropOffer
<1>8. ASSUME NEW v \in UID, ReplicaSetListed(v)
      PROVE  Complete(u)'
  <2> DEFINE ev == EventOf("Added", v, rsets[v])
  <2>1. ev.rs.uid = v
    BY DEF EventOf, SnapshotOf
  <2> HIDE DEF ev
  <2>2. /\ rsOffer = <<>> /\ seen' = seen \cup {v} /\ rsOffer' = If(rsets[v].selected, ev)
        /\ UNCHANGED <<rsets, t>>
    BY <1>8 DEF ReplicaSetListed, ev
  <2>3. ~ Offered(u)
    BY <2>2 DEF Offered
  <2>4. rsets[v].selected => Offered(v)'
    BY <2>1, <2>2 DEF Offered, If
  <2>5. QED
    BY <1>3, <2>2, <2>3, <2>4 DEF Complete, Known
<1>9. QED
  BY <1>2, <1>4, <1>5, <1>6, <1>7, <1>8, Steps

-----------------------------------------------------------------------------
(***************************************************************************)
(* The history of charges and suspicions.                                  *)
(***************************************************************************)

\* Once the context is done an event no longer counts as consumed.  A failure
\* forgotten then cannot come back: nothing that is still to come tells of it.
NeverToldAgain(u) ==
  /\ ctxDone
  /\ \A s \in Known(t) : s.uid = u => s.failure = "none"
  /\ \A i \in DOMAIN rsOffer :
       rsOffer[i].rs.uid = u => rsOffer[i].kind \notin {"Added", "Modified"}

ChargedAreReported == \A u \in charged : u \in t.reported \/ NeverToldAgain(u)

Suspicions ==
  \A u \in UID : /\ t.since[u] = "young" => suspicion[u] = "seen"
                 /\ t.since[u] \in {"due", "ripe"} => suspicion[u] = "held"

\* A ready Deployment absolves its new ReplicaSet.
ReadyIsCleared ==
  \A s \in FailingNew(t) : t.lastObject.ready => t.since[s.uid] = "none"

HistoryType ==
  /\ charged \subseteq UID
  /\ suspicion \in [UID -> {"none", "seen", "held"}]

LEMMA DeletionIs ==
  ASSUME TypeOK, [Next]_vars
  PROVE  DeletionHandled <=> HandleResourceDeleted
<1>0. buf \in [{"Added", "Modified", "Deleted"} -> Object \cup {None}]
  BY DEF TypeOK
<1>1. HandleResourceDeleted => DeletionHandled
  BY <1>0 DEF HandleResourceDeleted, DeletionHandled
<1>2. SUFFICES ASSUME DeletionHandled, ~ HandleResourceDeleted PROVE FALSE
  BY <1>1
<1>3. ASSUME buf' = buf PROVE FALSE
  BY <1>2, <1>3 DEF DeletionHandled
<1>4. CASE HandleResourceAdded \/ HandleResourceModified
  BY <1>0, <1>2, <1>4 DEF HandleResourceAdded, HandleResourceModified, HandleResource, DeletionHandled
<1>5. CASE DeploymentAdded \/ DeploymentModified \/ DeploymentDeleted
  <2>1. PICK kind \in {"Added", "Modified", "Deleted"}, new \in Object \cup {None}, sent \in Object :
          DeploymentEvent(kind, new, sent)
    BY <1>5 DEF DeploymentAdded, DeploymentModified, DeploymentDeleted, TypeOK
  <2>2. buf' = [buf EXCEPT ![kind] = sent] /\ sent # None /\ buf[kind] = None
    BY <2>1, NoneAssumption DEF DeploymentEvent
  <2>3. QED
    BY <1>0, <1>2, <2>2 DEF DeletionHandled
<1>6. CASE HandleResourceFailed \/ HandleReplicaSetSynced \/ HandleQuotaDeadlockRecheck
           \/ HandlePodUpdate \/ HandleCtxDone \/ HandleError \/ AbortFailedSend
  BY <1>3, <1>6 DEF HandleResourceFailed, HandleReplicaSetSynced, HandleQuotaDeadlockRecheck,
     HandlePodUpdate, HandleCtxDone, HandleError, AbortFailedSend
<1>7. CASE ReceiveStep
  BY <1>3, <1>7 DEF ReceiveStep, HandleReplicaSetAdded, HandleReplicaSetModified,
     HandleReplicaSetDeleted, HandleReplicaSetUnselected, Receive
<1>8. CASE OfferStep
  BY <1>3, <1>8 DEF OfferStep, ReplicaSetCreated, ReplicaSetUpdated, ReplicaSetDeleted,
     ReplicaSetReplaced, ReplicaSetEvent
<1>9. CASE \/ \E u \in UID : Elapse(u) \/ TimerFires(u) \/ ReplicaSetListed(u)
           \/ EventFailure \/ StaleTimerFires \/ Sent \/ Cancel \/ DropOffer \/ UNCHANGED vars
  BY <1>3, <1>9 DEF Elapse, TimerFires, ReplicaSetListed, EventFailure, StaleTimerFires, Sent,
     Cancel, DropOffer, vars
<1>10. QED
  BY <1>2, <1>4, <1>5, <1>6, <1>7, <1>8, <1>9, Steps DEF CalmStep

LEMMA ConsumedIs ==
  ASSUME TypeOK, Filed(t), Surroundings, [Next]_vars
  PROVE  /\ \A ev \in Consumed : ReceiveStep /\ ~ ctxDone /\ ev = Head(rsOffer)
         /\ ReceiveStep /\ ~ ctxDone => Consumed = {Head(rsOffer)}
<1>0. rsOffer \in Seq(Event)
  BY DEF TypeOK
<1>1. CASE CalmStep
  <2>1. rsOffer' = rsOffer
    BY <1>1, CalmIs DEF Surroundings
  <2>2. ~ ReceiveStep
    <3>1. rsOffer # <<>> => Len(Tail(rsOffer)) < Len(rsOffer)
      BY HeadOffer DEF Surroundings
    <3>2. QED
      BY <1>0, <2>1, <3>1, ReceiveIs
  <2>3. QED
    BY <1>0, <2>1, <2>2 DEF Consumed
<1>2. CASE ReceiveStep
  BY <1>2, ReceiveIs, HeadOffer DEF Consumed, Surroundings
<1>3. ASSUME rsOffer = <<>>
      PROVE  Consumed = {} /\ ~ ReceiveStep
  <2>1. Len(rsOffer) = 0
    BY <1>3
  <2>2. ASSUME Consumed # {} PROVE FALSE
    <3>1. Len(rsOffer') < 0
      BY <2>1, <2>2 DEF Consumed
    <3>2. TypeOK'
      BY TypeStep
    <3>3. Len(rsOffer') \in Nat
      BY <3>2 DEF TypeOK
    <3>4. QED
      BY <3>1, <3>3
  <2>3. QED
    BY <1>3, <2>2, ReceiveIs
<1>4. CASE OfferStep
  BY <1>3, <1>4, OfferIs
<1>5. CASE HandleResourceDeleted
  <2>1. rsOffer' = rsOffer
    BY <1>5 DEF HandleResourceDeleted, env
  <2>2. ~ ReceiveStep
    <3>1. rsOffer # <<>> => Len(Tail(rsOffer)) < Len(rsOffer)
      BY HeadOffer DEF Surroundings
    <3>2. QED
      BY <1>0, <2>1, <3>1, ReceiveIs
  <2>3. QED
    BY <1>0, <2>1, <2>2 DEF Consumed
<1>6. CASE DropOffer
  BY <1>6 DEF DropOffer, Consumed
<1>7. ASSUME NEW u \in UID, ReplicaSetListed(u)
      PROVE  Consumed = {} /\ ~ ReceiveStep
  BY <1>3, <1>7 DEF ReplicaSetListed
<1>8. QED
  BY <1>1, <1>2, <1>3, <1>4, <1>5, <1>6, <1>7, Steps

\* What a deletion of the Deployment does to reports and suspicions.
LEMMA ResetDetail ==
  ASSUME TypeOK, HandleResourceDeleted
  PROVE  /\ \A u \in UID : t'.since[u] = "none"
         /\ t'.lastObject = None
         /\ Reports(t, t') = {}
<1> DEFINE e == [t EXCEPT !.State = "Deleted", !.lastObject = None,
                          !.known = [n \in Name |-> None], !.deleted = {},
                          !.reported = {}, !.since = [u \in UID |-> "none"],
                          !.failedFrom = None]
           m == Msg("Status")
<1>0. t \in Tracker /\ t.out = <<>> /\ t' = Send(e, m)
  BY DEF TypeOK, HandleResourceDeleted, Become, ResetOnDelete, Selecting
<1>1. e \in Tracker /\ e.out = <<>> /\ e.lastObject = None /\ \A u \in UID : e.since[u] = "none"
  BY <1>0 DEF Tracker, TrackerState, Age
<1>2. m \in Message /\ m.ch = "Status"
  BY MsgType DEF Msg, Channel
<1> HIDE DEF e, m
<1>3. t'.out = Append(<<>>, m) /\ t'.since = e.since /\ t'.lastObject = None
  BY <1>0, <1>1, <1>2, SendOut, SendIs DEF SameView
<1>4. t'.out = <<m>> /\ DOMAIN <<m>> = {1} /\ <<m>>[1] = m
  BY <1>3
<1>5. Reports(t, t') = {}
  BY <1>2, <1>4 DEF Reports
<1>6. QED
  BY <1>1, <1>3, <1>5

\* The three ways of a step, apart from a deletion of the Deployment.
LEMMA Ways ==
  ASSUME TypeOK, Filed(t), Surroundings, [Next]_vars, ~ HandleResourceDeleted
  PROVE  \/ Aside /\ ~ ReceiveStep
         \/ ReceiveStep /\ Head(rsOffer).kind \in {"Added", "Modified"} /\ Ignored(Head(rsOffer).rs) /\ t' = t
         \/ ~ ReceiveStep /\ \E d \in Tracker : CalmEntry(d) /\ Entry(d)
         \/ /\ ReceiveStep /\ Head(rsOffer).kind \in {"Added", "Modified"}
            /\ \E d \in Tracker : SnapshotEntry(d, Head(rsOffer).rs) /\ Entry(d)
         \/ /\ ReceiveStep /\ Head(rsOffer).kind \in {"Deleted", "Unselected"}
            /\ \E d \in Tracker : ExitEntry(d, Head(rsOffer)) /\ Entry(d)
BY CalmEntries, ReceiveEntries, AsideIs

LEMMA EntryCharges ==
  ASSUME NEW d, Entry(d), NEW u \in UID
  PROVE  /\ Known(t') = Known(d) /\ FailingNew(t') = FailingNew(d)
         /\ t'.lastObject = d.lastObject
         /\ u \in Charged => /\ u \notin d.reported
                             /\ u \in t'.reported
                             /\ \E s \in Known(d) : s.uid = u /\ s.failure # "none"
         /\ u \in d.reported => u \in t'.reported \/ u \in Absolved
<1>1. Known(t') = Known(d) /\ t'.lastObject = d.lastObject /\ t'.synced = d.synced
  BY DEF Entry, SameView, Known
<1>2. FailingNew(t') = FailingNew(d)
  BY <1>1 DEF FailingNew, NewReplicaSet, Candidates
<1>3. ASSUME u \in Charged
      PROVE  /\ u \notin d.reported
             /\ u \in t'.reported
             /\ \E s \in Known(d) : s.uid = u /\ s.failure # "none"
  <2>1. PICK m \in Reports(t, t') : m.from = u /\ u # None
    BY <1>3 DEF Charged
  <2>2. PICK s \in FailingNew(d) : m.from = s.uid /\ Reported(d, t', s)
    BY <2>1, JudgedReports DEF Entry, Nobodys
  <2>3. s \in Known(d) /\ s.failure # "none"
    BY KnownType DEF Entry, FailingNew
  <2>4. QED
    BY <2>1, <2>2, <2>3 DEF Reported
<1>4. ASSUME u \in d.reported, u \notin t'.reported
      PROVE  u \in Absolved
  <2>1. PICK s \in FailingNew(d) : d.lastObject.ready /\ Cleared(d, t', s.uid)
    BY <1>4 DEF Entry, Judged, Suspected, Reported
  <2>2. s.uid = u
    BY <1>4, <2>1 DEF Cleared
  <2>3. QED
    BY <1>1, <1>2, <2>1, <2>2 DEF Absolved
<1>5. QED
  BY <1>1, <1>2, <1>3, <1>4

LEMMA EntrySince ==
  ASSUME NEW d, Entry(d)
  PROVE  /\ \A u \in UID : \/ t'.since[u] = d.since[u]
                           \/ t'.since[u] = "none"
                           \/ /\ d.since[u] = "none" /\ t'.since[u] = "young"
                              /\ \E s \in Known(d) : s.uid = u /\ s.failure # "none"
         /\ \A s \in FailingNew(t') : t'.lastObject.ready => t'.since[s.uid] = "none"
<1>0. /\ d \in Tracker /\ Filed(d) /\ d.since \in [UID -> Age]
      /\ FailingNew(d) \subseteq Known(d)
      /\ \A s \in FailingNew(d) : s.uid \in UID /\ s.failure # "none" /\ d.lastObject # None
  BY KnownType DEF Entry, Tracker, Snapshot, FailingNew
<1>1. FailingNew(t') = FailingNew(d) /\ t'.lastObject = d.lastObject
  <2>1. Known(t') = Known(d) /\ t'.lastObject = d.lastObject /\ t'.synced = d.synced
    BY DEF Entry, SameView, Known
  <2>2. QED
    BY <2>1 DEF FailingNew, NewReplicaSet, Candidates
<1>2. CASE t' = d /\ (d.lastObject = None \/ ~ d.lastObject.ready \/ FailingNew(d) = {})
  BY <1>0, <1>1, <1>2
<1>3. CASE \E s \in FailingNew(d) : d.lastObject.ready /\ Cleared(d, t', s.uid)
  <2>1. PICK s \in FailingNew(d) : d.lastObject.ready /\ Cleared(d, t', s.uid)
    BY <1>3
  <2>2. \A r \in FailingNew(d) : r = s
    BY <1>0, OneNewReplicaSet
  <2>3. QED
    BY <1>0, <1>1, <2>1, <2>2 DEF Cleared
<1>4. CASE \E s \in FailingNew(d) : ~ d.lastObject.ready /\ Suspected(d, t', s.uid)
  BY <1>0, <1>1, <1>4 DEF Suspected
<1>5. CASE \E s \in FailingNew(d) : ~ d.lastObject.ready /\ Reported(d, t', s)
  BY <1>0, <1>1, <1>5 DEF Reported
<1>6. QED
  BY <1>2, <1>3, <1>4, <1>5 DEF Entry, Judged

\* Once the context is done, what the handler still has to send only gets less.
LEMMA OffersShrink ==
  ASSUME TypeOK, Filed(t), Surroundings, [Next]_vars, ctxDone
  PROVE  \A i \in DOMAIN rsOffer' : \E j \in DOMAIN rsOffer : rsOffer'[i] = rsOffer[j]
<1>1. CASE rsOffer' = rsOffer
  BY <1>1
<1>2. CASE rsOffer # <<>> /\ rsOffer' = Tail(rsOffer)
  BY <1>2, TailIs DEF TypeOK
<1>3. CASE CalmStep
  BY <1>1, <1>3, CalmIs DEF Surroundings
<1>4. CASE ReceiveStep
  BY <1>2, <1>4, ReceiveIs
<1>5. CASE OfferStep
  BY <1>5, OfferIs
<1>6. CASE HandleResourceDeleted
  BY <1>1, <1>6 DEF HandleResourceDeleted, env
<1>7. CASE DropOffer
  BY <1>2, <1>7 DEF DropOffer
<1>8. CASE \E u \in UID : ReplicaSetListed(u)
  BY <1>8 DEF ReplicaSetListed
<1>9. QED
  BY <1>3, <1>4, <1>5, <1>6, <1>7, <1>8, Steps

\* What is left to send after an event is about another incarnation.
LEMMA OthersLeft ==
  ASSUME TypeOK, Surroundings, GoneForGood, ReceiveStep,
         NEW i \in DOMAIN rsOffer', rsOffer'[i].rs.uid = Head(rsOffer).rs.uid
  PROVE  FALSE
<1>1. rsOffer # <<>> /\ rsOffer' = Tail(rsOffer) /\ rsOffer \in Seq(Event)
  BY ReceiveIs DEF TypeOK
<1>2. Tail(rsOffer) # <<>>
  BY <1>1
<1>3. PICK f \in Event : Tail(rsOffer) = <<f>> /\ f.kind = "Added" /\ CurrentOffer(f)
  BY <1>1, <1>2, HeadOffer DEF Surroundings
<1>4. Head(rsOffer).kind = "Deleted"
  BY <1>1, <1>2, HeadOffer DEF Surroundings
<1>5. rsOffer'[i] = f
  <2>1. DOMAIN <<f>> = {1} /\ <<f>>[1] = f
    OBVIOUS
  <2>2. QED
    BY <1>1, <1>3, <2>1
<1>6. Live(f.rs.uid)
  BY <1>3 DEF CurrentOffer
<1>7. rsets[Head(rsOffer).rs.uid].phase = "gone"
  BY <1>1, <1>4, TailIs DEF GoneForGood
<1>8. QED
  BY <1>5, <1>6, <1>7 DEF Live

LEMMA UntoldStays ==
  ASSUME TypeOK, Filed(t), Surroundings, [Next]_vars, NEW u \in UID, NeverToldAgain(u),
         \A s \in Known(t') : s.uid = u => s.failure = "none"
  PROVE  NeverToldAgain(u)'
<1>1. ctxDone'
  BY CtxStays DEF NeverToldAgain
<1>2. \A i \in DOMAIN rsOffer' : \E j \in DOMAIN rsOffer : rsOffer'[i] = rsOffer[j]
  BY OffersShrink DEF NeverToldAgain
<1>3. QED
  BY <1>1, <1>2 DEF NeverToldAgain, Known

\* A failure that was charged and has not ended is not charged again, and its
\* record is kept for as long as something might tell of it again.
LEMMA ChargesStep ==
  ASSUME TypeOK, Surroundings, Bookkeeping, GoneForGood, HistoryType, ChargedAreReported,
         [Next]_vars, NEW u \in charged \ Absolved
  PROVE  u \notin Charged /\ (u \in t'.reported \/ NeverToldAgain(u)')
<1>0. Filed(t) /\ u \in UID /\ t \in Tracker /\ (u \in t.reported \/ NeverToldAgain(u))
  BY DEF Bookkeeping, HistoryType, TypeOK, ChargedAreReported
<1>1. ~ HandleResourceDeleted
  BY <1>0, DeletionIs DEF Absolved
<1>2. ASSUME Reports(t, t') \subseteq {m \in Reports(t, t') : Nobodys(m)},
             t'.reported = t.reported, t'.known = t.known
      PROVE  u \notin Charged /\ (u \in t'.reported \/ NeverToldAgain(u)')
  <2>1. u \notin Charged
    BY <1>2 DEF Charged, Nobodys
  <2>2. NeverToldAgain(u) => NeverToldAgain(u)'
    BY <1>0, <1>2, UntoldStays DEF NeverToldAgain, Known
  <2>3. QED
    BY <1>0, <1>2, <2>1, <2>2
<1>3. CASE Aside
  BY <1>2, <1>3 DEF Aside
<1>4. CASE t' = t
  BY <1>2, <1>4 DEF Reports
<1>5. ASSUME NEW d \in Tracker, Entry(d),
             \/ u \in d.reported
             \/ NeverToldAgain(u) /\ \A s \in Known(d) : s.uid = u => s.failure = "none"
             \/ NeverToldAgain(u)' /\ \A s \in Known(d) : s.uid = u => s.failure = "none"
      PROVE  u \notin Charged /\ (u \in t'.reported \/ NeverToldAgain(u)')
  BY <1>0, <1>5, EntryCharges, UntoldStays
<1>6. ASSUME NEW d \in Tracker, CalmEntry(d), Entry(d)
      PROVE  u \notin Charged /\ (u \in t'.reported \/ NeverToldAgain(u)')
  BY <1>0, <1>5, <1>6 DEF CalmEntry, SameRecord, NeverToldAgain, Known
<1> DEFINE ev == Head(rsOffer)
           s == ev.rs
<1>7. ASSUME ReceiveStep
      PROVE  /\ s \in Snapshot /\ s.uid \in UID /\ NameOf[s.uid] \in Name
             /\ \E i \in DOMAIN rsOffer : rsOffer[i] = ev
             /\ ~ ctxDone /\ (ev.kind \in {"Deleted", "Unselected"} \/ s.failure = "none")
                  => s.uid \in Absolved
             /\ ctxDone => ctxDone'
             /\ \A i \in DOMAIN rsOffer' : rsOffer'[i].rs.uid # s.uid
  <2>1. rsOffer # <<>> /\ rsOffer \in Seq(Event)
    BY <1>7, ReceiveIs DEF TypeOK
  <2>2. s \in Snapshot /\ s.uid \in UID /\ NameOf[s.uid] \in Name
    BY <2>1, OfferType, ConstantsAssumption
  <2>3. ~ ctxDone => Consumed = {ev}
    BY <1>0, <1>7, ConsumedIs
  <2>4. ~ DeletionHandled
    BY <1>1, DeletionIs
  <2>5. ~ ctxDone /\ (ev.kind \in {"Deleted", "Unselected"} \/ s.failure = "none") => s.uid \in Absolved
    BY <2>3, <2>4 DEF Absolved
  <2>6. QED
    BY <1>0, <1>7, <2>1, <2>2, <2>5, TailIs, CtxStays, OthersLeft
<1>8. ASSUME NEW d \in Tracker, SnapshotEntry(d, s), Entry(d), ReceiveStep,
             ev.kind \in {"Added", "Modified"}
      PROVE  u \notin Charged /\ (u \in t'.reported \/ NeverToldAgain(u)')
  <2>1. \A r \in Known(d) : r = s \/ (r \in Known(t) /\ r.uid # s.uid)
    BY <1>0, <1>7, <1>8 DEF SnapshotEntry, Known, Filed, Tracker
  <2>2. Known(t') = Known(d)
    BY <1>0, <1>8, EntryCharges
  <2>3. CASE u = s.uid
    <3>1. ~ NeverToldAgain(u)
      BY <1>7, <1>8, <2>3 DEF NeverToldAgain
    <3>2. CASE s.failure # "none"
      BY <1>0, <1>5, <1>8, <3>1, <3>2 DEF SnapshotEntry, SameRecord
    <3>3. CASE s.failure = "none"
      <4>1. ctxDone
        BY <1>7, <1>8, <2>3, <3>3
      <4>2. \A r \in Known(d) : r.uid = u => r.failure = "none"
        BY <2>1, <2>3, <3>3
      <4>3. NeverToldAgain(u)'
        BY <1>7, <1>8, <2>2, <2>3, <4>1, <4>2 DEF NeverToldAgain, Known
      <4>4. QED
        BY <1>5, <1>8, <4>2, <4>3
    <3>4. QED
      BY <3>2, <3>3
  <2>4. CASE u # s.uid
    <3>1. u \in t.reported => u \in d.reported
      BY <1>8, <2>4 DEF SnapshotEntry, SameRecord, Cleared
    <3>2. NeverToldAgain(u) => \A r \in Known(d) : r.uid = u => r.failure = "none"
      BY <2>1, <2>4 DEF NeverToldAgain
    <3>3. QED
      BY <1>0, <1>5, <1>8, <3>1, <3>2
  <2>5. QED
    BY <2>3, <2>4
<1>9. ASSUME NEW d \in Tracker, ExitEntry(d, ev), Entry(d), ReceiveStep,
             ev.kind \in {"Deleted", "Unselected"}
      PROVE  u \notin Charged /\ (u \in t'.reported \/ NeverToldAgain(u)')
  <2>1. Known(t') = Known(d) /\ Known(d) = {r \in Known(t) : r.uid # s.uid}
    BY <1>0, <1>9, EntryCharges DEF ExitEntry
  <2>2. CASE u = s.uid
    <3>1. ctxDone
      BY <1>7, <1>9, <2>2
    <3>2. NeverToldAgain(u)'
      BY <1>7, <1>9, <2>1, <2>2, <3>1 DEF NeverToldAgain, Known
    <3>3. QED
      BY <1>5, <1>9, <2>1, <2>2, <3>2
  <2>3. CASE u # s.uid
    BY <1>0, <1>5, <1>9, <2>1, <2>3 DEF ExitEntry, Cleared, NeverToldAgain
  <2>4. QED
    BY <2>2, <2>3
<1>10. QED
  BY <1>0, <1>1, <1>3, <1>4, <1>6, <1>8, <1>9, Ways

\* What ends a failure ends the suspicion, and a suspicion only grows older.
LEMMA SinceStep ==
  ASSUME TypeOK, Surroundings, Bookkeeping, GoneForGood, ReadyIsCleared, [Next]_vars
  PROVE  /\ \A u \in Absolved : t'.since[u] = "none"
         /\ \A u \in UID : \/ t'.since[u] \in {t.since[u], "none"}
                           \/ t.since[u] = "none" /\ t'.since[u] = "young"
                           \/ t.since[u] = "young" /\ t'.since[u] = "due"
                           \/ t.since[u] = "due" /\ t'.since[u] = "ripe"
         /\ ReadyIsCleared'
<1>0. Filed(t) /\ t \in Tracker /\ t.since \in [UID -> Age]
  BY DEF Bookkeeping, TypeOK, Tracker
<1> DEFINE Older == \A u \in UID : \/ t'.since[u] \in {t.since[u], "none"}
                                   \/ t.since[u] = "none" /\ t'.since[u] = "young"
                                   \/ t.since[u] = "young" /\ t'.since[u] = "due"
                                   \/ t.since[u] = "due" /\ t'.since[u] = "ripe"
           Ready == \A s \in FailingNew(t') : t'.lastObject.ready => t'.since[s.uid] = "none"
           Ended == \A ev \in Consumed :
                      (ev.kind \in {"Deleted", "Unselected"} \/ ev.rs.failure = "none")
                        => t'.since[ev.rs.uid] = "none"
           ev == Head(rsOffer)
           s == ev.rs
<1>1. CASE HandleResourceDeleted
  <2>1. (\A u \in UID : t'.since[u] = "none") /\ t'.lastObject = None
    BY <1>1, ResetDetail
  <2>2. DeletionHandled
    BY <1>1, DeletionIs
  <2>3. FailingNew(t') = {}
    BY <2>1 DEF FailingNew
  <2>4. ReadyIsCleared'
    BY <2>3 DEF ReadyIsCleared, FailingNew, NewReplicaSet, Candidates, Known
  <2>5. QED
    BY <2>1, <2>2, <2>4 DEF Absolved
<1>2. SUFFICES ASSUME ~ HandleResourceDeleted PROVE Older /\ Ready /\ Ended
  <2>1. Ready => ReadyIsCleared'
    BY DEF ReadyIsCleared, FailingNew, NewReplicaSet, Candidates, Known
  <2>2. ASSUME ~ HandleResourceDeleted, Ready, Ended
        PROVE  \A u \in Absolved : t'.since[u] = "none"
    BY <2>2, DeletionIs DEF Absolved
  <2>3. QED
    BY <1>1, <1>2, <2>1, <2>2
<1>3. ASSUME ~ ReceiveStep PROVE Ended
  BY <1>0, <1>3, ConsumedIs
<1>4. CASE Aside /\ ~ ReceiveStep
  <2>1. FailingNew(t') = FailingNew(t) /\ t'.lastObject = t.lastObject
    BY <1>4 DEF Aside, FailingNew, NewReplicaSet, Candidates, Known
  <2>2. \A r \in FailingNew(t) : r.uid \in UID
    BY <1>0, KnownType DEF Snapshot
  <2>3. QED
    BY <1>3, <1>4, <2>1, <2>2 DEF Aside, ReadyIsCleared
<1>5. ASSUME ReceiveStep
      PROVE  s \in Snapshot /\ s.uid \in UID /\ rsOffer # <<>> /\ \A c \in Consumed : c = ev /\ ~ ctxDone
  BY <1>0, <1>5, ReceiveIs, OfferType, ConsumedIs
<1>6. CASE ReceiveStep /\ ev.kind \in {"Added", "Modified"} /\ Ignored(s) /\ t' = t
  <2>1. ctxDone
    BY <1>5, <1>6, NeverIgnored
  <2>2. QED
    BY <1>5, <1>6, <2>1 DEF ReadyIsCleared
<1>7. ASSUME NEW d \in Tracker, Entry(d)
      PROVE  /\ Ready
             /\ \A u \in UID : \/ t'.since[u] \in {d.since[u], "none"}
                               \/ /\ d.since[u] = "none" /\ t'.since[u] = "young"
                                  /\ \E r \in Known(d) : r.uid = u /\ r.failure # "none"
  BY <1>7, EntrySince
<1>8. ASSUME NEW d \in Tracker, Entry(d), CalmEntry(d), ~ ReceiveStep
      PROVE  Older /\ Ready /\ Ended
  BY <1>3, <1>7, <1>8 DEF CalmEntry, SameRecord
<1>9. ASSUME NEW d \in Tracker, Entry(d), SnapshotEntry(d, s), ReceiveStep,
             ev.kind \in {"Added", "Modified"}
      PROVE  Older /\ Ready /\ Ended
  <2>1. \A r \in Known(d) : r.uid = s.uid => r = s
    BY <1>0, <1>5, <1>9, ConstantsAssumption DEF SnapshotEntry, Known, Filed, Tracker, Entry
  <2>2. \A u \in UID : d.since[u] \in {t.since[u], "none"}
    BY <1>0, <1>5, <1>9 DEF SnapshotEntry, SameRecord, Cleared
  <2>3. s.failure = "none" => d.since[s.uid] = "none" /\ t'.since[s.uid] = "none"
    <3>1. s.failure = "none" => d.since[s.uid] = "none"
      BY <1>0, <1>5, <1>9 DEF SnapshotEntry, Cleared
    <3>2. QED
      BY <1>5, <1>7, <1>9, <2>1, <3>1
  <2>4. Ended
    BY <1>5, <1>9, <2>3
  <2>5. Older
    <3>1. SUFFICES ASSUME NEW u \in UID
                   PROVE  \/ t'.since[u] \in {t.since[u], "none"}
                          \/ t.since[u] = "none" /\ t'.since[u] = "young"
      OBVIOUS
    <3>2. CASE s.failure # "none" \/ u # s.uid
      <4>1. d.since[u] = t.since[u]
        BY <1>0, <1>5, <1>9, <3>2 DEF SnapshotEntry, SameRecord, Cleared
      <4>2. QED
        BY <1>7, <1>9, <4>1
    <3>3. CASE s.failure = "none" /\ u = s.uid
      BY <2>3, <3>3
    <3>4. QED
      BY <3>2, <3>3
  <2>6. QED
    BY <1>7, <1>9, <2>4, <2>5
<1>10. ASSUME NEW d \in Tracker, Entry(d), ExitEntry(d, ev), ReceiveStep
       PROVE  Older /\ Ready /\ Ended
  <2>1. \A r \in Known(d) : r.uid # s.uid
    BY <1>10 DEF ExitEntry
  <2>2. \A u \in UID : d.since[u] = IF u = s.uid THEN "none" ELSE t.since[u]
    BY <1>0, <1>5, <1>10 DEF ExitEntry, Cleared
  <2>3. t'.since[s.uid] = "none"
    BY <1>5, <1>7, <1>10, <2>1, <2>2
  <2>4. QED
    BY <1>5, <1>7, <1>10, <2>2, <2>3
<1>11. QED
  BY <1>0, <1>2, <1>4, <1>6, <1>8, <1>9, <1>10, Ways

LEMMA SuspicionsStep ==
  ASSUME TypeOK, Surroundings, Bookkeeping, GoneForGood, HistoryType, ReadyIsCleared, Suspicions,
         HistoryNext
  PROVE  Suspicions'
<1>1. [Next]_vars
  BY DEF HistoryNext
<1>2. SUFFICES ASSUME NEW u \in UID
               PROVE  /\ t'.since[u] = "young" => suspicion'[u] = "seen"
                      /\ t'.since[u] \in {"due", "ripe"} => suspicion'[u] = "held"
  BY DEF Suspicions
<1>3. /\ u \in Absolved => t'.since[u] = "none"
      /\ \/ t'.since[u] \in {t.since[u], "none"}
         \/ t.since[u] = "none" /\ t'.since[u] = "young"
         \/ t.since[u] = "young" /\ t'.since[u] = "due"
         \/ t.since[u] = "due" /\ t'.since[u] = "ripe"
  BY <1>1, SinceStep
<1>4. u \in Checked <=> t'.since[u] = "young" /\ t.since[u] = "none"
  BY DEF Checked
<1>5. suspicion'[u] = CASE u \in Checked                               -> "seen"
                        [] u \notin Checked /\ u \in Absolved          -> "none"
                        [] u \notin Checked \cup Absolved /\ t'.since[u] = "due"  -> "held"
                        [] u \notin Checked \cup Absolved /\ t'.since[u] # "due" -> suspicion[u]
  BY DEF HistoryNext
<1>6. CASE u \in Checked
  BY <1>4, <1>5, <1>6
<1>7. CASE u \in Absolved
  BY <1>3, <1>7
<1>8. CASE u \notin Checked /\ u \notin Absolved
  <2>1. t'.since[u] = "due" => suspicion'[u] = "held"
    BY <1>5, <1>8
  <2>2. t'.since[u] # "due" => suspicion'[u] = suspicion[u]
    BY <1>5, <1>8
  <2>3. QED
    BY <1>3, <1>4, <1>8, <2>1, <2>2 DEF Suspicions
<1>9. QED
  BY <1>6, <1>7, <1>8

\* A fatal quota failure was suspected, held and not absolved in between.
LEMMA FatalStep ==
  ASSUME TypeOK, Surroundings, Bookkeeping, GoneForGood, ReadyIsCleared, Suspicions, [Next]_vars,
         NEW m \in Reports(t, t'), m.mode = "fatal",
         NEW r \in Known(t'), r.uid = m.from, r.failure = "quota"
  PROVE  suspicion[m.from] = "held" /\ m.from \notin Absolved
<1>0. Filed(t) /\ t \in Tracker /\ t.since \in [UID -> Age]
  BY DEF Bookkeeping, TypeOK, Tracker
<1>1. ~ HandleResourceDeleted
  BY ResetDetail
<1>2. ~ Aside /\ t' # t
  BY DEF Aside, Nobodys, Reports
<1>3. PICK d \in Tracker : /\ Entry(d)
                           /\ \/ CalmEntry(d)
                              \/ ReceiveStep /\ SnapshotEntry(d, Head(rsOffer).rs)
                              \/ ReceiveStep /\ ExitEntry(d, Head(rsOffer))
  BY <1>0, <1>1, <1>2, Ways
<1>4. PICK s \in FailingNew(d) : /\ m.from = s.uid
                                 /\ Reported(d, t', s)
                                 /\ s.failure = "quota" => d.since[s.uid] \in {"due", "ripe"}
  <2>1. ~ Nobodys(m)
    BY DEF Nobodys
  <2>2. QED
    BY <1>3, <2>1, JudgedReports DEF Entry
<1>5. s \in Known(d) /\ r \in Known(d) /\ s.uid \in UID
  <2>1. Known(t') = Known(d)
    BY <1>3 DEF Entry, SameView, Known
  <2>2. QED
    BY <1>4, <2>1, KnownType DEF Snapshot
<1>6. s = r
  BY <1>3, <1>4, <1>5 DEF Entry, Filed, Known
<1>7. d.since[s.uid] \in {"due", "ripe"} /\ t'.since = d.since
  BY <1>4, <1>6 DEF Reported
<1>8. t.since[s.uid] = d.since[s.uid]
  <2>1. CASE CalmEntry(d)
    BY <2>1 DEF CalmEntry, SameRecord
  <2>2. CASE ReceiveStep /\ SnapshotEntry(d, Head(rsOffer).rs)
    BY <1>0, <1>5, <1>7, <2>2 DEF SnapshotEntry, SameRecord, Cleared
  <2>3. CASE ReceiveStep /\ ExitEntry(d, Head(rsOffer))
    BY <1>0, <1>5, <1>7, <2>3 DEF ExitEntry, Cleared
  <2>4. QED
    BY <1>3, <2>1, <2>2, <2>3
<1>9. \A u \in Absolved : t'.since[u] = "none"
  BY SinceStep
<1>10. QED
  BY <1>4, <1>5, <1>7, <1>8, <1>9 DEF Suspicions

-----------------------------------------------------------------------------
(***************************************************************************)
(* The invariant of the history, and what it is for.                       *)
(***************************************************************************)
HInv ==
  /\ IInv
  /\ HistoryType
  /\ GoneForGood
  /\ KnownIsComplete
  /\ ChargedAreReported
  /\ ReadyIsCleared
  /\ Suspicions

LEMMA HistoryInductiveInit == HistoryInit => HInv
<1> SUFFICES ASSUME HistoryInit PROVE HInv
  OBVIOUS
<1>1. IInv /\ GoneForGood
  BY InitInductive, GoneInit DEF HistoryInit
<1>2. seen = {} /\ t.lastObject = None /\ \A u \in UID : t.since[u] = "none"
  BY DEF HistoryInit, Init
<1>3. QED
  BY <1>1, <1>2 DEF HInv, HistoryInit, HistoryType, KnownIsComplete, ChargedAreReported,
                    ReadyIsCleared, Suspicions, FailingNew

LEMMA ChargedAndKept ==
  ASSUME HInv, HistoryNext
  PROVE  ChargedAreReported' /\ HistoryType'
<1>0. /\ TypeOK /\ Surroundings /\ Bookkeeping /\ GoneForGood /\ HistoryType /\ ChargedAreReported
      /\ ReadyIsCleared /\ Suspicions /\ Filed(t) /\ [Next]_vars
  BY DEF HInv, IInv, HistoryNext, Bookkeeping
<1>1. \A u \in charged \ Absolved : u \in t'.reported \/ NeverToldAgain(u)'
  BY <1>0, ChargesStep
<1>2. \A u \in Charged : u \in t'.reported /\ u \in UID
  <2>1. SUFFICES ASSUME NEW u \in Charged PROVE u \in t'.reported /\ u \in UID
    OBVIOUS
  <2>2. PICK m \in Reports(t, t') : m.from = u /\ u # None
    BY DEF Charged
  <2>3. ~ HandleResourceDeleted /\ ~ Aside /\ t' # t
    BY <1>0, <2>2, ResetDetail DEF Aside, Nobodys, Reports
  <2>4. PICK d \in Tracker : Entry(d)
    BY <1>0, <2>3, Ways
  <2>5. PICK s \in FailingNew(d) : u = s.uid /\ Reported(d, t', s)
    BY <2>2, <2>4, JudgedReports DEF Entry, Nobodys
  <2>6. u \in UID
    BY <2>5, KnownType DEF Snapshot
  <2>7. QED
    BY <2>5, <2>6 DEF Reported
<1>3. charged' = (charged \ Absolved) \cup Charged
  BY DEF HistoryNext
<1>4. ChargedAreReported'
  BY <1>1, <1>2, <1>3 DEF ChargedAreReported
<1>5. suspicion' \in [UID -> {"none", "seen", "held"}]
  BY <1>0 DEF HistoryNext, HistoryType
<1>6. QED
  BY <1>0, <1>2, <1>3, <1>4, <1>5 DEF HistoryType

LEMMA HistoryInductiveStep ==
  HInv /\ [HistoryNext]_<<vars, history>> => HInv'
<1>1. ASSUME HInv, HistoryNext
      PROVE  HInv'
  <2>1. [Next]_vars
    BY <1>1 DEF HistoryNext
  <2>2. IInv'
    BY <1>1, <2>1, StepInductive DEF HInv
  <2>3. ChargedAreReported' /\ HistoryType'
    BY <1>1, ChargedAndKept
  <2>4. GoneForGood'
    BY <1>1, <2>1, GoneStep DEF HInv, IInv, Bookkeeping
  <2>5. KnownIsComplete'
    <3>1. wiped => wiped'
      BY <1>1 DEF HistoryNext
    <3>2. HandleResourceDeleted => wiped'
      BY <1>1, <2>1, DeletionIs DEF HInv, IInv, HistoryNext
    <3>3. QED
      BY <1>1, <2>1, <3>1, <3>2, CompleteStep DEF HInv, IInv
  <2>6. ReadyIsCleared'
    BY <1>1, <2>1, SinceStep DEF HInv, IInv
  <2>7. Suspicions'
    BY <1>1, SuspicionsStep DEF HInv, IInv
  <2>8. QED
    BY <2>2, <2>3, <2>4, <2>5, <2>6, <2>7 DEF HInv
<1>2. ASSUME HInv, UNCHANGED <<vars, history>>
      PROVE  HInv'
  <2>1. IInv' /\ GoneForGood' /\ KnownIsComplete' /\ ReadyIsCleared'
    <3>1. [Next]_vars /\ ~ HandleResourceDeleted
      <4>1. UNCHANGED vars
        BY <1>2
      <4>2. ~ HandleResourceDeleted
        BY <1>2, DeletionIs DEF HInv, IInv, DeletionHandled, vars
      <4>3. QED
        BY <4>1, <4>2
    <3>2. IInv'
      BY <1>2, <3>1, StepInductive DEF HInv
    <3>3. wiped' = wiped
      BY <1>2 DEF history
    <3>4. QED
      BY <1>2, <3>1, <3>2, <3>3, GoneStep, CompleteStep, SinceStep DEF HInv, IInv, Bookkeeping
  <2>2. HistoryType' /\ ChargedAreReported' /\ Suspicions'
    BY <1>2 DEF HInv, HistoryType, ChargedAreReported, Suspicions, NeverToldAgain, Known, vars, history
  <2>3. QED
    BY <2>1, <2>2 DEF HInv
<1>3. QED
  BY <1>1, <1>2

LEMMA HistoryInductive == HistorySpec => []HInv
BY HistoryInductiveInit, HistoryInductiveStep, PTL DEF HistorySpec

\* Until the Deployment is deleted, no ReplicaSet its informer has shown is
\* missing from the map, however its events and its replacements interleave.
THEOREM NoReplicaSetIsLost == HistorySpec => []KnownIsComplete
<1>1. HInv => KnownIsComplete
  BY DEF HInv
<1>2. QED
  BY <1>1, HistoryInductive, PTL

\* The error budget is charged once for each failure, whatever repeats it.
THEOREM NoDoubleCharge == HistorySpec => ChargedOncePerFailure
<1>1. HInv /\ [HistoryNext]_<<vars, history>> =>
        [Charged \cap (charged \ Absolved) = {}]_<<vars, history>>
  <2> SUFFICES ASSUME HInv, HistoryNext
               PROVE  Charged \cap (charged \ Absolved) = {}
    OBVIOUS
  <2>1. [Next]_vars
    BY DEF HistoryNext
  <2>2. \A u \in charged \ Absolved : u \notin Charged
    BY <2>1, ChargesStep DEF HInv, IInv
  <2>3. QED
    BY <2>2
<1>2. QED
  BY <1>1, HistoryInductive, PTL DEF HistorySpec, ChargedOncePerFailure

\* No quota failure is fatal before it has been confirmed.
THEOREM NoHastyVerdict == HistorySpec => FatalQuotaIsConfirmed
<1> DEFINE Confirmed == \A m \in Reports(t, t') :
             (m.mode = "fatal" /\ \E s \in Known(t') : s.uid = m.from /\ s.failure = "quota")
               => suspicion[m.from] = "held" /\ m.from \notin Absolved
<1>1. HInv /\ [HistoryNext]_<<vars, history>> => [Confirmed]_<<vars, history>>
  <2> SUFFICES ASSUME HInv, HistoryNext PROVE Confirmed
    OBVIOUS
  <2>1. [Next]_vars
    BY DEF HistoryNext
  <2>2. QED
    BY <2>1, FatalStep DEF HInv, IInv
<1>2. QED
  BY <1>1, HistoryInductive, PTL DEF HistorySpec, FatalQuotaIsConfirmed

-----------------------------------------------------------------------------
(***************************************************************************)
(* PART 3.  The consumer's verdict is always about the tracker as it is,   *)
(* and its user sees the budget kept (DeploymentReadiness).                *)
(***************************************************************************)

-----------------------------------------------------------------------------
(***************************************************************************)
(* What the tracker says, and what it is while it says so.                 *)
(***************************************************************************)
IsReady(d) == d.lastObject # None /\ d.lastObject.ready

\* A message that is not sent yet is still true.
Truthful(d) ==
  \A i \in DOMAIN d.out :
    /\ d.out[i].ch = "Failed" => d.State = "Failed" /\ Attributable(d)
    /\ d.out[i].ch = "Ready" => IsReady(d)

Unfailed(d) == \A i \in DOMAIN d.out : d.out[i].ch # "Failed"

\* A tracker that has seen a ready Deployment does nothing before its consumer
\* has been told so.
Awaited(d) == d.State = "Ready" \/ IsReady(d) => d.out # <<>> /\ Head(d.out).ch = "Ready"

LEMMA AppendIs ==
  ASSUME NEW S, NEW q \in Seq(S), NEW m \in S
  PROVE  /\ DOMAIN Append(q, m) = DOMAIN q \cup {Len(q) + 1}
         /\ Append(q, m)[Len(q) + 1] = m
         /\ \A i \in DOMAIN q : Append(q, m)[i] = q[i]
         /\ Append(q, m) # <<>>
         /\ q # <<>> => Head(Append(q, m)) = Head(q)
         /\ q = <<>> => Head(Append(q, m)) = m
<1> DEFINE a == Append(q, m)
<1>1. a \in Seq(S) /\ Len(a) = Len(q) + 1 /\ DOMAIN a = 1 .. Len(q) + 1
  OBVIOUS
<1>2. DOMAIN q = 1 .. Len(q) /\ Len(q) \in Nat
  OBVIOUS
<1>3. \A i \in 1 .. Len(q) + 1 : a[i] = IF i = Len(q) + 1 THEN m ELSE q[i]
  OBVIOUS
<1>4. q # <<>> => Head(a) = Head(q)
  OBVIOUS
<1>5. q = <<>> => Head(a) = m
  OBVIOUS
<1> HIDE DEF a
<1>6. a # <<>>
  <2>1. Len(q) + 1 \in DOMAIN a
    BY <1>1, <1>2
  <2>2. DOMAIN <<>> = {}
    OBVIOUS
  <2>3. QED
    BY <2>1, <2>2
<1>7. QED
  BY <1>1, <1>2, <1>3, <1>4, <1>5, <1>6 DEF a

LEMMA SendTold ==
  ASSUME NEW d \in Tracker, NEW m \in Message, Truthful(d), Awaited(d),
         m.ch \notin {"Failed", "Ready"}
  PROVE  /\ Truthful(Send(d, m)) /\ Awaited(Send(d, m))
         /\ Unfailed(d) => Unfailed(Send(d, m))
<1> DEFINE e == Send(d, m)
<1>1. /\ e.out = Append(d.out, m) /\ d.out \in Seq(Message)
      /\ SameView(d, e) /\ e.State = d.State
      /\ e.reported = d.reported /\ e.failedFrom = d.failedFrom
  BY SendOut, SendIs DEF Tracker
<1>2. IsReady(e) = IsReady(d) /\ (Attributable(d) => Attributable(e))
  BY <1>1 DEF SameView, IsReady, Attributable, Known
<1> HIDE DEF e
<1>3. QED
  BY <1>1, <1>2, AppendIs DEF Truthful, Awaited, Unfailed, e

\* The one message of handleDeploymentState.
LEMMA StateTold ==
  ASSUME NEW d \in Tracker, d.out = <<>>, NEW o \in Object
  PROVE  LET e == HandleDeploymentState(d, o)
         IN /\ Truthful(e) /\ Unfailed(e)
            /\ Awaited(d) => Awaited(e)
<1> DEFINE e == HandleDeploymentState(d, o)
           f == [d EXCEPT !.lastObject = o]
           channel == StatusChannel(d.State, o.ready)
           ch == CHOOSE c \in channel : TRUE
           g == [f EXCEPT !.State = IF ch = "Status" THEN @ ELSE ch]
<1>1. d.State \in TrackerState /\ o.ready \in BOOLEAN /\ o # None
  BY NoneAssumption DEF Tracker, Object
<1>2. f \in Tracker /\ f.out = <<>> /\ f.State = d.State /\ f.lastObject = o
  BY DEF Tracker
<1>3. CASE channel = {}
  <2>1. e = f
    BY <1>3 DEF HandleDeploymentState
  <2>2. d.State = "Ready"
    BY <1>1, <1>3, StatusChannelIs
  <2> HIDE DEF e, f
  <2>3. ~ Awaited(d)
    BY <2>2 DEF Awaited
  <2>4. QED
    BY <1>2, <2>1, <2>3 DEF Truthful, Unfailed, e
<1>4. CASE channel # {}
  <2>1. ch \in {"Ready", "Added", "Status"} /\ (ch = "Ready" <=> o.ready) /\ d.State # "Ready"
    BY <1>1, <1>4 DEF StatusChannel, TrackerState
  <2>2. g \in Tracker /\ g.out = <<>> /\ g.lastObject = o
        /\ g.State = IF ch = "Status" THEN d.State ELSE ch
    BY <1>2, <2>1 DEF Tracker, TrackerState
  <2>3. Msg(ch) \in Message /\ Msg(ch).ch = ch
    BY <2>1, MsgType DEF Channel, Msg
  <2>4. e = Send(g, Msg(ch))
    BY <1>4 DEF HandleDeploymentState
  <2> HIDE DEF e, f, g, ch, channel
  <2>5. e.State = g.State /\ e.lastObject = o /\ e.out = Append(<<>>, Msg(ch))
    BY <2>2, <2>3, <2>4, SendOut, SendIs DEF SameView
  <2> DEFINE m == Msg(ch)
  <2>6. <<>> \in Seq(Message) /\ DOMAIN <<>> = {} /\ Len(<<>>) = 0
    OBVIOUS
  <2> HIDE DEF m
  <2>7. DOMAIN e.out = {1} /\ e.out[1] = m /\ e.out # <<>> /\ Head(e.out) = m
    BY <2>3, <2>5, <2>6, AppendIs DEF m
  <2>8. m.ch = ch /\ IsReady(e) = o.ready
    BY <1>1, <2>3, <2>5 DEF m, IsReady
  <2>9. QED
    BY <2>1, <2>2, <2>5, <2>7, <2>8 DEF Truthful, Unfailed, Awaited, e
<1>5. QED
  BY <1>3, <1>4

\* handleNewReplicaSetFailure reports nothing of a ready Deployment, and a
\* failure only when it is one.
LEMMA JudgeTold ==
  ASSUME NEW d \in Tracker, NEW c \in BOOLEAN, Truthful(d), Unfailed(d), Awaited(d)
  PROVE  LET e == HandleNewReplicaSetFailure(d, c)
         IN Truthful(e) /\ Awaited(e)
<1> DEFINE e == HandleNewReplicaSetFailure(d, c)
<1>1. CASE FailingNew(d) = {}
  BY <1>1 DEF HandleNewReplicaSetFailure
<1>2. CASE FailingNew(d) # {}
  <2>1. PICK s \in FailingNew(d) : e = JudgeNewFailure(d, s, c)
    BY <1>2 DEF HandleNewReplicaSetFailure
  <2>2. /\ s \in Snapshot /\ s.uid \in UID /\ s \in Known(d) /\ s.failure # "none"
        /\ d.lastObject # None /\ d.lastObject.ready \in BOOLEAN
    BY <1>2, KnownType DEF Snapshot, Object, FailingNew
  <2> HIDE DEF e
  <2>3. CASE d.lastObject.ready
    <3>1. e = Absolve(d, s.uid)
      BY <2>1, <2>2, <2>3 DEF JudgeNewFailure
    <3>2. /\ e.out = d.out /\ SameView(d, e)
          /\ e.State = d.State \/ (d.State = "Failed" /\ e.State = "Added")
      BY <2>2, <3>1, AbsolveIs, AbsolveOut
    <3>3. IsReady(d) /\ IsReady(e)
      BY <2>2, <2>3, <3>2 DEF IsReady, SameView
    <3>4. QED
      BY <3>2, <3>3 DEF Truthful, Unfailed, Awaited, e
  <2>4. CASE ~ d.lastObject.ready /\ s.uid \in d.reported
    BY <2>1, <2>2, <2>4 DEF JudgeNewFailure, e
  <2>5. CASE ~ d.lastObject.ready /\ s.uid \notin d.reported /\ Undecided(d, s, c)
    <3>1. e = Suspect(d, s.uid)
      BY <2>1, <2>2, <2>5 DEF JudgeNewFailure
    <3>2. SameView(d, e) /\ e.out = d.out /\ e.State = d.State
      BY <2>2, <3>1, SuspectIs DEF Suspect, Tracker
    <3>3. IsReady(e) = IsReady(d)
      BY <3>2 DEF IsReady, SameView
    <3>4. QED
      BY <3>2, <3>3 DEF Truthful, Unfailed, Awaited, e
  <2>6. CASE ~ d.lastObject.ready /\ s.uid \notin d.reported /\ ~ Undecided(d, s, c)
    <3> DEFINE u == s.uid
               mode == ReplicaSetFailureMode(s.failure, c)
               m == [ch |-> "Failed", from |-> u, mode |-> mode]
               g == [[d EXCEPT !.reported = @ \cup {s.uid}] EXCEPT !.State = "Failed", !.failedFrom = u]
    <3>1. m \in Message /\ m.ch = "Failed"
      BY <2>2 DEF Message, Channel, Mode, ReplicaSetFailureMode
    <3>2. g \in Tracker /\ g.out = d.out /\ g.State = "Failed" /\ g.lastObject = d.lastObject
      BY <2>2 DEF Tracker, TrackerState
    <3>3. e = Send(g, m) /\ e = ReportNewFailure(d, s, c)
      BY <2>1, <2>2, <2>6 DEF JudgeNewFailure, ReportNewFailure, HandleResourceFailure
    <3> HIDE DEF g, m
    <3>4. e.out = Append(d.out, m) /\ e.State = "Failed" /\ e.lastObject = d.lastObject
      BY <3>1, <3>2, <3>3, SendOut, SendIs DEF SameView
    <3>5. Attributable(e)
      <4>1. e.known = d.known /\ e.reported = d.reported \cup {s.uid} /\ e.failedFrom = s.uid
        BY <2>2, <3>3, ReportIs DEF SameView
      <4>2. QED
        BY <2>2, <4>1 DEF Attributable, Known
    <3>6. ~ IsReady(d) /\ ~ IsReady(e)
      BY <2>6, <3>4 DEF IsReady
    <3>7. d.out \in Seq(Message)
      BY DEF Tracker
    <3>8. Truthful(e)
      BY <3>1, <3>4, <3>5, <3>6, <3>7, AppendIs DEF Truthful
    <3>9. Awaited(e)
      BY <3>4, <3>6 DEF Awaited
    <3>10. QED
      BY <3>8, <3>9 DEF e
  <2>7. QED
    BY <2>2, <2>3, <2>4, <2>5, <2>6
<1>3. QED
  BY <1>1, <1>2

LEMMA Silent ==
  ASSUME NEW d \in Tracker, d.out = <<>>
  PROVE  /\ Truthful(d) /\ Unfailed(d)
         /\ Awaited(d) <=> d.State # "Ready" /\ ~ IsReady(d)
BY DEF Truthful, Unfailed, Awaited

LEMMA BecomeTold ==
  ASSUME NEW d \in Tracker, Truthful(d), Unfailed(d), Awaited(d),
         \E c \in BOOLEAN : Become(HandleNewReplicaSetFailure(d, c))
  PROVE  Truthful(t') /\ Awaited(t')
<1>1. PICK c \in BOOLEAN : t' = HandleNewReplicaSetFailure(d, c)
  BY DEF Become
<1>2. QED
  BY <1>1, JudgeTold

\* The entries that knownReplicaSets gains and loses change none of this.
LEMMA KnownTold ==
  ASSUME NEW d \in Tracker, d.out = <<>>, Awaited(d), NEW s \in Snapshot
  PROVE  LET e == AddKnown(d, s)
             f == Absolve(DropKnown(d, s), s.uid)
         IN /\ e \in Tracker /\ e.out = <<>> /\ Awaited(e)
            /\ f \in Tracker /\ f.out = <<>> /\ Awaited(f)
<1> DEFINE k == [d EXCEPT !.known[NameOf[s.uid]] = s]
           k2 == DropKnown(d, s)
<1>1. s.uid \in UID /\ NameOf[s.uid] \in Name /\ d.State # "Ready" /\ ~ IsReady(d)
  BY Silent, ConstantsAssumption DEF Snapshot
<1>2. k \in Tracker /\ k.out = <<>> /\ k.State = d.State /\ k.lastObject = d.lastObject
  BY <1>1 DEF Tracker
<1>3. k2 \in Tracker /\ k2.out = <<>> /\ k2.State = d.State /\ k2.lastObject = d.lastObject
  BY <1>1, DropKnownType DEF Tracker, DropKnown
<1>4. AddKnown(d, s) = IF s.failure # "none" THEN k ELSE Absolve(k, s.uid)
  BY DEF AddKnown, RearmReplicaSetFailure
<1> HIDE DEF k, k2
<1>5. ASSUME NEW g \in Tracker, g.out = <<>>, g.State = d.State, g.lastObject = d.lastObject
      PROVE  /\ g \in Tracker /\ g.out = <<>> /\ Awaited(g)
             /\ Absolve(g, s.uid) \in Tracker /\ Absolve(g, s.uid).out = <<>>
             /\ Awaited(Absolve(g, s.uid))
  <2> DEFINE a == Absolve(g, s.uid)
  <2>1. a \in Tracker /\ SameView(g, a)
    BY <1>1, <1>5, AbsolveType, AbsolveIs
  <2>2. a.out = g.out /\ (a.State = g.State \/ (g.State = "Failed" /\ a.State = "Added"))
    BY <1>1, <1>5, AbsolveOut
  <2> HIDE DEF a
  <2>3. a.out = <<>> /\ a.lastObject = d.lastObject /\ a.State # "Ready"
    BY <1>1, <1>5, <2>1, <2>2 DEF SameView
  <2>4. QED
    BY <1>1, <1>5, <2>1, <2>3 DEF Awaited, IsReady, a
<1>6. QED
  BY <1>2, <1>3, <1>4, <1>5 DEF k2

LEMMA SentTold ==
  ASSUME TypeOK, Truthful(t), Awaited(t), Sent, Head(t.out).ch # "Ready"
  PROVE  Truthful(t') /\ Awaited(t')
<1>1. t \in Tracker /\ t.out \in Seq(Message) /\ t.out # <<>>
  BY DEF TypeOK, Sent, Tracker
<1> DEFINE q == Tail(t.out)
<1>2. \A i \in DOMAIN q : i + 1 \in DOMAIN t.out /\ q[i] = t.out[i + 1]
  BY <1>1
<1>3. t' = [t EXCEPT !.out = q]
  BY DEF Sent
<1> HIDE DEF q
<1>4. /\ t'.out = q /\ t'.State = t.State /\ t'.lastObject = t.lastObject
      /\ t'.known = t.known /\ t'.reported = t.reported /\ t'.failedFrom = t.failedFrom
  BY <1>1, <1>3 DEF Tracker
<1>5. IsReady(t') = IsReady(t) /\ (Attributable(t) => Attributable(t'))
  BY <1>4 DEF IsReady, Attributable, Known
<1>6. QED
  BY <1>2, <1>4, <1>5 DEF Truthful, Awaited

LEMMA ResetTold ==
  ASSUME TypeOK, HandleResourceDeleted
  PROVE  Truthful(t') /\ Awaited(t')
<1> DEFINE g == [t EXCEPT !.State = "Deleted", !.lastObject = None,
                          !.known = [n \in Name |-> None], !.deleted = {},
                          !.reported = {}, !.since = [u \in UID |-> "none"],
                          !.failedFrom = None]
           m == Msg("Status")
<1>1. t \in Tracker /\ t.out = <<>> /\ t' = Send(g, m)
  BY DEF TypeOK, HandleResourceDeleted, Selecting, Become, ResetOnDelete
<1>2. g \in Tracker /\ g.out = <<>> /\ g.State = "Deleted" /\ g.lastObject = None
  BY <1>1 DEF Tracker, TrackerState, Age
<1>3. m \in Message /\ m.ch = "Status"
  BY MsgType DEF Channel, Msg
<1> HIDE DEF g, m
<1>4. Truthful(g) /\ Awaited(g)
  BY <1>2, Silent DEF IsReady
<1>5. QED
  BY <1>1, <1>2, <1>3, <1>4, SendTold

LEMMA EventTold ==
  ASSUME TypeOK, HandleResourceFailed, Awaited(t)
  PROVE  Truthful(t') /\ Awaited(t')
<1>0. t \in Tracker /\ t.out = <<>>
  BY DEF TypeOK, HandleResourceFailed, Selecting
<1>1. CASE t.lastObject = None
  BY <1>0, <1>1, Silent DEF HandleResourceFailed
<1>2. CASE t.lastObject # None
  <2> DEFINE g == [t EXCEPT !.State = "Failed", !.failedFrom = None]
             m == [ch |-> "Failed", from |-> None, mode |-> "counted"]
  <2>1. /\ g \in Tracker /\ g.out = <<>> /\ g.State = "Failed" /\ g.failedFrom = None
        /\ g.lastObject = t.lastObject
    BY <1>0 DEF Tracker, TrackerState
  <2>2. m \in Message /\ m.ch = "Failed"
    BY DEF Message, Channel, Mode
  <2>3. t' = Send(g, m)
    BY <1>2 DEF HandleResourceFailed, HandleResourceFailure
  <2>4. ~ IsReady(t)
    BY <1>0, Silent
  <2> HIDE DEF g, m
  <2>5. /\ t'.out = Append(<<>>, m) /\ t'.State = "Failed" /\ t'.failedFrom = None
        /\ t'.lastObject = t.lastObject
    BY <2>1, <2>2, <2>3, SendOut, SendIs DEF SameView
  <2>6. <<>> \in Seq(Message) /\ DOMAIN <<>> = {} /\ Len(<<>>) = 0
    OBVIOUS
  <2>7. DOMAIN t'.out = {1} /\ t'.out[1] = m
    BY <2>2, <2>5, <2>6, AppendIs
  <2>8. ~ IsReady(t') /\ Attributable(t')
    BY <2>4, <2>5 DEF IsReady, Attributable
  <2>9. QED
    BY <2>2, <2>5, <2>7, <2>8 DEF Truthful, Awaited
<1>3. QED
  BY <1>1, <1>2

LEMMA ReceiveTold ==
  ASSUME TypeOK, Truthful(t), Awaited(t),
         \/ HandleReplicaSetAdded \/ HandleReplicaSetModified
         \/ HandleReplicaSetDeleted \/ HandleReplicaSetUnselected
  PROVE  Truthful(t') /\ Awaited(t')
<1> DEFINE s == Head(rsOffer).rs
<1>1. t \in Tracker /\ t.out = <<>> /\ s \in Snapshot /\ s.uid \in UID
  BY OfferType DEF TypeOK, HandleReplicaSetAdded, HandleReplicaSetModified, HandleReplicaSetDeleted,
     HandleReplicaSetUnselected, Receive, Selecting
<1>2. ASSUME NEW d \in Tracker, d.out = <<>>, Awaited(d),
             \E c \in BOOLEAN : Become(HandleNewReplicaSetFailure(d, c))
      PROVE  Truthful(t') /\ Awaited(t')
  BY <1>2, Silent, BecomeTold
<1>3. ASSUME t' = t
      PROVE  Truthful(t') /\ Awaited(t')
  BY <1>3
<1>4. CASE HandleReplicaSetAdded
  <2> DEFINE d == AddKnown(t, s)
             announced == IF d.lastObject = None THEN d ELSE Send(d, Msg("AddedReplicaSet"))
  <2>1. d \in Tracker /\ d.out = <<>> /\ Awaited(d)
    BY <1>1, KnownTold
  <2>2. \/ t' = t
        \/ \E c \in BOOLEAN : Become(HandleNewReplicaSetFailure(announced, c))
    BY <1>4 DEF HandleReplicaSetAdded, Become
  <2> HIDE DEF d
  <2>3. announced \in Tracker /\ Truthful(announced) /\ Unfailed(announced) /\ Awaited(announced)
    <3>1. Truthful(d) /\ Unfailed(d)
      BY <2>1, Silent
    <3>2. Msg("AddedReplicaSet") \in Message /\ Msg("AddedReplicaSet").ch = "AddedReplicaSet"
      BY MsgType DEF Channel, Msg
    <3>3. QED
      BY <2>1, <3>1, <3>2, SendTold, SendType
  <2> HIDE DEF announced
  <2>4. QED
    BY <1>3, <2>2, <2>3, BecomeTold
<1>5. CASE HandleReplicaSetModified
  <2>1. \/ t' = t
        \/ \E c \in BOOLEAN : Become(HandleNewReplicaSetFailure(AddKnown(t, s), c))
    BY <1>5 DEF HandleReplicaSetModified, Become
  <2>2. QED
    BY <1>1, <1>2, <1>3, <2>1, KnownTold
<1>6. CASE HandleReplicaSetDeleted
  <2> DEFINE f == [t EXCEPT !.deleted = @ \cup {s.uid}]
  <2>1. f \in Tracker /\ f.out = <<>> /\ f.State = t.State /\ f.lastObject = t.lastObject
    BY <1>1 DEF Tracker
  <2>2. \E c \in BOOLEAN : Become(HandleNewReplicaSetFailure(Absolve(DropKnown(f, s), s.uid), c))
    BY <1>6 DEF HandleReplicaSetDeleted
  <2> HIDE DEF f
  <2>3. Awaited(f)
    BY <1>1, <2>1 DEF Awaited, IsReady
  <2>4. QED
    BY <1>1, <1>2, <2>1, <2>2, <2>3, KnownTold
<1>7. CASE HandleReplicaSetUnselected
  <2>1. \E c \in BOOLEAN : Become(HandleNewReplicaSetFailure(Absolve(DropKnown(t, s), s.uid), c))
    BY <1>7 DEF HandleReplicaSetUnselected
  <2>2. QED
    BY <1>1, <1>2, <2>1, KnownTold
<1>8. QED
  BY <1>4, <1>5, <1>6, <1>7

\* Every step of the tracker but the end of a send keeps both.
LEMMA Told ==
  ASSUME TypeOK, Truthful(t), Awaited(t),
         \/ TrackGoesOn \/ World \/ HandleCtxDone \/ HandleError \/ AbortFailedSend
         \/ UNCHANGED vars
  PROVE  Truthful(t') /\ Awaited(t')
<1>0. t \in Tracker
  BY DEF TypeOK
<1>1. ASSUME t' = t
      PROVE  Truthful(t') /\ Awaited(t')
  BY <1>1
<1>2. ASSUME NEW kind \in {"Added", "Modified"}, HandleResource(kind)
      PROVE  Truthful(t') /\ Awaited(t')
  <2> DEFINE d == HandleDeploymentState(t, buf[kind])
  <2>1. buf[kind] \in Object /\ t.out = <<>>
    BY <1>2 DEF HandleResource, TypeOK, Selecting
  <2>2. d \in Tracker /\ Truthful(d) /\ Unfailed(d) /\ Awaited(d)
    BY <1>0, <2>1, StateTold, HandleDeploymentStateIs
  <2>3. \E c \in BOOLEAN : Become(HandleNewReplicaSetFailure(d, c))
    BY <1>2 DEF HandleResource
  <2> HIDE DEF d
  <2>4. QED
    BY <2>2, <2>3, BecomeTold
<1>3. CASE HandleReplicaSetSynced
  <2> DEFINE d == [t EXCEPT !.synced = TRUE]
  <2>1. d \in Tracker /\ d.out = t.out /\ d.State = t.State /\ d.lastObject = t.lastObject
        /\ t.out = <<>>
    BY <1>0, <1>3 DEF Tracker, HandleReplicaSetSynced, Selecting
  <2>2. \E c \in BOOLEAN : Become(HandleNewReplicaSetFailure(d, c))
    BY <1>3 DEF HandleReplicaSetSynced
  <2> HIDE DEF d
  <2>3. Awaited(d)
    BY <2>1 DEF Awaited, IsReady
  <2>4. QED
    BY <2>1, <2>2, <2>3, Silent, BecomeTold
<1>4. CASE HandleQuotaDeadlockRecheck
  BY <1>0, <1>4, Silent, BecomeTold DEF HandleQuotaDeadlockRecheck, Selecting
<1>5. CASE HandlePodUpdate
  <2>1. t.lastObject \in Object /\ t.out = <<>> /\ t' = HandleDeploymentState(t, t.lastObject)
    BY <1>0, <1>5 DEF HandlePodUpdate, Tracker, Selecting
  <2>2. QED
    BY <1>0, <2>1, StateTold
<1>6. ASSUME NEW u \in UID, Elapse(u) \/ TimerFires(u)
      PROVE  Truthful(t') /\ Awaited(t')
  <2>1. /\ t'.out = t.out /\ t'.State = t.State /\ t'.lastObject = t.lastObject
        /\ t'.known = t.known /\ t'.reported = t.reported /\ t'.failedFrom = t.failedFrom
    BY <1>0, <1>6 DEF Elapse, TimerFires, Tracker
  <2>2. IsReady(t') = IsReady(t) /\ (Attributable(t) => Attributable(t'))
    BY <2>1 DEF IsReady, Attributable, Known
  <2>3. QED
    BY <2>1, <2>2 DEF Truthful, Awaited
<1>7. CASE HandleCtxDone \/ HandleError \/ AbortFailedSend
  BY <1>1, <1>7 DEF HandleCtxDone, HandleError, AbortFailedSend
<1>8. CASE \/ DeploymentAdded \/ DeploymentModified \/ DeploymentDeleted \/ EventFailure
           \/ StaleTimerFires \/ Cancel \/ DropOffer \/ UNCHANGED vars
  BY <1>1, <1>8 DEF DeploymentAdded, DeploymentModified, DeploymentDeleted, DeploymentEvent,
     EventFailure, StaleTimerFires, Cancel, DropOffer, vars
<1>9. ASSUME NEW u \in UID, \/ ReplicaSetCreated(u) \/ ReplicaSetUpdated(u) \/ ReplicaSetDeleted(u)
                             \/ ReplicaSetListed(u) \/ \E v \in UID : ReplicaSetReplaced(u, v)
      PROVE  Truthful(t') /\ Awaited(t')
  BY <1>1, <1>9 DEF ReplicaSetCreated, ReplicaSetUpdated, ReplicaSetDeleted, ReplicaSetListed,
     ReplicaSetReplaced, ReplicaSetEvent
<1>10. CASE HandleResourceDeleted
  BY <1>10, ResetTold
<1>11. CASE HandleResourceFailed
  BY <1>11, EventTold
<1>12. CASE \/ HandleReplicaSetAdded \/ HandleReplicaSetModified
            \/ HandleReplicaSetDeleted \/ HandleReplicaSetUnselected
  BY <1>12, ReceiveTold
<1>13. QED
  BY <1>2, <1>3, <1>4, <1>5, <1>6, <1>7, <1>8, <1>9, <1>10, <1>11, <1>12
  DEF TrackGoesOn, World, HandleResourceAdded, HandleResourceModified

-----------------------------------------------------------------------------
(***************************************************************************)
(* What a report does to the readiness task.                               *)
(***************************************************************************)

\* A task that no Pod has entered, with its errors numbered.
Ledger(ts) ==
  /\ ts \in ReadinessTaskState
  /\ ts.edges = {}
  /\ IsFiniteSet(ts.errors)
  /\ ts.errors = {Root} \X (0 .. Cardinality(ts.errors) - 1)

WithError(ts) == ts.errors \cup {<<Root, Cardinality(ts.errors)>>}

LEMMA SpentIs ==
  ASSUME NEW ts, Ledger(ts)
  PROVE  /\ ResourceStates(ts) = {Root}
         /\ TotalErrors(ts) = Cardinality(ts.errors) /\ TotalErrors(ts) \in Nat
         /\ AddError(ts, Root) = [ts EXCEPT !.errors = WithError(ts)]
<1>1. ResourceStates(ts) = {Root}
  BY DEF Ledger, ResourceStates
<1>2. \A e \in ts.errors : e[1] = Root
  BY DEF Ledger
<1>3. {e \in ts.errors : e[1] \in ResourceStates(ts)} = ts.errors /\ ErrorsOf(ts, Root) = ts.errors
  BY <1>1, <1>2 DEF ErrorsOf
<1>4. Cardinality(ts.errors) \in Nat
  BY FS_CardinalityType DEF Ledger
<1>5. QED
  BY <1>1, <1>3, <1>4 DEF TotalErrors, AddError, WithError

LEMMA ChargeIs ==
  ASSUME NEW ts, Ledger(ts), NEW e \in ReadinessTaskState,
         e.edges = {}, e.errors = WithError(ts)
  PROVE  Ledger(e) /\ TotalErrors(e) = TotalErrors(ts) + 1
<1> DEFINE n == Cardinality(ts.errors)
<1>1. n \in Nat /\ IsFiniteSet(ts.errors) /\ ts.errors = {Root} \X (0 .. n - 1)
  BY FS_CardinalityType DEF Ledger
<1> HIDE DEF n
<1>2. <<Root, n>> \notin ts.errors
  BY <1>1
<1>3. /\ IsFiniteSet(ts.errors \cup {<<Root, n>>})
      /\ Cardinality(ts.errors \cup {<<Root, n>>}) = n + 1
  BY <1>1, <1>2, FS_AddElement DEF n
<1>4. ts.errors \cup {<<Root, n>>} = {Root} \X (0 .. n)
  BY <1>1
<1>5. Ledger(e)
  BY <1>1, <1>3, <1>4 DEF Ledger, WithError, n
<1>6. QED
  BY <1>3, <1>5, SpentIs DEF WithError, n

LEMMA SameLedger ==
  ASSUME NEW ts, Ledger(ts), NEW e \in ReadinessTaskState,
         e.edges = {}, e.errors = ts.errors
  PROVE  Ledger(e) /\ TotalErrors(e) = TotalErrors(ts)
<1>1. Ledger(e)
  BY DEF Ledger
<1>2. QED
  BY <1>1, SpentIs

LEMMA HandleStatusIs ==
  ASSUME NEW ts, Ledger(ts), NEW r \in Report, r.pods = {}
  PROVE  LET e == HandleStatus(ts, r)
         IN /\ e \in ReadinessTaskState /\ e.edges = {}
            /\ e.failMode = ts.failMode /\ e.allow = ts.allow
            /\ r.ready => e.status = "Ready" /\ e.errors = ts.errors
            /\ ~ r.ready => e.status = ts.status
            /\ ~ r.ready /\ ~ r.failed => e.errors = ts.errors /\ e.statuses[Root] = ts.statuses[Root]
            /\ ~ r.ready /\ r.failed =>
                 /\ e.errors = WithError(ts)
                 /\ e.statuses[Root] = IF r.fatal THEN "Failed" ELSE ts.statuses[Root]
<1> DEFINE c == IF r.replicas = Nil THEN ts ELSE [ts EXCEPT !.replicas = r.replicas]
           e == HandleStatus(ts, r)
<1>0. ts \in ReadinessTaskState /\ Root \in Resource
  BY DEF Ledger, Resource
<1>1. HandlePodsFromDeploymentStatus(ts, r) = ts
  <2>1. ts.vertices \cup {} = ts.vertices /\ ts.edges \cup {} = ts.edges
    OBVIOUS
  <2>2. AddResourceStates(ts, {}) = ts /\ AddDependencies(ts, {}) = ts
    BY <1>0, <2>1 DEF AddResourceStates, AddDependencies, ReadinessTaskState
  <2>3. QED
    BY <2>2 DEF HandlePodsFromDeploymentStatus
<1>2. /\ c \in ReadinessTaskState /\ c.edges = {} /\ c.errors = ts.errors
      /\ c.failMode = ts.failMode /\ c.allow = ts.allow /\ c.status = ts.status
      /\ c.statuses = ts.statuses
  BY <1>0, ReplicasAssumption DEF Ledger, ReadinessTaskState, Report
<1>3. Ledger(c) /\ WithError(c) = WithError(ts) /\ AddError(c, Root) = [c EXCEPT !.errors = WithError(ts)]
  <2>1. Ledger(c)
    BY <1>2, SameLedger
  <2>2. QED
    BY <1>2, <2>1, SpentIs DEF WithError
<1>4. WithError(ts) \in SUBSET (Resource \X Nat)
  <2>1. Cardinality(ts.errors) \in Nat
    BY FS_CardinalityType DEF Ledger
  <2>2. <<Root, Cardinality(ts.errors)>> \in Resource \X Nat
    BY <1>0, <2>1
  <2>3. ts.errors \subseteq Resource \X Nat
    BY <1>0 DEF ReadinessTaskState
  <2>4. QED
    BY <2>2, <2>3 DEF WithError
<1>5. e = CASE r.ready                  -> SetReady(c)
            [] ~ r.ready /\ r.failed    -> FailureRecorded(c, r)
            [] ~ r.ready /\ ~ r.failed  -> c
  BY <1>1 DEF HandleStatus, HandleDeploymentStatus
<1>6. r.ready \in BOOLEAN /\ r.failed \in BOOLEAN /\ r.fatal \in BOOLEAN
  BY DEF Report
<1> HIDE DEF c, e
<1>7. CASE r.ready
  <2>1. e = SetReady(c)
    BY <1>5, <1>6, <1>7
  <2> DEFINE st == [x \in Resource |-> IF x \in ResourceStates(c) THEN "Ready" ELSE c.statuses[x]]
  <2>2. st \in [Resource -> ResourceStatus]
    BY <1>2 DEF ReadinessTaskState, ResourceStatus
  <2>3. e = [c EXCEPT !.status = "Ready", !.statuses = st]
    BY <2>1 DEF SetReady
  <2> HIDE DEF st
  <2>4. QED
    BY <1>2, <1>7, <2>2, <2>3 DEF ReadinessTaskState, e
<1>8. CASE ~ r.ready /\ r.failed
  <2> DEFINE billed == [c EXCEPT !.errors = WithError(ts)]
  <2>1. /\ billed \in ReadinessTaskState /\ billed.edges = {} /\ billed.errors = WithError(ts)
        /\ billed.failMode = ts.failMode /\ billed.allow = ts.allow /\ billed.status = ts.status
        /\ billed.statuses = ts.statuses
    BY <1>2, <1>4 DEF ReadinessTaskState
  <2>2. e = IF r.fatal THEN SetResourceStatus(billed, Root, "Failed") ELSE billed
    BY <1>3, <1>5, <1>6, <1>8 DEF FailureRecorded
  <2> HIDE DEF billed
  <2> DEFINE st == [ts.statuses EXCEPT ![Root] = "Failed"]
  <2>3. st \in [Resource -> ResourceStatus] /\ st[Root] = "Failed"
    BY <1>0 DEF ReadinessTaskState, ResourceStatus
  <2>4. SetResourceStatus(billed, Root, "Failed") = [billed EXCEPT !.statuses = st]
    BY <2>1 DEF SetResourceStatus
  <2> HIDE DEF st
  <2>5. /\ e \in ReadinessTaskState /\ e.edges = {} /\ e.errors = WithError(ts)
        /\ e.failMode = ts.failMode /\ e.allow = ts.allow /\ e.status = ts.status
        /\ e.statuses[Root] = IF r.fatal THEN "Failed" ELSE ts.statuses[Root]
    <3>1. CASE r.fatal
      <4>1. e = [billed EXCEPT !.statuses = st]
        BY <2>2, <2>4, <3>1
      <4>2. e.statuses = st
        BY <2>1, <4>1 DEF ReadinessTaskState
      <4>3. QED
        BY <2>1, <2>3, <3>1, <4>1, <4>2 DEF ReadinessTaskState
    <3>2. CASE ~ r.fatal
      BY <2>1, <2>2, <3>2
    <3>3. QED
      BY <3>1, <3>2
  <2>6. QED
    BY <1>8, <2>5 DEF e
<1>9. CASE ~ r.ready /\ ~ r.failed
  <2>1. e = c
    BY <1>5, <1>6, <1>9
  <2>2. QED
    BY <1>2, <1>9, <2>1 DEF e
<1>10. QED
  BY <1>6, <1>7, <1>8, <1>9

Ignoring(ts) == ts.failMode = "IgnoreAndContinueDeployProcess"

LEMMA VerdictIs ==
  ASSUME NEW ts, Ledger(ts)
  PROVE  /\ FailureCondition(ts) <=>
              ~ Ignoring(ts) /\ (ts.statuses[Root] = "Failed" \/ TotalErrors(ts) > ts.allow)
         /\ ts.status = "Ready" => VerdictOf(ts) = "ready"
         /\ ts.status = "" /\ ts.statuses[Root] # "Ready" =>
              VerdictOf(ts) = IF FailureCondition(ts) THEN "failed" ELSE "tracking"
<1>1. ResourceStates(ts) = {Root}
  BY SpentIs
<1>2. MarkedFailed(ts) <=> ts.statuses[Root] = "Failed"
  BY <1>1 DEF MarkedFailed
<1>3. ts.status = "Ready" => VerdictOf(ts) = "ready"
  <2>1. SUFFICES ASSUME ts.status = "Ready" PROVE VerdictOf(ts) = "ready"
    OBVIOUS
  <2>2. Status(ts) = "Ready"
    BY <2>1 DEF Status
  <2>3. QED
    BY <2>2 DEF VerdictOf
<1>4. ASSUME ts.status = "", ts.statuses[Root] # "Ready"
      PROVE  VerdictOf(ts) = IF FailureCondition(ts) THEN "failed" ELSE "tracking"
  <2>1. {x \in ResourceStates(ts) : ts.statuses[x] = "Ready"} = {}
    BY <1>1, <1>4
  <2>2. ts.replicas \in Nat
    BY DEF Ledger, ReadinessTaskState
  <2>3. ~ ReadyCondition(ts)
    <3>1. Cardinality({x \in ResourceStates(ts) : ts.statuses[x] = "Ready"}) = 0
      BY <2>1, FS_EmptySet
    <3>2. ~ (0 >= 1 + ts.replicas)
      BY <2>2
    <3>3. QED
      BY <3>1, <3>2 DEF ReadyCondition
  <2>4. Status(ts) = IF FailureCondition(ts) THEN "Failed" ELSE "Progressing"
    BY <1>4, <2>3 DEF Status, FailureCondition
  <2>5. QED
    BY <2>4 DEF VerdictOf
<1>5. QED
  BY <1>2, <1>3, <1>4 DEF FailureCondition, Ignoring

\* A task that is neither failed nor ready.
Open(ts) == ts.status = "" /\ ts.statuses[Root] # "Ready" /\ ~ FailureCondition(ts)

\* A report of the Deployment itself.
Plain(r) ==
  /\ r \in Report /\ r.pods = {} /\ r.ch \in Channel
  /\ r.failed <=> r.ch = "Failed"
  /\ r.failed => ~ r.ready
  /\ r.fatal => r.failed

LEMMA CreatedIs ==
  ASSUME NEW ts \in ReadinessTaskState
  PROVE  LET e == SetRootResourceCreated(ts)
         IN /\ e \in ReadinessTaskState /\ e.edges = ts.edges /\ e.errors = ts.errors
            /\ e.failMode = ts.failMode /\ e.allow = ts.allow /\ e.status = ts.status
            /\ e.statuses[Root] = "Created"
<1> DEFINE st == [ts.statuses EXCEPT ![Root] = "Created"]
<1>1. st \in [Resource -> ResourceStatus] /\ st[Root] = "Created"
  BY DEF ReadinessTaskState, ResourceStatus, Resource
<1>2. SetRootResourceCreated(ts) = [ts EXCEPT !.statuses = st]
  BY DEF SetRootResourceCreated, SetResourceStatus
<1> HIDE DEF st
<1> DEFINE e == [ts EXCEPT !.statuses = st]
<1>3. e \in ReadinessTaskState /\ e.statuses = st
  BY <1>1 DEF ReadinessTaskState
<1>4. /\ e.edges = ts.edges /\ e.errors = ts.errors
      /\ e.failMode = ts.failMode /\ e.allow = ts.allow /\ e.status = ts.status
  BY DEF ReadinessTaskState
<1> HIDE DEF e
<1>5. QED
  BY <1>1, <1>2, <1>3, <1>4 DEF e

LEMMA HandleReportIs ==
  ASSUME NEW ts, Ledger(ts), Open(ts), NEW r, Plain(r)
  PROVE  LET e == HandleReport(ts, r)
             positive == r.ready \/ r.ch = "Ready"
         IN /\ Ledger(e) /\ e.failMode = ts.failMode /\ e.allow = ts.allow
            /\ positive => VerdictOf(e) = "ready"
            /\ ~ r.failed => TotalErrors(e) = TotalErrors(ts)
            /\ ~ positive /\ ~ r.failed => VerdictOf(e) = "tracking" /\ Open(e)
            /\ r.failed =>
                 /\ TotalErrors(e) = TotalErrors(ts) + 1
                 /\ VerdictOf(e) =
                      IF ~ Ignoring(ts) /\ (r.fatal \/ TotalErrors(e) > ts.allow)
                        THEN "failed" ELSE "tracking"
                 /\ VerdictOf(e) = "tracking" => Open(e)
<1> DEFINE said == IF r.ch = "Ready" THEN [r EXCEPT !.ready = TRUE] ELSE r
           b == HandleStatus(ts, said)
           e == HandleReport(ts, r)
<1>0. /\ r \in Report /\ r.pods = {} /\ r.ch \in Channel /\ (r.failed <=> r.ch = "Failed")
      /\ (r.failed => ~ r.ready) /\ (r.fatal => r.failed)
      /\ r.ready \in BOOLEAN /\ r.failed \in BOOLEAN /\ r.fatal \in BOOLEAN
  BY DEF Plain, Report
<1>1. /\ said \in Report /\ said.pods = {} /\ said.failed = r.failed /\ said.fatal = r.fatal
      /\ said.ready <=> r.ready \/ r.ch = "Ready"
  BY <1>0 DEF Report
<1>2. e = IF r.ch = "Added" THEN SetRootResourceCreated(b) ELSE b
  BY <1>0 DEF HandleReport, HandleAdded, HandleReady, Channel
<1> HIDE DEF said
<1>3. /\ b \in ReadinessTaskState /\ b.edges = {}
      /\ b.failMode = ts.failMode /\ b.allow = ts.allow
      /\ said.ready => b.status = "Ready" /\ b.errors = ts.errors
      /\ ~ said.ready => b.status = ts.status
      /\ ~ said.ready /\ ~ r.failed => b.errors = ts.errors /\ b.statuses[Root] = ts.statuses[Root]
      /\ ~ said.ready /\ r.failed =>
           /\ b.errors = WithError(ts)
           /\ b.statuses[Root] = IF r.fatal THEN "Failed" ELSE ts.statuses[Root]
  BY <1>1, HandleStatusIs
<1> HIDE DEF b, e
<1>4. /\ e \in ReadinessTaskState /\ e.edges = {}
      /\ e.failMode = ts.failMode /\ e.allow = ts.allow
      /\ e.errors = b.errors /\ e.status = b.status
      /\ e.statuses[Root] = b.statuses[Root] \/ (e.statuses[Root] = "Created" /\ r.ch = "Added")
  BY <1>2, <1>3, CreatedIs
<1>5. CASE said.ready
  <2>1. ~ r.failed /\ Ledger(e) /\ TotalErrors(e) = TotalErrors(ts)
    BY <1>0, <1>1, <1>3, <1>4, <1>5, SameLedger
  <2>2. VerdictOf(e) = "ready"
    BY <1>3, <1>4, <1>5, <2>1, VerdictIs
  <2>3. QED
    BY <1>1, <1>4, <1>5, <2>1, <2>2 DEF e
<1>6. CASE ~ said.ready /\ ~ r.failed
  <2>1. Ledger(e) /\ TotalErrors(e) = TotalErrors(ts)
    BY <1>3, <1>4, <1>6, SameLedger
  <2>2. e.status = "" /\ e.statuses[Root] # "Ready"
        /\ (e.statuses[Root] = "Failed" => ts.statuses[Root] = "Failed")
    BY <1>3, <1>4, <1>6 DEF Open
  <2>3. ~ FailureCondition(e)
    BY <1>4, <2>1, <2>2, VerdictIs DEF Open, Ignoring
  <2>4. VerdictOf(e) = "tracking" /\ Open(e)
    BY <2>1, <2>2, <2>3, VerdictIs DEF Open
  <2>5. QED
    BY <1>1, <1>4, <1>6, <2>1, <2>4 DEF e
<1>7. CASE ~ said.ready /\ r.failed
  <2>1. Ledger(e) /\ TotalErrors(e) = TotalErrors(ts) + 1
    BY <1>3, <1>4, <1>7, ChargeIs
  <2>2. e.status = "" /\ e.statuses[Root] # "Ready"
        /\ e.statuses[Root] = IF r.fatal THEN "Failed" ELSE ts.statuses[Root]
    BY <1>0, <1>3, <1>4, <1>7 DEF Open
  <2>3. ~ Ignoring(ts) => ts.statuses[Root] # "Failed"
    BY VerdictIs DEF Open
  <2>4. FailureCondition(e) <=> ~ Ignoring(ts) /\ (r.fatal \/ TotalErrors(e) > ts.allow)
    BY <1>4, <2>1, <2>2, <2>3, VerdictIs DEF Ignoring
  <2>5. VerdictOf(e) = IF FailureCondition(e) THEN "failed" ELSE "tracking"
    BY <2>1, <2>2, VerdictIs
  <2>6. QED
    BY <1>1, <1>4, <1>7, <2>1, <2>2, <2>4, <2>5 DEF e, Open
<1>8. QED
  BY <1>0, <1>1, <1>5, <1>6, <1>7

-----------------------------------------------------------------------------
(***************************************************************************)
(* The invariant.                                                          *)
(***************************************************************************)

\* While the consumer has not returned, what the tracker says is true, its task
\* is open, and no status that waits in a channel is that of a ready Deployment.
Tracking ==
  /\ Truthful(t) /\ Awaited(t)
  /\ Open(task)
  /\ ~ Ignoring(task) => ~ fatalSent
  /\ \A ch \in Buffered : \A i \in DOMAIN queue[ch] : ~ queue[ch][i].ready

Queued ==
  /\ queue \in [Buffered -> Seq(Report)]
  /\ \A ch \in Buffered :
       /\ Len(queue[ch]) <= Capacity[ch]
       /\ \A i \in DOMAIN queue[ch] : Plain(queue[ch][i]) /\ queue[ch][i].ch = ch

ReadinessInv ==
  /\ IInv
  /\ Queued
  /\ trackErr \in {"empty", "error", "stopped"}
  /\ verdict \in {"tracking", "ready", "failed", "error", "stopped"}
  /\ fatalSent \in BOOLEAN
  /\ Ledger(task)
  /\ verdict = "tracking" => Tracking

\* What the consumer adds to the tracker: it may end its context.
ContextEnds == ctxDone' = TRUE /\ UNCHANGED <<env, buf, eventFailure, recheck, staleTimers, pc, t>>

LEMMA TrackerMoves ==
  [ReadinessNext]_ReadinessVars => [Next]_vars \/ ContextEnds
<1>1. ConsumerReturns => ContextEnds
  BY DEF ConsumerReturns, ContextEnds
<1>2. TrackGoesOn => Next
  BY DEF TrackGoesOn, Next, Track
<1>3. World => Next
  BY DEF World, Next, Environment
<1>4. TrackCancelled \/ TrackFails => Next
  BY DEF TrackCancelled, TrackFails, Next, Track
<1>5. (\E ch \in Buffered : Enqueue(ch)) \/ ConsumeReady \/ ConsumeFailed => Next
  BY DEF Enqueue, ConsumeReady, ConsumeFailed, ConsumeUnbuffered, Next, Environment
<1>6. ConsumeAdded \/ ConsumeStatus \/ ConsumeAddedReplicaSet \/ ConsumeTrackErr => UNCHANGED vars
  BY DEF ConsumeAdded, ConsumeStatus, ConsumeAddedReplicaSet, ConsumeBuffered, ConsumeTrackErr
<1>7. Over \/ UNCHANGED ReadinessVars => UNCHANGED vars
  BY DEF Over, Returned, Quiet, ReadinessVars
<1>8. QED
  BY <1>1, <1>2, <1>3, <1>4, <1>5, <1>6, <1>7 DEF ReadinessNext

LEMMA ContextEndsInv ==
  ASSUME IInv, ContextEnds
  PROVE  IInv'
<1>1. /\ ctxDone' = TRUE
      /\ UNCHANGED <<depl, buf, rsets, watch, seen, listing, rsOffer, eventFailure, recheck,
                     staleTimers, pc, changes, t>>
  BY DEF ContextEnds, env
<1>2. TypeOK'
  BY <1>1 DEF IInv, TypeOK
<1>3. Surroundings'
  BY <1>1 DEF IInv, Surroundings, OneLivePerName, NothingBeforeWatch, ListedIsLive, OfferIsCurrent,
              CurrentOffer, Live
<1>4. Bookkeeping' /\ FailureIsAttributable'
  BY <1>1 DEF IInv, Bookkeeping, DeletedStayUnknown, KnownIsCurrent, FailureIsAttributable, Filed,
              Known
<1>5. NothingSuppressed'
  BY <1>1 DEF IInv, NothingSuppressed, Settled, FailingNew, NewReplicaSet, Candidates, Known
<1>6. QED
  BY <1>2, <1>3, <1>4, <1>5 DEF IInv

LEMMA ReportIsPlain ==
  ASSUME TypeOK, t.out # <<>>, NEW n \in Indicators
  PROVE  LET r == ReportOf(Head(t.out), n)
         IN /\ Plain(r) /\ r.ch = Head(t.out).ch
            /\ Awaited(t) /\ r.ready => r.ch = "Ready"
<1>1. Head(t.out) \in Message /\ t \in Tracker
  BY DEF TypeOK, Tracker
<1>2. DeploymentReady \in BOOLEAN
  BY <1>1 DEF DeploymentReady, Tracker, Object
<1>3. n \in Replicas \cup {Nil}
  BY DEF Indicators
<1>4. QED
  BY <1>1, <1>2, <1>3 DEF ReportOf, Plain, Report, ReportChannel, Message, Channel, Awaited, IsReady,
     DeploymentReady

LEMMA QueueIs ==
  ASSUME NEW q \in Seq(Report)
  PROVE  /\ q # <<>> => /\ Head(q) = q[1] /\ 1 \in DOMAIN q
                       /\ Tail(q) \in Seq(Report) /\ Len(Tail(q)) = Len(q) - 1
                       /\ \A i \in DOMAIN Tail(q) : i + 1 \in DOMAIN q /\ Tail(q)[i] = q[i + 1]
         /\ \A r \in Report : Append(q, r) \in Seq(Report) /\ Len(Append(q, r)) = Len(q) + 1
         /\ Len(q) \in Nat
OBVIOUS

LEMMA Consumption ==
  ASSUME ReadinessInv, verdict = "tracking", NEW r, Plain(r), Consume(r)
  PROVE  /\ Ledger(task')
         /\ verdict' \in {"tracking", "ready", "failed"} /\ fatalSent' \in BOOLEAN
         /\ verdict' = "tracking" => Open(task') /\ (~ Ignoring(task') => ~ fatalSent')
         /\ verdict' = "ready" <=> r.ready \/ r.ch = "Ready"
         /\ verdict' = "failed" => r.failed
         /\ [Verdict!Next]_(Verdict!vars)
<1> DEFINE e == HandleReport(task, r)
<1>0. /\ r.failed => ~ (r.ready \/ r.ch = "Ready")
      /\ r.fatal => r.failed
      /\ r.ready \in BOOLEAN /\ r.failed \in BOOLEAN /\ r.fatal \in BOOLEAN
  BY DEF Plain, Report
<1>1. /\ task' = e /\ verdict' = VerdictOf(e)
      /\ r.fatal => fatalSent' = TRUE
      /\ ~ r.fatal => fatalSent' = fatalSent
  <2>1. task' = e /\ verdict' = VerdictOf(task') /\ fatalSent' = (fatalSent \/ r.fatal)
    BY DEF Consume
  <2>2. fatalSent \in BOOLEAN
    BY DEF ReadinessInv
  <2>3. CASE r.fatal
    BY <2>1, <2>3
  <2>4. CASE ~ r.fatal
    BY <2>1, <2>2, <2>4
  <2>5. QED
    BY <2>1, <2>3, <2>4
<1>2. Ledger(task) /\ Open(task) /\ (~ Ignoring(task) => ~ fatalSent)
  BY DEF ReadinessInv, Tracking
<1>3. /\ Ledger(e) /\ e.failMode = task.failMode /\ e.allow = task.allow
      /\ r.ready \/ r.ch = "Ready" => VerdictOf(e) = "ready"
      /\ ~ r.failed => TotalErrors(e) = TotalErrors(task)
      /\ ~ (r.ready \/ r.ch = "Ready") /\ ~ r.failed => VerdictOf(e) = "tracking" /\ Open(e)
      /\ r.failed =>
           /\ TotalErrors(e) = TotalErrors(task) + 1
           /\ VerdictOf(e) =
                IF ~ Ignoring(task) /\ (r.fatal \/ TotalErrors(e) > task.allow)
                  THEN "failed" ELSE "tracking"
           /\ VerdictOf(e) = "tracking" => Open(e)
  BY <1>2, HandleReportIs
<1>4. fatalSent \in BOOLEAN /\ fatalSent' \in BOOLEAN
  BY <1>0, <1>1 DEF ReadinessInv
<1> HIDE DEF e
<1>5. CASE r.failed
  <2>1. /\ TotalErrors(e) = TotalErrors(task) + 1
        /\ VerdictOf(e) = IF ~ Ignoring(task) /\ (r.fatal \/ TotalErrors(e) > task.allow)
                            THEN "failed" ELSE "tracking"
    BY <1>3, <1>5
  <2>2. /\ TotalErrors(task') = TotalErrors(task) + 1
        /\ task'.failMode = task.failMode /\ task'.allow = task.allow
    BY <1>1, <1>3, <2>1
  <2>3. fatalSent' = TRUE \/ fatalSent' = fatalSent
    BY <1>0, <1>1
  <2>4. verdict' = IF ~ Ignoring(task) /\ (fatalSent' \/ TotalErrors(task') > task.allow)
                    THEN "failed" ELSE "tracking"
    <3>1. CASE r.fatal
      BY <1>1, <2>1, <3>1
    <3>2. CASE ~ r.fatal /\ Ignoring(task)
      BY <1>1, <2>1, <3>2
    <3>3. CASE ~ r.fatal /\ ~ Ignoring(task)
      <4>1. fatalSent' = FALSE
        BY <1>1, <1>2, <1>4, <3>3
      <4>2. QED
        BY <1>1, <2>1, <3>3, <4>1
    <3>4. QED
      BY <3>1, <3>2, <3>3
  <2>5. Verdict!Charge
    BY <2>2, <2>3, <2>4 DEF Verdict!Charge, Verdict!Fails, Ignoring
  <2>6. verdict' = "tracking" => Open(task') /\ (~ Ignoring(task') => ~ fatalSent')
    <3>1. verdict' = "tracking" => Open(task')
      BY <1>1, <1>3, <1>5
    <3>2. Ignoring(task') = Ignoring(task)
      BY <2>2 DEF Ignoring
    <3>3. QED
      BY <2>4, <3>1, <3>2
  <2>7. Ledger(task') /\ verdict' \in {"failed", "tracking"}
    BY <1>1, <1>3, <2>1
  <2>8. QED
    BY <1>0, <1>4, <1>5, <2>5, <2>6, <2>7 DEF Verdict!Next
<1>6. CASE ~ r.failed /\ (r.ready \/ r.ch = "Ready")
  <2>1. fatalSent' = fatalSent
    BY <1>0, <1>1, <1>6
  <2>2. Verdict!Succeed
    BY <1>1, <1>3, <1>6, <2>1 DEF Verdict!Succeed
  <2>3. QED
    BY <1>1, <1>3, <1>4, <1>6, <2>2 DEF Verdict!Next
<1>7. CASE ~ r.failed /\ ~ (r.ready \/ r.ch = "Ready")
  <2>1. fatalSent' = fatalSent
    BY <1>0, <1>1, <1>7
  <2>2. UNCHANGED Verdict!vars
    BY <1>1, <1>3, <1>7, <2>1 DEF Verdict!vars
  <2>3. QED
    BY <1>1, <1>2, <1>3, <1>4, <1>7, <2>1, <2>2 DEF Ignoring
<1>8. QED
  BY <1>0, <1>5, <1>6, <1>7

LEMMA ReadinessInductiveInit == ReadinessInit => ReadinessInv
<1> SUFFICES ASSUME ReadinessInit PROVE ReadinessInv
  OBVIOUS
<1>1. IInv /\ t.out = <<>> /\ t.State = "Initial" /\ t.lastObject = None
  BY InitInductive DEF ReadinessInit, Init
<1>2. Queued
  BY CapacityAssumption DEF ReadinessInit, Queued
<1>3. PICK mode \in FailMode, allow \in AllowedFailures : task = NewReadinessTaskState(mode, allow)
  BY DEF ReadinessInit
<1>4. /\ task.failMode = mode /\ task.allow = allow /\ task.status = "" /\ task.edges = {}
      /\ task.errors = {} /\ task.statuses[Root] = "Unknown" /\ task \in ReadinessTaskState
  BY <1>3, CapacityAssumption DEF NewReadinessTaskState, ReadinessTaskState, ResourceStatus, Resource
<1>5. Ledger(task) /\ TotalErrors(task) = 0
  <2>1. Cardinality(task.errors) = 0 /\ IsFiniteSet(task.errors)
    BY <1>4, FS_EmptySet
  <2>2. task.errors = {Root} \X (0 .. Cardinality(task.errors) - 1)
    <3>1. 0 .. (0 - 1) = {}
      OBVIOUS
    <3>2. {Root} \X {} = {}
      OBVIOUS
    <3>3. QED
      BY <1>4, <2>1, <3>1, <3>2
  <2>3. Ledger(task)
    BY <1>4, <2>1, <2>2 DEF Ledger
  <2>4. QED
    BY <2>1, <2>3, SpentIs
<1>6. Open(task)
  <2>1. task.allow \in Nat
    BY <1>4 DEF ReadinessTaskState
  <2>2. ~ (TotalErrors(task) > task.allow) /\ task.statuses[Root] # "Failed"
    <3>1. ~ (0 > task.allow)
      BY <2>1
    <3>2. QED
      BY <1>4, <1>5, <3>1
  <2>3. ~ FailureCondition(task)
    BY <1>5, <2>2, VerdictIs
  <2>4. QED
    BY <1>4, <2>3 DEF Open
<1>7. Truthful(t) /\ Awaited(t)
  BY <1>1, Silent DEF IInv, TypeOK, IsReady
<1>8. \A ch \in Buffered : DOMAIN queue[ch] = {}
  BY DEF ReadinessInit
<1>9. QED
  BY <1>1, <1>2, <1>5, <1>6, <1>7, <1>8 DEF ReadinessInv, Tracking, ReadinessInit

\* A step of the tracker that the consumer has no part in.
LEMMA AloneInv ==
  ASSUME ReadinessInv, IInv', UNCHANGED <<queue, task, verdict, fatalSent>>,
         trackErr' \in {"empty", "error", "stopped"},
         \/ TrackGoesOn \/ World \/ HandleCtxDone \/ HandleError \/ AbortFailedSend
         \/ UNCHANGED t
  PROVE  ReadinessInv'
<1>1. verdict = "tracking" => Truthful(t') /\ Awaited(t')
  <2>1. CASE UNCHANGED t
    BY <2>1 DEF ReadinessInv, Tracking
  <2>2. CASE TrackGoesOn \/ World \/ HandleCtxDone \/ HandleError \/ AbortFailedSend
    BY <2>2, Told DEF ReadinessInv, Tracking, IInv
  <2>3. QED
    BY <2>1, <2>2
<1>2. Truthful(t)' <=> Truthful(t')
  BY DEF Truthful, Attributable, Known, IsReady
<1>3. Awaited(t)' <=> Awaited(t')
  BY DEF Awaited, IsReady
<1>4. Ledger(task)' /\ (verdict = "tracking" => Open(task)' /\ (~ Ignoring(task)' => ~ fatalSent'))
  BY DEF ReadinessInv, Tracking, Ledger, Open, Ignoring, FailureCondition, MarkedFailed, TotalErrors,
         ResourceStates
<1>5. Queued'
  BY DEF ReadinessInv, Queued, Plain
<1>6. QED
  BY <1>1, <1>2, <1>3, <1>4, <1>5 DEF ReadinessInv, Tracking

LEMMA EnqueueInv ==
  ASSUME ReadinessInv, IInv', NEW ch \in Buffered, Enqueue(ch)
  PROVE  ReadinessInv'
<1>1. PICK n \in Indicators : queue' = [queue EXCEPT ![ch] = Append(@, ReportOf(Head(t.out), n))]
  BY DEF Enqueue
<1> DEFINE r == ReportOf(Head(t.out), n)
<1>2. TypeOK /\ t.out # <<>> /\ Head(t.out).ch = ch /\ ch # "Ready" /\ ch # "Failed"
  BY DEF Enqueue, Sending, ReadinessInv, IInv, Buffered
<1>3. Plain(r) /\ r.ch = ch /\ (Awaited(t) => ~ r.ready)
  BY <1>2, ReportIsPlain
<1> HIDE DEF r
<1>4. r \in Report /\ queue[ch] \in Seq(Report)
  BY <1>3 DEF Plain, ReadinessInv, Queued
<1>5. /\ queue' \in [Buffered -> Seq(Report)]
      /\ \A c \in Buffered : queue'[c] = IF c = ch THEN Append(queue[ch], r) ELSE queue[c]
  BY <1>1, <1>4, QueueIs DEF ReadinessInv, Queued, r
<1>6. /\ Len(queue'[ch]) <= Capacity[ch]
      /\ \A i \in DOMAIN queue'[ch] : \/ i \in DOMAIN queue[ch] /\ queue'[ch][i] = queue[ch][i]
                                      \/ queue'[ch][i] = r
  <2>1. queue'[ch] = Append(queue[ch], r) /\ Len(queue[ch]) < Capacity[ch]
    BY <1>5 DEF Enqueue
  <2>2. Len(queue'[ch]) = Len(queue[ch]) + 1 /\ Len(queue[ch]) \in Nat /\ Capacity[ch] \in Nat
    BY <1>4, <2>1, QueueIs, CapacityAssumption
  <2>3. QED
    BY <1>4, <2>1, <2>2, AppendIs
<1>7. Queued'
  <2>1. \A c \in Buffered : \A i \in DOMAIN queue'[c] :
          Plain(queue'[c][i]) /\ queue'[c][i].ch = c
    <3>1. SUFFICES ASSUME NEW c \in Buffered, NEW i \in DOMAIN queue'[c]
                   PROVE  Plain(queue'[c][i]) /\ queue'[c][i].ch = c
      OBVIOUS
    <3>2. CASE c = ch
      <4>1. queue'[ch][i] = r \/ (i \in DOMAIN queue[ch] /\ queue'[ch][i] = queue[ch][i])
        BY <1>6, <3>2
      <4>2. QED
        BY <1>3, <3>2, <4>1 DEF ReadinessInv, Queued
    <3>3. CASE c # ch
      <4>1. queue'[c] = queue[c]
        BY <1>5, <3>3
      <4>2. QED
        BY <4>1 DEF ReadinessInv, Queued
    <3>4. QED
      BY <3>2, <3>3
  <2>2. \A c \in Buffered : Len(queue'[c]) <= Capacity[c]
    BY <1>5, <1>6 DEF ReadinessInv, Queued
  <2>3. QED
    BY <1>5, <2>1, <2>2 DEF Queued, Plain
<1>8. verdict = "tracking" => Tracking'
  <2> SUFFICES ASSUME verdict = "tracking" PROVE Tracking'
    OBVIOUS
  <2>1. Tracking /\ Sent /\ UNCHANGED <<task, fatalSent>>
    BY DEF ReadinessInv, Enqueue
  <2>2. Truthful(t') /\ Awaited(t')
    BY <1>2, <2>1, SentTold DEF Tracking
  <2>3. Truthful(t)' /\ Awaited(t)'
    BY <2>2 DEF Truthful, Attributable, Known, IsReady, Awaited
  <2>4. Open(task)' /\ (~ Ignoring(task)' => ~ fatalSent')
    BY <2>1 DEF Tracking, Open, Ignoring, FailureCondition, MarkedFailed, TotalErrors, ResourceStates
  <2>5. \A c \in Buffered : \A i \in DOMAIN queue'[c] : ~ queue'[c][i].ready
    BY <1>3, <1>5, <1>6, <2>1 DEF Tracking
  <2>6. QED
    BY <2>3, <2>4, <2>5 DEF Tracking
<1>9. Ledger(task)'
  BY DEF Enqueue, ReadinessInv, Ledger
<1>10. QED
  BY <1>7, <1>8, <1>9 DEF ReadinessInv, Enqueue

\* The consumer takes the first report of a channel, or what is being sent.
LEMMA ConsumeBufferedIs ==
  ASSUME ReadinessInv, NEW ch \in Buffered, ConsumeBuffered(ch)
  PROVE  LET r == Head(queue[ch])
         IN /\ Plain(r) /\ Consume(r) /\ verdict = "tracking"
            /\ ~ r.ready /\ r.ch # "Ready" /\ ~ r.failed
            /\ UNCHANGED vars
            /\ Queued'
            /\ \A c \in Buffered : \A i \in DOMAIN queue'[c] : ~ queue'[c][i].ready
<1> DEFINE r == Head(queue[ch])
<1>1. /\ verdict = "tracking" /\ queue[ch] # <<>> /\ Consume(r) /\ UNCHANGED vars
      /\ queue' = [queue EXCEPT ![ch] = Tail(queue[ch])] /\ Tracking /\ Queued
  BY DEF ConsumeBuffered, ReadinessInv
<1>2. queue[ch] \in Seq(Report) /\ r = queue[ch][1] /\ 1 \in DOMAIN queue[ch]
  BY <1>1, QueueIs DEF Queued
<1>3. Plain(r) /\ r.ch = ch /\ ~ r.ready
  BY <1>1, <1>2 DEF Queued, Tracking
<1>4. r.ch # "Ready" /\ ~ r.failed
  BY <1>3 DEF Plain, Buffered
<1>5. /\ queue' \in [Buffered -> Seq(Report)]
      /\ \A c \in Buffered : queue'[c] = IF c = ch THEN Tail(queue[ch]) ELSE queue[c]
  BY <1>1, <1>2, QueueIs DEF Queued
<1>6. /\ Len(queue'[ch]) = Len(queue[ch]) - 1 /\ Len(queue[ch]) \in Nat
      /\ \A i \in DOMAIN queue'[ch] : i + 1 \in DOMAIN queue[ch] /\ queue'[ch][i] = queue[ch][i + 1]
  BY <1>1, <1>2, <1>5, QueueIs
<1>7. \A c \in Buffered : \A i \in DOMAIN queue'[c] :
        Plain(queue'[c][i]) /\ queue'[c][i].ch = c /\ ~ queue'[c][i].ready
  BY <1>1, <1>5, <1>6 DEF Queued, Tracking
<1>8. \A c \in Buffered : Len(queue'[c]) <= Capacity[c]
  BY <1>1, <1>5, <1>6, CapacityAssumption DEF Queued
<1> HIDE DEF r
<1>9. QED
  BY <1>1, <1>3, <1>4, <1>5, <1>7, <1>8 DEF Queued, Plain, r

LEMMA ConsumeUnbufferedIs ==
  ASSUME ReadinessInv, NEW ch \in {"Ready", "Failed"}, ConsumeUnbuffered(ch)
  PROVE  \E r \in Report :
           /\ Plain(r) /\ Consume(r) /\ verdict = "tracking"
           /\ r.ch = ch /\ (ch = "Failed" => ~ r.ready) /\ (r.failed => ch = "Failed")
           /\ t.out # <<>> /\ Head(t.out).ch = ch
           /\ Sent /\ UNCHANGED queue
<1>1. /\ verdict = "tracking" /\ t.out # <<>> /\ Head(t.out).ch = ch /\ Sent /\ UNCHANGED queue
      /\ TypeOK
  BY DEF ConsumeUnbuffered, Sending, ReadinessInv, IInv
<1>2. PICK n \in Indicators : Consume(ReportOf(Head(t.out), n))
  BY DEF ConsumeUnbuffered
<1> DEFINE r == ReportOf(Head(t.out), n)
<1>3. Plain(r) /\ r.ch = ch
  BY <1>1, ReportIsPlain
<1> HIDE DEF r
<1>4. r \in Report /\ (ch = "Failed" => ~ r.ready) /\ (r.failed => ch = "Failed")
  BY <1>3 DEF Plain
<1>5. QED
  BY <1>1, <1>2, <1>3, <1>4 DEF r

LEMMA ReadinessInductiveStep ==
  ReadinessInv /\ [ReadinessNext]_ReadinessVars => ReadinessInv'
<1> SUFFICES ASSUME ReadinessInv, [ReadinessNext]_ReadinessVars PROVE ReadinessInv'
  OBVIOUS
<1>0. IInv'
  BY TrackerMoves, StepInductive, ContextEndsInv DEF ReadinessInv
<1>1. CASE (TrackGoesOn \/ World) /\ UNCHANGED consumer
  BY <1>0, <1>1, AloneInv DEF consumer, ReadinessInv
<1>2. CASE TrackCancelled \/ TrackFails
  BY <1>0, <1>2, AloneInv DEF TrackCancelled, TrackFails
<1>3. ASSUME NEW ch \in Buffered, Enqueue(ch) PROVE ReadinessInv'
  BY <1>0, <1>3, EnqueueInv
<1>4. ASSUME NEW ch \in Buffered, ConsumeBuffered(ch) PROVE ReadinessInv'
  <2> DEFINE r == Head(queue[ch])
  <2>1. /\ Plain(r) /\ Consume(r) /\ verdict = "tracking"
        /\ UNCHANGED vars /\ Queued'
        /\ \A c \in Buffered : \A i \in DOMAIN queue'[c] : ~ queue'[c][i].ready
    BY <1>4, ConsumeBufferedIs
  <2> HIDE DEF r
  <2>2. /\ Ledger(task')
        /\ verdict' \in {"tracking", "ready", "failed"} /\ fatalSent' \in BOOLEAN
        /\ verdict' = "tracking" => Open(task') /\ (~ Ignoring(task') => ~ fatalSent')
    BY <2>1, Consumption
  <2>3. t' = t /\ trackErr' = trackErr
    BY <2>1 DEF vars, Consume
  <2>4. Truthful(t') /\ Awaited(t')
    BY <2>1, <2>3 DEF ReadinessInv, Tracking
  <2>5. verdict' = "tracking" => Tracking'
    BY <2>1, <2>2, <2>4 DEF Tracking
  <2>6. QED
    BY <1>0, <2>1, <2>2, <2>3, <2>5 DEF ReadinessInv
<1>5. ASSUME NEW ch \in {"Ready", "Failed"}, ConsumeUnbuffered(ch) PROVE ReadinessInv'
  <2>1. PICK r \in Report :
           /\ Plain(r) /\ Consume(r) /\ verdict = "tracking"
           /\ r.ch = ch /\ (ch = "Failed" => ~ r.ready) /\ (r.failed => ch = "Failed")
           /\ t.out # <<>> /\ Head(t.out).ch = ch
           /\ Sent /\ UNCHANGED queue
    BY <1>5, ConsumeUnbufferedIs
  <2>2. /\ Ledger(task')
        /\ verdict' \in {"tracking", "ready", "failed"} /\ fatalSent' \in BOOLEAN
        /\ verdict' = "tracking" => Open(task') /\ (~ Ignoring(task') => ~ fatalSent')
        /\ verdict' = "ready" <=> r.ready \/ r.ch = "Ready"
    BY <2>1, Consumption
  <2>3. verdict' = "tracking" => Truthful(t') /\ Awaited(t')
    BY <2>1, <2>2, SentTold DEF ReadinessInv, Tracking, IInv
  <2>4. verdict' = "tracking" => Tracking'
    BY <2>1, <2>2, <2>3 DEF ReadinessInv, Tracking
  <2>5. Queued' /\ trackErr' = trackErr
    BY <2>1 DEF ReadinessInv, Queued, Consume
  <2>6. QED
    BY <1>0, <2>2, <2>4, <2>5 DEF ReadinessInv
<1>6. CASE ConsumeTrackErr
  BY <1>0, <1>6 DEF ConsumeTrackErr, ReadinessInv, Queued, Ledger
<1>7. CASE ConsumerReturns
  BY <1>0, <1>7, AloneInv DEF ConsumerReturns, consumer, ReadinessInv
<1>8. CASE Over \/ UNCHANGED ReadinessVars
  <2>1. UNCHANGED <<vars, consumer>>
    BY <1>8 DEF Over, Returned, Quiet, ReadinessVars
  <2>2. QED
    BY <1>0, <2>1, AloneInv DEF vars, consumer, ReadinessInv
<1>9. QED
  BY <1>1, <1>2, <1>3, <1>4, <1>5, <1>6, <1>7, <1>8
  DEF ReadinessNext, ConsumeAdded, ConsumeStatus, ConsumeAddedReplicaSet, ConsumeReady, ConsumeFailed,
      Buffered

LEMMA ReadinessInductive == ReadinessSpec => []ReadinessInv
BY ReadinessInductiveInit, ReadinessInductiveStep, PTL DEF ReadinessSpec

-----------------------------------------------------------------------------
(***************************************************************************)
(* The theorems.                                                           *)
(***************************************************************************)

\* The tracker, the channels within their sizes, and the consumer keep their types.
THEOREM ReadinessTypeCorrect == ReadinessSpec => []ReadinessTypeOK
<1>1. ReadinessInv => ReadinessTypeOK
  BY DEF ReadinessInv, ReadinessTypeOK, IInv, Queued, Ledger
<1>2. QED
  BY <1>1, ReadinessInductive, PTL

\* Only a report moves the task, and only a report or an error the verdict.
LEMMA VerdictSteps ==
  ASSUME ReadinessInv, [ReadinessNext]_ReadinessVars
  PROVE  \/ UNCHANGED <<task, verdict, fatalSent>>
         \/ ConsumeTrackErr
         \/ \E ch \in Buffered : ConsumeBuffered(ch)
         \/ \E ch \in {"Ready", "Failed"} : ConsumeUnbuffered(ch)
BY DEF ReadinessNext, ReadinessVars, consumer, TrackCancelled, TrackFails, Enqueue, ConsumeAdded,
   ConsumeStatus, ConsumeAddedReplicaSet, ConsumeReady, ConsumeFailed, ConsumerReturns, Over, Buffered

\* A resource is called ready only while the newest Deployment that the tracker
\* has seen is ready, whatever waits in the channels.
THEOREM ReadyIsNeverStale == ReadinessSpec => ReadyIsCurrent
<1>1. ASSUME ReadinessInv, [ReadinessNext]_ReadinessVars
      PROVE  [verdict' = "ready" => verdict = "ready" \/ DeploymentReady]_ReadinessVars
  <2>1. SUFFICES ASSUME verdict' = "ready", verdict # "ready" PROVE DeploymentReady
    OBVIOUS
  <2>2. CASE ConsumeTrackErr
    BY <1>1, <2>1, <2>2 DEF ConsumeTrackErr, ReadinessInv
  <2>3. ASSUME NEW ch \in Buffered, ConsumeBuffered(ch) PROVE FALSE
    <3> DEFINE r == Head(queue[ch])
    <3>1. Plain(r) /\ Consume(r) /\ verdict = "tracking" /\ ~ r.ready /\ r.ch # "Ready"
      BY <1>1, <2>3, ConsumeBufferedIs
    <3> HIDE DEF r
    <3>2. QED
      BY <1>1, <2>1, <3>1, Consumption
  <2>4. ASSUME NEW ch \in {"Ready", "Failed"}, ConsumeUnbuffered(ch) PROVE DeploymentReady
    <3>1. PICK r \in Report :
             /\ Plain(r) /\ Consume(r) /\ verdict = "tracking"
             /\ r.ch = ch /\ (ch = "Failed" => ~ r.ready)
             /\ t.out # <<>> /\ Head(t.out).ch = ch
      BY <1>1, <2>4, ConsumeUnbufferedIs
    <3>2. ch = "Ready"
      BY <1>1, <2>1, <3>1, Consumption
    <3>3. 1 \in DOMAIN t.out /\ t.out[1] = Head(t.out)
      BY <1>1, <3>1 DEF ReadinessInv, IInv, TypeOK, Tracker
    <3>4. QED
      BY <1>1, <3>1, <3>2, <3>3 DEF ReadinessInv, Tracking, Truthful, IsReady, DeploymentReady
  <2>5. QED
    BY <1>1, <2>1, <2>2, <2>3, <2>4, VerdictSteps
<1>2. QED
  BY <1>1, ReadinessInductive, PTL DEF ReadinessSpec, ReadyIsCurrent

\* The task fails only while the tracker itself is Failed, and by an event or a
\* ReplicaSet that it knows to be failing.
THEOREM FailureIsNeverStale == ReadinessSpec => FailureIsCurrent
<1>1. ASSUME ReadinessInv, [ReadinessNext]_ReadinessVars
      PROVE  [verdict' = "failed" =>
                verdict = "failed" \/ (t.State = "Failed" /\ Attributable(t))]_ReadinessVars
  <2>1. SUFFICES ASSUME verdict' = "failed", verdict # "failed"
                 PROVE  t.State = "Failed" /\ Attributable(t)
    OBVIOUS
  <2>2. CASE ConsumeTrackErr
    BY <1>1, <2>1, <2>2 DEF ConsumeTrackErr, ReadinessInv
  <2>3. ASSUME NEW ch \in Buffered, ConsumeBuffered(ch) PROVE FALSE
    <3> DEFINE r == Head(queue[ch])
    <3>1. Plain(r) /\ Consume(r) /\ verdict = "tracking" /\ ~ r.failed
      BY <1>1, <2>3, ConsumeBufferedIs
    <3> HIDE DEF r
    <3>2. QED
      BY <1>1, <2>1, <3>1, Consumption
  <2>4. ASSUME NEW ch \in {"Ready", "Failed"}, ConsumeUnbuffered(ch)
        PROVE  t.State = "Failed" /\ Attributable(t)
    <3>1. PICK r \in Report :
             /\ Plain(r) /\ Consume(r) /\ verdict = "tracking"
             /\ r.failed => ch = "Failed"
             /\ t.out # <<>> /\ Head(t.out).ch = ch
      BY <1>1, <2>4, ConsumeUnbufferedIs
    <3>2. ch = "Failed"
      BY <1>1, <2>1, <3>1, Consumption
    <3>3. 1 \in DOMAIN t.out /\ t.out[1] = Head(t.out)
      BY <1>1, <3>1 DEF ReadinessInv, IInv, TypeOK, Tracker
    <3>4. QED
      BY <1>1, <3>1, <3>2, <3>3 DEF ReadinessInv, Tracking, Truthful
  <2>5. QED
    BY <1>1, <2>1, <2>2, <2>3, <2>4, VerdictSteps
<1>2. QED
  BY <1>1, ReadinessInductive, PTL DEF ReadinessSpec, FailureIsCurrent

\* The tracker, its channels and its consumer implement ReadinessVerdict: each
\* report of a failure is charged once, the one the budget does not cover ends the
\* task in the same step, and the verdict is given once.
THEOREM BudgetIsRefined == ReadinessSpec => BudgetIsKept
<1>1. ReadinessInit => Verdict!Init
  <2> SUFFICES ASSUME ReadinessInit PROVE Verdict!Init
    OBVIOUS
  <2>1. PICK mode \in FailMode, allow \in AllowedFailures : task = NewReadinessTaskState(mode, allow)
    BY DEF ReadinessInit
  <2>2. task.allow \in Nat /\ task.errors = {}
    BY <2>1, CapacityAssumption DEF NewReadinessTaskState
  <2>3. Ledger(task)
    BY ReadinessInductiveInit DEF ReadinessInv
  <2>4. TotalErrors(task) = 0
    BY <2>2, <2>3, SpentIs, FS_EmptySet
  <2>5. QED
    BY <2>2, <2>4 DEF ReadinessInit, Verdict!Init
<1>2. ASSUME ReadinessInv, [ReadinessNext]_ReadinessVars
      PROVE  [Verdict!Next]_(Verdict!vars)
  <2>1. CASE UNCHANGED <<task, verdict, fatalSent>>
    BY <2>1 DEF Verdict!vars, TotalErrors, ResourceStates
  <2>2. CASE ConsumeTrackErr
    <3>1. verdict = "tracking" /\ verdict' \in {"error", "stopped"} /\ UNCHANGED <<task, fatalSent>>
      BY <1>2, <2>2 DEF ConsumeTrackErr, ReadinessInv
    <3>2. Verdict!GiveUp
      BY <3>1 DEF Verdict!GiveUp, TotalErrors, ResourceStates
    <3>3. QED
      BY <3>2 DEF Verdict!Next
  <2>3. ASSUME NEW ch \in Buffered, ConsumeBuffered(ch) PROVE [Verdict!Next]_(Verdict!vars)
    BY <1>2, <2>3, ConsumeBufferedIs, Consumption
  <2>4. ASSUME NEW ch \in {"Ready", "Failed"}, ConsumeUnbuffered(ch)
        PROVE  [Verdict!Next]_(Verdict!vars)
    BY <1>2, <2>4, ConsumeUnbufferedIs, Consumption
  <2>5. QED
    BY <1>2, <2>1, <2>2, <2>3, <2>4, VerdictSteps
<1>3. QED
  BY <1>1, <1>2, ReadinessInductive, PTL DEF ReadinessSpec, BudgetIsKept, Verdict!Spec

\* A consumer, which may leave at any moment, takes nothing from what is proved of
\* the tracker alone.
THEOREM TrackerUndisturbed ==
  ReadinessSpec => [](FailureIsAttributable /\ NothingSuppressed /\ KnownIsCurrent /\ DeletedStayUnknown)
<1>1. ReadinessInv =>
        FailureIsAttributable /\ NothingSuppressed /\ KnownIsCurrent /\ DeletedStayUnknown
  BY DEF ReadinessInv, IInv, Bookkeeping
<1>2. QED
  BY <1>1, ReadinessInductive, PTL
=============================================================================
