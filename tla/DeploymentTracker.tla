-------------------------- MODULE DeploymentTracker --------------------------
(***************************************************************************)
(* The Track loop of pkg/tracker/deployment: one goroutine that selects    *)
(* over the events of the Deployment informer, of the ReplicaSet informer, *)
(* of the events informer, of the quota timers and of the Pod relays, and  *)
(* turns them into messages for its consumer.                              *)
(*                                                                         *)
(* The struct *Tracker is the record t.  A select case is one action that  *)
(* computes the whole handler; the messages the handler sends go to t.out, *)
(* and the loop selects again only when all of them have been taken: the   *)
(* handler reads nothing that another goroutine writes, so the moment at   *)
(* which a send completes cannot change what the handler does after it.    *)
(*                                                                         *)
(* Pods are left to other modules: here their updates only make the loop   *)
(* compute a new status.  What the quota checks read of the cluster is an  *)
(* arbitrary answer.                                                       *)
(***************************************************************************)
EXTENDS Naturals, Sequences, FiniteSets

CONSTANTS
  UID,                 \* ReplicaSet UIDs: one for each incarnation
  DUID,                \* Deployment UIDs: one for each incarnation
  Name,                \* ReplicaSet names
  Template,            \* pod templates, hash label left out
  NameOf,              \* the name each ReplicaSet incarnation was created with
  TemplateOf,          \* and its pod template
  Rank,                \* its place in ReplicaSetsByCreationTimestamp
  InitialReplicaSets,  \* the ReplicaSets there may be when the tracker starts
  LiveStates,          \* the states a live ReplicaSet may be created in or brought to
  MaxChanges,          \* bound: changes of the cluster in one behaviour
  MayStop,             \* bound: may the context be cancelled, may an informer fail?
  None                 \* nil, the empty UID, a missing map entry

Failure == {"none", "transient", "invalid", "quota"}

\* A ReplicaSet and a Deployment as an informer hands them over.
Snapshot == [uid : UID, owner : DUID \cup {None}, failure : Failure]
Object   == [uid : DUID, template : Template, ready : BOOLEAN]

ReplicaSetState ==
  [phase : {"unborn", "live", "gone"}, selected : BOOLEAN,
   owner : DUID \cup {None}, failure : Failure]

ASSUME ConstantsAssumption ==
  /\ NameOf \in [UID -> Name]
  /\ TemplateOf \in [UID -> Template]
  /\ Rank \in [UID -> Nat]
  /\ \A u, v \in UID : Rank[u] = Rank[v] => u = v
  /\ IsFiniteSet(UID)
  /\ InitialReplicaSets \subseteq [UID -> ReplicaSetState]
  /\ LiveStates \subseteq {r \in ReplicaSetState : r.phase = "live"}
  /\ MaxChanges \in Nat
  /\ MayStop \in BOOLEAN

\* The API server admits one live object of a name.
ASSUME InitialAssumption ==
  \A r \in InitialReplicaSets : \A u, v \in UID :
    NameOf[u] = NameOf[v] /\ r[u].phase = "live" /\ r[v].phase = "live" => u = v

ASSUME NoneAssumption ==
  /\ None \notin UID \cup DUID
  /\ None \notin Snapshot
  /\ None \notin Object

VARIABLES
  depl,          \* the Deployment in the store of its informer, or None
  buf,           \* the channels resourceAdded, resourceModified, resourceDeleted
  rsets,         \* the ReplicaSets in the store of their informer
  watch,         \* the handler on that informer: "off", "listing" or "synced"
  seen,          \* the ReplicaSets the handler has been called for
  listing,       \* those of the initial list it has not finished with
  rsOffer,       \* what the handler, blocked in its sends, still has to send
  eventFailure,  \* is there a failure in the channel resourceFailed?
  recheck,       \* is there a token in the channel quotaDeadlockRecheck?
  staleTimers,   \* quota timers running for an entry that was deleted
  ctxDone,       \* has the context of Track been cancelled?
  pc,            \* "running" until Track returns
  changes,       \* changes of the cluster so far
  t              \* the tracker

env  == <<depl, rsets, watch, seen, listing, rsOffer, changes>>
vars == <<depl, buf, rsets, watch, seen, listing, rsOffer, eventFailure,
          recheck, staleTimers, ctxDone, pc, changes, t>>

TrackerState == {"Initial", "Added", "Failed", "Ready", "Deleted"}
Channel      == {"Added", "Ready", "Failed", "Status", "AddedReplicaSet"}
Mode         == {"counted", "fatal"}
Age          == {"none", "young", "due", "ripe"}
Message      == [ch : Channel, from : UID \cup {None}, mode : Mode]
Kind         == {"Added", "Modified", "Deleted", "Unselected"}
Event        == [kind : Kind, rs : Snapshot]

Tracker ==
  [State      : TrackerState,
   lastObject : Object \cup {None},
   known      : [Name -> Snapshot \cup {None}],  \* knownReplicaSets
   deleted    : SUBSET UID,                      \* deletedReplicaSetUIDs
   reported   : SUBSET UID,                      \* reportedReplicaSetFailures
   since      : [UID -> Age],                    \* quotaDeadlockSince
   failedFrom : UID \cup {None},                 \* failedFromReplicaSetUID
   synced     : BOOLEAN,                         \* replicaSetsSynced
   out        : Seq(Message)]                    \* sends not completed yet

TypeOK ==
  /\ depl \in Object \cup {None}
  /\ buf \in [{"Added", "Modified", "Deleted"} -> Object \cup {None}]
  /\ rsets \in [UID -> ReplicaSetState]
  /\ watch \in {"off", "listing", "synced"}
  /\ seen \subseteq UID
  /\ listing \subseteq UID
  /\ rsOffer \in Seq(Event)
  /\ eventFailure \in BOOLEAN
  /\ recheck \in BOOLEAN
  /\ staleTimers \in Nat
  /\ ctxDone \in BOOLEAN
  /\ pc \in {"running", "returned"}
  /\ changes \in 0 .. MaxChanges
  /\ t \in Tracker

-----------------------------------------------------------------------------
(***************************************************************************)
(* What the handlers do to the tracker.                                    *)
(***************************************************************************)
Msg(ch) == [ch |-> ch, from |-> None, mode |-> "counted"]

Send(d, m) == [d EXCEPT !.out = Append(@, m)]

\* The snapshots of knownReplicaSets.
Known(d) == {d.known[n] : n \in Name} \ {None}

\* controlledReplicaSets and the comparison of templates of FindNewReplicaSet.
Candidates(d) ==
  {s \in Known(d) : /\ s.owner = d.lastObject.uid
                    /\ TemplateOf[s.uid] = d.lastObject.template}

\* FindNewReplicaSet: the oldest candidate; a set with at most one element.
NewReplicaSet(d) ==
  {s \in Candidates(d) : \A r \in Candidates(d) : Rank[s.uid] <= Rank[r.uid]}

\* What is left of handleNewReplicaSetFailure's early returns: the new
\* ReplicaSet, if the tracker can judge it and it carries a FailedCreate.
FailingNew(d) ==
  IF d.lastObject = None \/ ~ d.synced
    THEN {}
    ELSE {s \in NewReplicaSet(d) : s.failure # "none"}

ClearReplicaSetFailure(d, u) ==
  IF d.failedFrom # u
    THEN d
    ELSE [d EXCEPT !.failedFrom = None,
                   !.State = IF @ = "Failed" THEN "Added" ELSE @]

\* Mutant: the suspicion outlives the failure it was about.
ForgetReportOnly(d, u) == [d EXCEPT !.reported = @ \ {u}]

ForgetReplicaSetFailure(d, u) ==
  [d EXCEPT !.reported = @ \ {u}, !.since[u] = "none"]

\* Mutant: the tracker stays Failed when the failure ends.
AbsolveReportOnly(d, u) == ForgetReplicaSetFailure(d, u)

Absolve(d, u) == ClearReplicaSetFailure(ForgetReplicaSetFailure(d, u), u)

RearmReplicaSetFailure(d, s) ==
  IF s.failure # "none" THEN d ELSE Absolve(d, s.uid)

\* A failure without a ReplicaSet (u = None) comes from the events informer.
HandleResourceFailure(d, u, mode) ==
  Send([d EXCEPT !.State = "Failed", !.failedFrom = u],
       [ch |-> "Failed", from |-> u, mode |-> mode])

\* deploymentCanRecover is TRUE when the failure is not about a quota.
ReplicaSetFailureMode(failure, deploymentCanRecover) ==
  IF failure = "invalid" \/ (failure = "quota" /\ ~ deploymentCanRecover)
    THEN "fatal"
    ELSE "counted"

\* A deadlock is suspected but has not been held long enough: no decision.
\* canRelease is the answer of deploymentCanReleaseQuota.
Undecided(d, s, canRelease) ==
  s.failure = "quota" /\ ~ canRelease /\ d.since[s.uid] \in {"none", "young"}

\* time.Now() and time.AfterFunc when the suspicion is new.
Suspect(d, u) ==
  [d EXCEPT !.since[u] = IF @ = "none" THEN "young" ELSE @]

\* Mutant: a failure is not remembered as reported.
ReportForgotten(d, s, canRelease) ==
  HandleResourceFailure(d, s.uid, ReplicaSetFailureMode(s.failure, canRelease))

ReportNewFailure(d, s, canRelease) ==
  HandleResourceFailure([d EXCEPT !.reported = @ \cup {s.uid}], s.uid,
                        ReplicaSetFailureMode(s.failure, canRelease))

\* The part of handleNewReplicaSetFailure that follows its first returns.
JudgeNewFailure(d, s, canRelease) ==
  CASE d.lastObject.ready          -> Absolve(d, s.uid)
    [] /\ ~ d.lastObject.ready
       /\ s.uid \in d.reported     -> d
    [] /\ ~ d.lastObject.ready
       /\ s.uid \notin d.reported
       /\ Undecided(d, s, canRelease)   -> Suspect(d, s.uid)
    [] /\ ~ d.lastObject.ready
       /\ s.uid \notin d.reported
       /\ ~ Undecided(d, s, canRelease) -> ReportNewFailure(d, s, canRelease)

HandleNewReplicaSetFailure(d, canRelease) ==
  IF FailingNew(d) = {}
    THEN d
    ELSE JudgeNewFailure(d, CHOOSE s \in FailingNew(d) : TRUE, canRelease)

\* Mutant: the switch has no case for a tracker that is Failed either.
StatusChannelForgetsFailed(state, ready) ==
  CASE state \in {"Ready", "Failed"}                          -> {}
    [] state \notin {"Ready", "Failed"} /\ ready             -> {"Ready"}
    [] state \in {"Initial", "Deleted"} /\ ~ ready           -> {"Added"}
    [] state = "Added" /\ ~ ready                            -> {"Status"}

\* The channel handleDeploymentState sends the new status on, if any: the
\* switch has no case for a tracker that is Ready.
StatusChannel(state, ready) ==
  CASE state = "Ready"                          -> {}
    [] state # "Ready" /\ ready                 -> {"Ready"}
    [] state \in {"Initial", "Deleted"} /\ ~ ready -> {"Added"}
    [] state \in {"Added", "Failed"} /\ ~ ready -> {"Status"}

HandleDeploymentState(d, object) ==
  LET seenObject == [d EXCEPT !.lastObject = object]
      channel == StatusChannel(d.State, object.ready)
      ch == CHOOSE c \in channel : TRUE
  IN IF channel = {}
       THEN seenObject
       ELSE Send([seenObject EXCEPT !.State = IF ch = "Status" THEN @ ELSE ch],
                 Msg(ch))

ResetOnDelete(d) ==
  Send([d EXCEPT !.State = "Deleted", !.lastObject = None,
                 !.known = [n \in Name |-> None], !.deleted = {},
                 !.reported = {}, !.since = [u \in UID |-> "none"],
                 !.failedFrom = None],
       Msg("Status"))

AddKnown(d, s) ==
  RearmReplicaSetFailure([d EXCEPT !.known[NameOf[s.uid]] = s], s)

\* Dropping the ReplicaSet by name alone would lose a live successor.
DropKnown(d, s) ==
  LET n == NameOf[s.uid]
  IN [d EXCEPT !.known[n] = IF @ # None /\ @.uid = s.uid THEN None ELSE @]

\* Mutant: what is known already is not updated.
MayInsert(d, s) == d.known[NameOf[s.uid]] = None

\* A same-named successor may already be known.
MayUpdate(d, s) ==
  \/ d.known[NameOf[s.uid]] = None
  \/ d.known[NameOf[s.uid]].uid = s.uid

-----------------------------------------------------------------------------
(***************************************************************************)
(* The select cases.                                                       *)
(***************************************************************************)
Selecting == pc = "running" /\ t.out = <<>>

\* A deleted entry of quotaDeadlockSince leaves its timer running.
Running(d) == {u \in UID : d.since[u] \in {"young", "due"}}
Become(d) ==
  /\ t' = d
  /\ staleTimers' = staleTimers + Cardinality({u \in Running(t) : d.since[u] = "none"})

\* The first Deployment starts the other informers.
StartInformers ==
  IF t.State # "Initial"
    THEN UNCHANGED <<watch, listing>>
    ELSE /\ watch' = "listing"
         /\ listing' = {u \in UID : rsets[u].phase = "live"}

HandleResource(kind) ==
  /\ Selecting
  /\ buf[kind] # None
  /\ buf' = [buf EXCEPT ![kind] = None]
  /\ StartInformers
  /\ \E canRelease \in BOOLEAN :
       Become(HandleNewReplicaSetFailure(HandleDeploymentState(t, buf[kind]), canRelease))
  /\ UNCHANGED <<depl, rsets, seen, rsOffer, changes, eventFailure, recheck, ctxDone, pc>>

HandleResourceAdded    == HandleResource("Added")
HandleResourceModified == HandleResource("Modified")

HandleResourceDeleted ==
  /\ Selecting
  /\ buf["Deleted"] # None
  /\ buf' = [buf EXCEPT !["Deleted"] = None]
  /\ Become(ResetOnDelete(t))
  /\ UNCHANGED <<env, eventFailure, recheck, ctxDone, pc>>

HandleResourceFailed ==
  /\ Selecting
  /\ eventFailure
  /\ eventFailure' = FALSE
  /\ t' = IF t.lastObject = None THEN t ELSE HandleResourceFailure(t, None, "counted")
  /\ UNCHANGED <<env, buf, recheck, staleTimers, ctxDone, pc>>

\* The receive that lets the blocked informer handler go on.
Receive(kind) ==
  /\ Selecting
  /\ rsOffer # <<>>
  /\ Head(rsOffer).kind = kind
  /\ rsOffer' = Tail(rsOffer)
  /\ listing' = listing \ {Head(rsOffer).rs.uid}
  /\ UNCHANGED <<depl, buf, rsets, watch, seen, changes, eventFailure, recheck, ctxDone, pc>>

HandleReplicaSetAdded ==
  /\ Receive("Added")
  /\ LET s == Head(rsOffer).rs
         d == AddKnown(t, s)
         announced == IF d.lastObject = None THEN d ELSE Send(d, Msg("AddedReplicaSet"))
     IN \E canRelease \in BOOLEAN :
          Become(IF s.uid \in t.deleted THEN t ELSE HandleNewReplicaSetFailure(announced, canRelease))

HandleReplicaSetModified ==
  /\ Receive("Modified")
  /\ LET s == Head(rsOffer).rs
     IN \E canRelease \in BOOLEAN :
          Become(IF s.uid \notin t.deleted /\ MayUpdate(t, s)
                   THEN HandleNewReplicaSetFailure(AddKnown(t, s), canRelease)
                   ELSE t)

\* Mutant: a deletion that promotes a failing ReplicaSet is not judged.
HandleReplicaSetDeletedOnly ==
  /\ Receive("Deleted")
  /\ LET s == Head(rsOffer).rs
     IN Become(Absolve(DropKnown([t EXCEPT !.deleted = @ \cup {s.uid}], s), s.uid))

HandleReplicaSetDeleted ==
  /\ Receive("Deleted")
  /\ LET s == Head(rsOffer).rs
         tombstoned == [t EXCEPT !.deleted = @ \cup {s.uid}]
     IN \E canRelease \in BOOLEAN :
          Become(HandleNewReplicaSetFailure(Absolve(DropKnown(tombstoned, s), s.uid), canRelease))

HandleReplicaSetUnselected ==
  /\ Receive("Unselected")
  /\ LET s == Head(rsOffer).rs
     IN \E canRelease \in BOOLEAN :
          Become(HandleNewReplicaSetFailure(Absolve(DropKnown(t, s), s.uid), canRelease))

HandleReplicaSetSynced ==
  /\ Selecting
  /\ watch = "listing"
  /\ listing = {}
  /\ watch' = "synced"
  /\ \E canRelease \in BOOLEAN : Become(HandleNewReplicaSetFailure([t EXCEPT !.synced = TRUE], canRelease))
  /\ UNCHANGED <<depl, buf, rsets, seen, listing, rsOffer, changes, eventFailure, recheck,
                 ctxDone, pc>>

HandleQuotaDeadlockRecheck ==
  /\ Selecting
  /\ recheck
  /\ recheck' = FALSE
  /\ \E canRelease \in BOOLEAN : Become(HandleNewReplicaSetFailure(t, canRelease))
  /\ UNCHANGED <<env, buf, eventFailure, ctxDone, pc>>

\* podStatusesRelay and donePodsRelay: the same Deployment, a new status.
HandlePodUpdate ==
  /\ Selecting
  /\ watch # "off"
  /\ t.lastObject # None
  /\ t' = HandleDeploymentState(t, t.lastObject)
  /\ UNCHANGED <<env, buf, eventFailure, recheck, staleTimers, ctxDone, pc>>

\* Mutant: the context is watched only while there is no Deployment.
HandleCtxDoneBeforeFound ==
  /\ Selecting
  /\ ctxDone
  /\ t.lastObject = None
  /\ pc' = "returned"
  /\ UNCHANGED <<env, buf, eventFailure, recheck, staleTimers, ctxDone, t>>

HandleCtxDone ==
  /\ Selecting
  /\ ctxDone
  /\ pc' = "returned"
  /\ UNCHANGED <<env, buf, eventFailure, recheck, staleTimers, ctxDone, t>>

\* An informer could not be started, or it or the tracker of a Pod sent on
\* d.errors.
HandleError ==
  /\ Selecting
  /\ MayStop
  /\ pc' = "returned"
  /\ UNCHANGED <<env, buf, eventFailure, recheck, staleTimers, ctxDone, t>>

\* Of all its sends Track gives up only that of a failure.
AbortFailedSend ==
  /\ pc = "running"
  /\ t.out # <<>>
  /\ Head(t.out).ch = "Failed"
  /\ ctxDone
  /\ pc' = "returned"
  /\ UNCHANGED <<env, buf, eventFailure, recheck, staleTimers, ctxDone, t>>

Track ==
  \/ HandleResourceAdded
  \/ HandleResourceModified
  \/ HandleResourceDeleted
  \/ HandleResourceFailed
  \/ HandleReplicaSetAdded
  \/ HandleReplicaSetModified
  \/ HandleReplicaSetDeleted
  \/ HandleReplicaSetUnselected
  \/ HandleReplicaSetSynced
  \/ HandleQuotaDeadlockRecheck
  \/ HandlePodUpdate
  \/ HandleCtxDone
  \/ HandleError
  \/ AbortFailedSend

-----------------------------------------------------------------------------
(***************************************************************************)
(* The informers, the timers and the consumer.  A change of the cluster is *)
(* taken here at the moment its informer calls the handler: the tracker    *)
(* sees nothing of the cluster before that.                                *)
(***************************************************************************)
Change ==
  /\ pc = "running" /\ ~ ctxDone
  /\ changes < MaxChanges
  /\ changes' = changes + 1

\* The handler of the Deployment informer fills a channel with one place.
DeploymentEvent(kind, new, sent) ==
  /\ Change
  /\ buf[kind] = None
  /\ depl' = new
  /\ buf' = [buf EXCEPT ![kind] = sent]
  /\ UNCHANGED <<rsets, watch, seen, listing, rsOffer, eventFailure, recheck, staleTimers,
                 ctxDone, pc, t>>

DeploymentAdded ==
  /\ depl = None
  /\ \E o \in Object : DeploymentEvent("Added", o, o)

\* A Deployment deleted and created again may arrive as one update.
DeploymentModified ==
  /\ depl # None
  /\ \E o \in Object \ {depl} : DeploymentEvent("Modified", o, o)

DeploymentDeleted ==
  /\ depl # None
  /\ DeploymentEvent("Deleted", None, depl)

\* The handler on the ReplicaSet informer is idle and past the initial list.
HandlerIdle == rsOffer = <<>> /\ (watch = "off" \/ listing \subseteq seen)

SnapshotOf(u, r) == [uid |-> u, owner |-> r.owner, failure |-> r.failure]
EventOf(kind, u, r) == [kind |-> kind, rs |-> SnapshotOf(u, r)]
If(condition, event) == IF condition THEN <<event>> ELSE <<>>

ReplicaSetEvent(newSets, newSeen, events) ==
  /\ Change
  /\ HandlerIdle
  /\ rsets' = newSets
  /\ seen' = newSeen
  /\ rsOffer' = IF watch = "off" THEN <<>> ELSE events
  /\ UNCHANGED <<depl, buf, watch, listing, eventFailure, recheck, staleTimers, ctxDone, pc, t>>

Live(u) == rsets[u].phase = "live"
Watched(s) == IF watch = "off" THEN {} ELSE s

\* AddFunc, for a ReplicaSet created now.
ReplicaSetCreated(u) ==
  /\ rsets[u].phase = "unborn"
  /\ \A v \in UID : NameOf[v] = NameOf[u] => ~ Live(v)
  /\ \E r \in LiveStates : ReplicaSetEvent([rsets EXCEPT ![u] = r], seen \cup Watched({u}),
                                     If(r.selected, EventOf("Added", u, r)))

\* UpdateFunc with the same UID.
ReplicaSetUpdated(u) ==
  /\ Live(u)
  /\ \E r \in LiveStates \ {rsets[u]} :
       ReplicaSetEvent([rsets EXCEPT ![u] = r], seen,
         CASE rsets[u].selected /\ r.selected     -> <<EventOf("Modified", u, r)>>
           [] rsets[u].selected /\ ~ r.selected   -> <<EventOf("Unselected", u, r)>>
           [] ~ rsets[u].selected /\ r.selected   -> <<EventOf("Added", u, r)>>
           [] ~ rsets[u].selected /\ ~ r.selected -> <<>>)

\* Mutant: a replacement is an update like any other.
ReplicaSetReplacedAsUpdate(u, v) ==
  /\ Live(u)
  /\ NameOf[v] = NameOf[u]
  /\ rsets[v].phase = "unborn"
  /\ \E r \in LiveStates :
       ReplicaSetEvent([rsets EXCEPT ![u].phase = "gone", ![v] = r],
                       (seen \ {u}) \cup Watched({v}),
                       If(r.selected, EventOf("Modified", v, r)))

\* UpdateFunc with a new UID: the deletion in between was not watched.
ReplicaSetReplaced(u, v) ==
  /\ Live(u)
  /\ NameOf[v] = NameOf[u]
  /\ rsets[v].phase = "unborn"
  /\ \E r \in LiveStates :
       ReplicaSetEvent([rsets EXCEPT ![u].phase = "gone", ![v] = r],
                       (seen \ {u}) \cup Watched({v}),
                       If(rsets[u].selected, EventOf("Deleted", u, rsets[u]))
                         \o If(r.selected, EventOf("Added", v, r)))

\* DeleteFunc.
ReplicaSetDeleted(u) ==
  /\ Live(u)
  /\ ReplicaSetEvent([rsets EXCEPT ![u].phase = "gone"], seen \ {u},
                     If(rsets[u].selected, EventOf("Deleted", u, rsets[u])))

\* AddFunc, for a ReplicaSet of the initial list.
ReplicaSetListed(u) ==
  /\ pc = "running" /\ ~ ctxDone
  /\ watch = "listing"
  /\ rsOffer = <<>>
  /\ u \in listing \ seen
  /\ seen' = seen \cup {u}
  /\ rsOffer' = If(rsets[u].selected, EventOf("Added", u, rsets[u]))
  /\ listing' = IF rsets[u].selected THEN listing ELSE listing \ {u}
  /\ UNCHANGED <<depl, buf, rsets, watch, eventFailure, recheck, staleTimers, ctxDone, pc,
                 changes, t>>

\* The events informer is started with that of the ReplicaSets.
EventFailure ==
  /\ Change
  /\ watch # "off"
  /\ ~ eventFailure
  /\ eventFailure' = TRUE
  /\ UNCHANGED <<depl, buf, rsets, watch, seen, listing, rsOffer, recheck, staleTimers,
                 ctxDone, pc, t>>

\* quotaDeadlockConfirmation has passed since the suspicion.
Elapse(u) ==
  /\ pc = "running"
  /\ t.since[u] = "young"
  /\ t' = [t EXCEPT !.since[u] = "due"]
  /\ UNCHANGED <<env, buf, eventFailure, recheck, staleTimers, ctxDone, pc>>

\* Mutant: the channel has no place and the loop is busy, so the token is dropped.
TimerFiresUnheard(u) ==
  /\ pc = "running"
  /\ t.since[u] = "due"
  /\ t' = [t EXCEPT !.since[u] = "ripe"]
  /\ UNCHANGED <<env, buf, eventFailure, recheck, staleTimers, ctxDone, pc>>

\* The timer fires; a token that finds the channel full is dropped.
TimerFires(u) ==
  /\ pc = "running"
  /\ t.since[u] = "due"
  /\ t' = [t EXCEPT !.since[u] = "ripe"]
  /\ recheck' = TRUE
  /\ UNCHANGED <<env, buf, eventFailure, staleTimers, ctxDone, pc>>

StaleTimerFires ==
  /\ pc = "running"
  /\ staleTimers > 0
  /\ staleTimers' = staleTimers - 1
  /\ recheck' = TRUE
  /\ UNCHANGED <<env, buf, eventFailure, ctxDone, pc, t>>

\* A send completes: into the channel, or by the consumer's receive.
Sent ==
  /\ pc = "running"
  /\ t.out # <<>>
  /\ t' = [t EXCEPT !.out = Tail(@)]
  /\ UNCHANGED <<env, buf, eventFailure, recheck, staleTimers, ctxDone, pc>>

Cancel ==
  /\ MayStop
  /\ ~ ctxDone
  /\ ctxDone' = TRUE
  /\ UNCHANGED <<env, buf, eventFailure, recheck, staleTimers, pc, t>>

\* SendOrDone gives up one event; the next one may still find a receiver.
DropOffer ==
  /\ ctxDone
  /\ rsOffer # <<>>
  /\ rsOffer' = Tail(rsOffer)
  /\ listing' = listing \ {Head(rsOffer).rs.uid}
  /\ UNCHANGED <<depl, buf, rsets, watch, seen, changes, eventFailure, recheck,
                 staleTimers, ctxDone, pc, t>>

Returned == pc = "returned" /\ UNCHANGED vars

\* Everything has been consumed and the loop waits for a cluster at rest.
Quiet ==
  /\ Selecting
  /\ \A kind \in DOMAIN buf : buf[kind] = None
  /\ rsOffer = <<>>
  /\ ~ eventFailure /\ ~ recheck
  /\ changes = MaxChanges
  /\ UNCHANGED vars

Environment ==
  \/ DeploymentAdded \/ DeploymentModified \/ DeploymentDeleted
  \/ \E u \in UID : \/ ReplicaSetCreated(u)
                    \/ ReplicaSetUpdated(u)
                    \/ ReplicaSetDeleted(u)
                    \/ ReplicaSetListed(u)
                    \/ Elapse(u)
                    \/ TimerFires(u)
  \/ \E u, v \in UID : ReplicaSetReplaced(u, v)
  \/ EventFailure
  \/ StaleTimerFires
  \/ Sent
  \/ Cancel
  \/ DropOffer
  \/ Returned
  \/ Quiet

Init ==
  /\ depl \in Object \cup {None}
  /\ buf = [k \in {"Added", "Modified", "Deleted"} |-> IF k = "Added" THEN depl ELSE None]
  /\ rsets \in InitialReplicaSets
  /\ watch = "off" /\ seen = {} /\ listing = {} /\ rsOffer = <<>>
  /\ eventFailure = FALSE /\ recheck = FALSE /\ staleTimers = 0
  /\ ctxDone = FALSE /\ pc = "running" /\ changes = 0
  /\ t = [State |-> "Initial", lastObject |-> None, known |-> [n \in Name |-> None],
          deleted |-> {}, reported |-> {}, since |-> [u \in UID |-> "none"],
          failedFrom |-> None, synced |-> FALSE, out |-> <<>>]

Next == Track \/ Environment

Spec == Init /\ [][Next]_vars

\* Go's select takes each ready case sooner or later, timers fire, and the
\* consumer receives for as long as it has not cancelled the tracker.
Fairness ==
  /\ WF_vars(Sent /\ ~ ctxDone)
  /\ \A u \in UID : WF_vars(Elapse(u)) /\ WF_vars(TimerFires(u))
  /\ SF_vars(HandleQuotaDeadlockRecheck)

FairSpec == Spec /\ Fairness

-----------------------------------------------------------------------------
(***************************************************************************)
(* Properties.                                                             *)
(***************************************************************************)

\* A tombstone and a live entry of the same incarnation exclude each other:
\* no order of events resurrects a ReplicaSet whose deletion was handled.
DeletedStayUnknown == \A s \in Known(t) : s.uid \notin t.deleted

Attributable(d) ==
  d.failedFrom # None =>
    \E s \in Known(d) : /\ s.uid = d.failedFrom
                         /\ s.failure # "none"
                         /\ s.uid \in d.reported

\* The failure the tracker is stuck with is always one it has reported, of a
\* ReplicaSet it still knows to be failing: whatever ends the failure clears it.
\* (After the context is done, the event that would have cleared it may be lost.)
FailureIsAttributable == ctxDone \/ Attributable(t)

Settled(d, token) ==
  \A s \in FailingNew(d) :
    \/ d.lastObject.ready
    \/ s.uid \in d.reported
    \/ /\ s.failure = "quota"
       /\ \/ d.since[s.uid] \in {"young", "due"}
          \/ d.since[s.uid] = "ripe" /\ token

\* Whichever event made it so - its own, a deletion that promoted it, a change
\* of the template, the end of the initial list - a failing new ReplicaSet of a
\* Deployment that is not ready has been reported, or is a suspected quota
\* deadlock with a timer or a token left to decide it.
NothingSuppressed == Settled(t, recheck)

\* What the tracker knows of a ReplicaSet is what its informer has, except for
\* what the handler is still sending: no snapshot is overwritten by an older
\* one, and none outlives its ReplicaSet or its place under the selector.
KnownIsCurrent ==
  ctxDone \/
  \A s \in Known(t) :
    \/ \E i \in DOMAIN rsOffer : rsOffer[i].rs.uid = s.uid
    \/ /\ rsets[s.uid].phase = "live"
       /\ rsets[s.uid].selected
       /\ s = SnapshotOf(s.uid, rsets[s.uid])

\* A suspected quota deadlock does not stay undecided.
AwaitsDecision(u) ==
  \E s \in FailingNew(t) : s.uid = u /\ ~ t.lastObject.ready /\ u \notin t.reported

QuotaFailureIsDecided ==
  \A u \in UID : AwaitsDecision(u) ~> (~ AwaitsDecision(u) \/ ctxDone \/ pc = "returned")

\* The failures a step of the tracker from d to e reports.
Reports(d, e) ==
  IF Len(e.out) <= Len(d.out)
    THEN {}
    ELSE {m \in {e.out[i] : i \in DOMAIN e.out} : m.ch = "Failed"}
=============================================================================
