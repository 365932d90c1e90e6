-------------------------- MODULE DeploymentHistory --------------------------
(***************************************************************************)
(* DeploymentTracker with three history variables, computed from what the  *)
(* tracker consumes and sends and never from its own bookkeeping, to state *)
(* what that bookkeeping is for.                                           *)
(***************************************************************************)
EXTENDS DeploymentTracker

VARIABLES
  charged,    \* ReplicaSets whose failure was reported and never absolved since
  suspicion,  \* for each: no deadlock seen, one seen, or one held long enough
  wiped       \* has a deletion of the Deployment been handled?

history == <<charged, suspicion, wiped>>

\* The event of the ReplicaSet informer this step consumes.
Consumed == IF Len(rsOffer') < Len(rsOffer) /\ ~ ctxDone THEN {Head(rsOffer)} ELSE {}

DeletionHandled == buf["Deleted"] # None /\ buf'["Deleted"] = None

\* What ends a failure: the condition is gone, the ReplicaSet is gone, its
\* Deployment is gone, or its Deployment turned out to be ready without it.
Absolved ==
  IF DeletionHandled
    THEN UID
    ELSE {ev.rs.uid : ev \in {c \in Consumed : \/ c.kind \in {"Deleted", "Unselected"}
                                               \/ c.rs.failure = "none"}}
         \cup {s.uid : s \in {f \in FailingNew(t') : t'.lastObject.ready}}

Charged == {m.from : m \in Reports(t, t')} \ {None}

\* A quota check found no way out for the failing new ReplicaSet.
Checked == {u \in UID : t'.since[u] = "young" /\ t.since[u] = "none"}

HistoryInit ==
  /\ Init
  /\ charged = {}
  /\ suspicion = [u \in UID |-> "none"]
  /\ wiped = FALSE

HistoryNext ==
  /\ Next
  /\ charged' = (charged \ Absolved) \cup Charged
  /\ suspicion' = [u \in UID |->
       CASE u \in Checked                               -> "seen"
         [] u \notin Checked /\ u \in Absolved          -> "none"
         [] u \notin Checked \cup Absolved /\ t'.since[u] = "due"  -> "held"
         [] u \notin Checked \cup Absolved /\ t'.since[u] # "due" -> suspicion[u]]
  /\ wiped' = (wiped \/ DeletionHandled)

HistorySpec == HistoryInit /\ [][HistoryNext]_<<vars, history>>

\* The failure of one incarnation of a ReplicaSet is charged to the consumer's
\* error budget once, however many events repeat it, until something ends it.
ChargedOncePerFailure ==
  [][Charged \cap (charged \ Absolved) = {}]_<<vars, history>>

\* A quota failure is fatal only when two checks found no way out, at least
\* quotaDeadlockConfirmation apart, and nothing ended the failure between them.
FatalQuotaIsConfirmed ==
  [][\A m \in Reports(t, t') :
       (m.mode = "fatal" /\ \E s \in Known(t') : s.uid = m.from /\ s.failure = "quota")
         => suspicion[m.from] = "held" /\ m.from \notin Absolved]_<<vars, history>>

\* Until the Deployment is deleted, every ReplicaSet the handler has finished
\* with is known: no event is lost between the informer and the map.
KnownIsComplete ==
  wiped \/ ctxDone \/
  \A u \in seen :
    \/ \E i \in DOMAIN rsOffer : rsOffer[i].rs.uid = u
    \/ ~ rsets[u].selected
    \/ \E s \in Known(t) : s.uid = u
=============================================================================
