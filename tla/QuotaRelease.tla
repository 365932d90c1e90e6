---------------------------- MODULE QuotaRelease ----------------------------
(***************************************************************************)
(* The quota inspection of the Deployment tracker: the new ReplicaSet fails *)
(* to create a Pod because a quota is exceeded, and the tracker finds out  *)
(* whether the rollout itself can still release quota.  The verdict FALSE,  *)
(* when it is repeated after a while, fails the deploy.                    *)
(*                                                                         *)
(* The check reads the ReplicaSets it knows, the Pods and the quota, at    *)
(* different moments, while the controllers of the cluster go on: the      *)
(* Deployment controller, the ReplicaSet controller, the kubelet, the      *)
(* quota controller and whoever else uses the quota.  These are external,  *)
(* by the rules that the comments of the inspection rely on.  When a check *)
(* is made, how FALSE is confirmed and how the verdict is kept is           *)
(* DeploymentTracker's subject; here there is one Deployment, whose        *)
(* specification does not change, and the quota is one of Pods, of which   *)
(* each takes one.                                                         *)
(***************************************************************************)
EXTENDS Integers, FiniteSets, FiniteSetsExt

CONSTANTS
  Old, New,     \* the ReplicaSets of the Deployment
  Deployments,  \* the specifications that are looked at
  Hard,         \* the quotas that are looked at
  MaxOthers,    \* bound: Pods of others that the quota counts
  MaxChanges,   \* bound: what others do to the quota, and Pods that fail
  Nil           \* a status field that the cluster does not fill

RS == Old \cup {New}

IntOrPercent == [percent : BOOLEAN, n : Nat]

Deployment ==
  [strategy : {"RollingUpdate", "Recreate"}, replicas : Nat \ {0}, maxSurge : IntOrPercent,
   maxUnavailable : IntOrPercent, reportsTerminating : BOOLEAN]

ASSUME QuotaConstantsAssumption ==
  /\ New \notin Old /\ IsFiniteSet(Old) /\ Old # {}
  /\ Deployments \subseteq Deployment
  /\ Hard \subseteq Nat /\ {MaxOthers, MaxChanges} \subseteq Nat
  /\ Nil \notin Nat

VARIABLES
  deploy,   \* the Deployment: lastObject, and the same in the cluster
  rs,       \* the ReplicaSets and their Pods in the cluster
  others,   \* the Pods of others
  hard,     \* the quota: its limit
  used,     \* and status.used, which the quota controller corrects
  cache,    \* knownReplicaSets
  check,    \* where the check is: "idle", about to list "pods", to get the "quota"
  verdict,   \* can the Deployment release quota: "none" yet, "yes", which is kept while
            \* the condition stands, or "no", which is asked again
  changes,  \* changes so far
  current,  \* history: was the last "no" read from what was so, and has nothing but the
            \* rollout released quota since?
  sure      \* history: was the rollout stuck, in plain sight, all through the check?

cluster == <<deploy, rs, others, hard, used, changes>>
tracker == <<cache, check, verdict>>
history == <<current, sure>>
vars    == <<cluster, tracker, history>>

ReplicaSet ==
  [spec : Nat, pending : Nat, available : Nat, terminating : Nat, over : Nat,
   replicas : Nat,                  \* status.replicas
   statusTerminating : Nat \cup {Nil},
   failing : BOOLEAN]               \* FailedCreate: exceeded quota

Snapshot(r) ==
  [spec |-> rs[r].spec, replicas |-> rs[r].replicas, failing |-> rs[r].failing,
   statusTerminating |-> rs[r].statusTerminating]

QuotaTypeOK ==
  /\ deploy \in Deployments
  /\ rs \in [RS -> ReplicaSet]
  /\ others \in 0 .. MaxOthers /\ hard \in Hard /\ used \in Nat
  /\ cache \in [RS -> [spec : Nat, replicas : Nat, statusTerminating : Nat \cup {Nil},
                       failing : BOOLEAN]]
  /\ check \in {"idle", "pods", "quota"}
  /\ verdict \in {"none", "yes", "no"}
  /\ changes \in 0 .. MaxChanges
  /\ current \in BOOLEAN /\ sure \in BOOLEAN

Active(r) == rs[r].pending + rs[r].available

\* The sum of n[r] over the ReplicaSets of S: each of them has its places numbered.
Total(n, S) == Cardinality(UNION {{r} \X (1 .. n[r]) : r \in S})

\* The Pods that the quota counts; those that are over do not count.
Actual == others + Total([r \in RS |-> Active(r) + rs[r].terminating], RS)

-----------------------------------------------------------------------------
(***************************************************************************)
(* The arithmetic of a rolling update.                                     *)
(***************************************************************************)

\* intstr.GetScaledValueFromIntOrPercent
Scaled(v, total, up) ==
  IF v.percent THEN (v.n * total + (IF up THEN 99 ELSE 0)) \div 100 ELSE v.n

\* What the tracker makes of maxUnavailable.
MaxUnavailable ==
  LET surge == Scaled(deploy.maxSurge, deploy.replicas, TRUE)
      unavailable == Scaled(deploy.maxUnavailable, deploy.replicas, FALSE)
  IN Min({deploy.replicas, IF surge = 0 /\ unavailable = 0 THEN 1 ELSE unavailable})

OldDesired == Total([r \in Old |-> cache[r].spec], Old)

\* The bug NoDeadlockIsMissed looks for: one of them is enough.
RolloutCanReleaseQuotaAtMinimum(activeNewPods) ==
  /\ \E r \in Old : cache[r].spec > 0
  /\ OldDesired + activeNewPods >= deploy.replicas - MaxUnavailable

\* rolloutCanReleaseQuota: would an old ReplicaSet be scaled down if all the Pods of
\* the new one became available, or is one being scaled down?  The API server admits no
\* other strategy, no RollingUpdate without its parameters and none that cannot be scaled.
RolloutCanReleaseQuota(activeNewPods) ==
  \/ \E r \in Old : /\ cache[r].statusTerminating # Nil
                    /\ cache[r].statusTerminating > 0
  \/ \E r \in Old : cache[r].replicas > cache[r].spec
  \/ /\ \E r \in Old : cache[r].spec > 0
     /\ \/ deploy.strategy = "Recreate"
        \/ OldDesired + activeNewPods > deploy.replicas - MaxUnavailable

\* The bug FatalIsFinal looks for: Pods that terminate are passed over, as those that
\* are over are.
ReleasingWithoutTerminating == \E r \in Old : Active(r) > cache[r].spec

\* inspectRolloutPods: Pods are read from the cluster, what is desired is known.
Releasing ==
  \/ \E r \in RS : rs[r].terminating > 0
  \/ \E r \in Old : Active(r) > cache[r].spec

\* quotaStillExceeded, for one Pod more.
StillExceeded == used + 1 > hard

-----------------------------------------------------------------------------
(***************************************************************************)
(* The cluster, external.                                                  *)
(***************************************************************************)

\* ResolveFenceposts and MaxUnavailable of the Deployment controller: what it keeps
\* available, and what it may have at most.
SurgeOf == Scaled(deploy.maxSurge, deploy.replicas, TRUE)

UnavailableOf ==
  LET rounded == Scaled(deploy.maxUnavailable, deploy.replicas, FALSE)
  IN IF SurgeOf = 0 /\ rounded = 0 THEN 1 ELSE rounded

\* How many of the old replicas it may take away, if n Pods of the new are available.
Surplus(n) ==
  LET minimum == IF UnavailableOf > deploy.replicas THEN 0 ELSE deploy.replicas - UnavailableOf
      total == Total([r \in Old |-> rs[r].spec], Old)
  IN IF deploy.strategy = "Recreate" THEN total ELSE total + n - minimum

\* No step of any controller leads to another Pod of the new ReplicaSet, unless
\* somebody else makes room.
Stuck ==
  /\ Active(New) < rs[New].spec
  /\ Actual + 1 > hard
  /\ \A r \in RS : rs[r].terminating = 0 /\ Active(r) <= rs[r].spec
  /\ \/ Surplus(Active(New)) <= 0
     \/ \A r \in Old : rs[r].spec = 0

\* The ReplicaSet controller has nothing to write, the informer and the quota
\* controller nothing to catch up with.
InPlainSight ==
  /\ \A r \in RS : /\ rs[r].replicas = Active(r)
                    /\ rs[r].statusTerminating \in {Nil, rs[r].terminating}
                    /\ cache[r] = Snapshot(r)
  /\ used = Actual

ClusterStep == UNCHANGED <<deploy, hard, tracker>>

ScaleDownOld(r) ==
  /\ r \in Old /\ rs[r].spec > 0
  /\ Surplus(rs[New].available) > 0
  /\ rs' = [rs EXCEPT ![r].spec = @ - 1]
  /\ ClusterStep /\ UNCHANGED <<others, used, changes, history>>

\* A rolling update surges; a recreation waits for the old Pods to be gone.
Room ==
  IF deploy.strategy = "Recreate"
    THEN IF \A r \in Old : rs[r].spec + Active(r) + rs[r].terminating = 0
           THEN deploy.replicas ELSE 0
    ELSE deploy.replicas + SurgeOf - Total([r \in RS |-> rs[r].spec], RS)

ScaleUpNew ==
  /\ rs[New].spec < deploy.replicas /\ Room > 0
  /\ rs' = [rs EXCEPT ![New].spec = Min({deploy.replicas, @ + Room})]
  /\ ClusterStep /\ UNCHANGED <<others, used, changes, history>>

\* syncReplicaSet: create what the quota admits or delete what is too much; the
\* status counts the Pods that were listed before.
Synced(r) ==
  LET s == rs[r]
      missing == s.spec - Active(r)
      created == Min({missing, Max({hard - used, 0})})
      surplus == 0 - missing
      written == [s EXCEPT !.replicas = Active(r),
                           !.statusTerminating = IF deploy.reportsTerminating
                                                   THEN s.terminating ELSE Nil]
  IN CASE missing > 0 -> [written EXCEPT !.pending = @ + created,
                                         !.failing = r = New /\ created < missing]
       [] missing < 0 -> [written EXCEPT !.pending = Max({@ - surplus, 0}),
                                         !.available = @ - Max({surplus - s.pending, 0}),
                                         !.terminating = @ + surplus,
                                         !.failing = FALSE]
       [] missing = 0 -> [written EXCEPT !.failing = FALSE]

SyncReplicaSet(r) ==
  /\ Synced(r) # rs[r]
  /\ rs' = [rs EXCEPT ![r] = Synced(r)]
  /\ used' = used + Max({Synced(r).pending - rs[r].pending, 0})
  /\ current' = (current /\ ~ (check = "quota" /\ Synced(r).pending > rs[r].pending))
  /\ ClusterStep /\ UNCHANGED <<others, changes, sure>>

PodBecomesAvailable(r) ==
  /\ rs[r].pending > 0
  /\ rs' = [rs EXCEPT ![r].pending = @ - 1, ![r].available = @ + 1]
  /\ ClusterStep /\ UNCHANGED <<others, used, changes, history>>

PodGone(r) ==
  /\ rs[r].terminating > 0
  /\ rs' = [rs EXCEPT ![r].terminating = @ - 1]
  /\ ClusterStep /\ UNCHANGED <<others, used, changes, history>>

ResyncQuota ==
  /\ used # Actual
  /\ used' = Actual
  /\ UNCHANGED <<deploy, rs, others, hard, changes, tracker, history>>

\* Others release quota.
Help ==
  /\ changes < MaxChanges /\ changes' = changes + 1
  /\ sure' = FALSE
  /\ current' = (current /\ check = "quota")

\* A Pod fails or is evicted, and is not active any more.
PodFails(r) ==
  /\ rs[r].available > 0
  /\ rs' = [rs EXCEPT ![r].available = @ - 1, ![r].over = @ + 1]
  /\ Help
  /\ ClusterStep /\ UNCHANGED <<others, used>>

OtherGone ==
  /\ others > 0
  /\ others' = others - 1
  /\ Help
  /\ ClusterStep /\ UNCHANGED <<rs, used>>

OtherCreated ==
  /\ others < MaxOthers /\ used < hard
  /\ others' = others + 1 /\ used' = used + 1
  /\ changes < MaxChanges /\ changes' = changes + 1
  /\ ClusterStep /\ UNCHANGED <<rs, history>>

-----------------------------------------------------------------------------
(***************************************************************************)
(* The tracker.                                                            *)
(***************************************************************************)

\* An event of a ReplicaSet; Track is not in the middle of a check.  When the
\* failure is over, the verdict is forgotten.
ReplicaSetModified(r) ==
  /\ check = "idle"
  /\ cache[r] # Snapshot(r)
  /\ cache' = [cache EXCEPT ![r] = Snapshot(r)]
  /\ verdict' = IF r = New /\ ~ rs[New].failing THEN "none" ELSE verdict
  /\ UNCHANGED <<cluster, check, history>>

Answer(canRelease) == check' = "idle" /\ verdict' = IF canRelease THEN "yes" ELSE "no"

Proceed(stage) == check' = stage /\ UNCHANGED verdict

\* The first stage of deploymentCanReleaseQuota reads what is known only.
StartCheck ==
  /\ check = "idle" /\ verdict # "yes" /\ cache[New].failing
  /\ IF RolloutCanReleaseQuota(cache[New].replicas) THEN Answer(TRUE) ELSE Proceed("pods")
  /\ sure' = (Stuck /\ InPlainSight)
  /\ UNCHANGED <<cluster, cache, current>>

ListPods ==
  /\ check = "pods"
  /\ IF \/ Releasing \/ Active(New) >= cache[New].spec
        \/ RolloutCanReleaseQuota(Active(New))
       THEN Answer(TRUE) ELSE Proceed("quota")
  /\ current' = \A r \in RS : cache[r].spec = rs[r].spec
  /\ UNCHANGED <<cluster, cache, sure>>

GetQuota ==
  /\ check = "quota"
  /\ Answer(~ StillExceeded)
  /\ current' = (current /\ used = Actual)
  /\ UNCHANGED <<cluster, cache, sure>>

\* Either request fails, or the message of the failure cannot be parsed.
RequestFails ==
  /\ check # "idle"
  /\ Answer(TRUE)
  /\ sure' = FALSE
  /\ UNCHANGED <<cluster, cache, current>>

-----------------------------------------------------------------------------
Controllers ==
  \/ \E r \in RS : ScaleDownOld(r) \/ SyncReplicaSet(r) \/ PodBecomesAvailable(r) \/ PodGone(r)
  \/ ScaleUpNew \/ ResyncQuota

Others == (\E r \in RS : PodFails(r)) \/ OtherGone \/ OtherCreated

Tracker ==
  \/ \E r \in RS : ReplicaSetModified(r)
  \/ StartCheck \/ ListPods \/ GetQuota \/ RequestFails

Settled(n) ==
  [spec |-> n, pending |-> 0, available |-> n, terminating |-> 0, over |-> 0, replicas |-> n,
   statusTerminating |-> Nil, failing |-> FALSE]

\* The rollout begins: the old ReplicaSets share the replicas.
Init ==
  /\ deploy \in Deployments
  /\ \E share \in [Old -> 0 .. deploy.replicas] :
       /\ Total(share, Old) = deploy.replicas
       /\ rs = [r \in RS |-> Settled(IF r = New THEN 0 ELSE share[r])]
  /\ others \in 0 .. MaxOthers
  /\ hard \in Hard /\ used = Actual /\ used <= hard
  /\ cache = [r \in RS |-> Snapshot(r)]
  /\ check = "idle" /\ verdict = "none" /\ changes = 0
  /\ current = FALSE /\ sure = FALSE

Next == Controllers \/ Others \/ Tracker

Spec == Init /\ [][Next]_vars

-----------------------------------------------------------------------------
(***************************************************************************)
(* Properties.                                                             *)
(***************************************************************************)

\* "false fails the deploy immediately": it is answered only when the rollout really
\* cannot go on.  If the ReplicaSets were known as they were when the Pods were listed,
\* no Pod was created before the quota was read, and its use was counted by then, no
\* controller creates a Pod of the new ReplicaSet afterwards.
FatalIsFinal ==
  [][verdict = "no" /\ check = "idle" /\ current => Active(New)' <= Active(New)]_vars

\* A rollout that is stuck, and is seen to be, is not answered to be able to
\* recover: the failure would only be counted, and the deploy wait for its timeout.
NoDeadlockIsMissed == verdict = "yes" => ~ sure
=============================================================================
