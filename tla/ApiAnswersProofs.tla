-------------------------- MODULE ApiAnswersProofs --------------------------
(***************************************************************************)
(* What is concluded from answers of the API server that may be old when   *)
(* they are used.  There are two parts: the quota inspection, for any      *)
(* ReplicaSets, any Deployment and quota, and however often others come    *)
(* and go; and the pollers for absence and presence, however often the     *)
(* resource comes and goes and the server says nothing.                    *)
(***************************************************************************)
EXTENDS QuotaRelease, ExistencePollers, FiniteSetTheorems, TLAPS

-----------------------------------------------------------------------------
(***************************************************************************)
(* PART 1.  The quota inspection (QuotaRelease).                           *)
(***************************************************************************)

-----------------------------------------------------------------------------
(***************************************************************************)
(* The operators the model is built from.                                  *)
(***************************************************************************)

LEMMA MinIs ==
  ASSUME NEW a \in Int, NEW b \in Int
  PROVE  Min({a, b}) = IF a <= b THEN a ELSE b
<1>1. CASE a <= b
  <2>1. \A x \in {a, b} : (\A y \in {a, b} : x <= y) => x = a
    BY <1>1
  <2> QED
    BY <1>1, <2>1 DEF Min
<1>2. CASE ~ (a <= b)
  <2>1. \A x \in {a, b} : (\A y \in {a, b} : x <= y) => x = b
    BY <1>2
  <2>2. \A y \in {a, b} : b <= y
    BY <1>2
  <2> QED
    BY <1>2, <2>1, <2>2 DEF Min
<1> QED
  BY <1>1, <1>2

LEMMA MaxIs ==
  ASSUME NEW a \in Int, NEW b \in Int
  PROVE  Max({a, b}) = IF a >= b THEN a ELSE b
<1>1. CASE a >= b
  <2>1. \A x \in {a, b} : (\A y \in {a, b} : x >= y) => x = a
    BY <1>1
  <2> QED
    BY <1>1, <2>1 DEF Max
<1>2. CASE ~ (a >= b)
  <2>1. \A x \in {a, b} : (\A y \in {a, b} : x >= y) => x = b
    BY <1>2
  <2>2. \A y \in {a, b} : b >= y
    BY <1>2
  <2> QED
    BY <1>2, <2>1, <2>2 DEF Max
<1> QED
  BY <1>1, <1>2

\* A total is a number, which is 0 only if there is nothing to add up.
LEMMA TotalIs ==
  ASSUME NEW S, IsFiniteSet(S), NEW n \in [S -> Nat]
  PROVE  /\ Total(n, S) \in Nat
         /\ Total(n, S) = 0 => \A r \in S : n[r] = 0
<1> DEFINE places == [r \in S |-> {r} \X (1 .. n[r])]
           Places == {{r} \X (1 .. n[r]) : r \in S}
<1>1. places \in Surjection(S, Places)
  BY DEF Surjection
<1>2. IsFiniteSet(Places)
  BY <1>1, FS_Surjection
<1>3. \A r \in S : IsFiniteSet({r} \X (1 .. n[r]))
  <2> SUFFICES ASSUME NEW r \in S PROVE IsFiniteSet({r} \X (1 .. n[r]))
    OBVIOUS
  <2>1. IsFiniteSet({r})
    BY FS_Singleton
  <2>2. IsFiniteSet(1 .. n[r])
    BY FS_Interval
  <2> QED
    BY <2>1, <2>2, FS_Product
<1>4. \A T \in Places : IsFiniteSet(T)
  BY <1>3
<1>5. IsFiniteSet(UNION Places)
  <2> HIDE DEF Places
  <2> QED
    BY <1>2, <1>4, FS_UNION
<1>6. Cardinality(UNION Places) \in Nat
  BY <1>5, FS_CardinalityType
<1>7. ASSUME Cardinality(UNION Places) = 0, NEW r \in S PROVE n[r] = 0
  <2>1. UNION Places = {}
    BY <1>5, <1>7, FS_EmptySet
  <2>2. {r} \X (1 .. n[r]) = {}
    BY <2>1
  <2>3. n[r] \in Nat
    OBVIOUS
  <2>4. CASE n[r] > 0
    <3>1. 1 \in 1 .. n[r]
      BY <2>3, <2>4
    <3>2. <<r, 1>> \in {r} \X (1 .. n[r])
      BY <3>1
    <3> QED
      BY <3>2, <2>2
  <2> QED
    BY <2>3, <2>4
<1> QED
  BY <1>6, <1>7 DEF Total

LEMMA RSIsFinite == IsFiniteSet(Old) /\ IsFiniteSet(RS)
  BY QuotaConstantsAssumption, FS_AddElement DEF RS

LEMMA ScaledIs ==
  ASSUME NEW v \in IntOrPercent, NEW total \in Nat, NEW up \in BOOLEAN
  PROVE  Scaled(v, total, up) \in Nat
<1>1. v.n \in Nat /\ v.percent \in BOOLEAN
  BY DEF IntOrPercent
<1>2. v.n * total \in Nat
  BY <1>1
<1>3. \A k \in Nat : k \div 100 \in Nat
  BY Z3
<1>4. v.n * total + (IF up THEN 99 ELSE 0) \in Nat
  BY <1>2
<1>5. CASE v.percent
  BY <1>3, <1>4, <1>5 DEF Scaled
<1>6. CASE ~ v.percent
  BY <1>1, <1>6 DEF Scaled
<1> QED
  BY <1>1, <1>5, <1>6

LEMMA Typed ==
  ASSUME QuotaTypeOK
  PROVE  /\ deploy \in Deployment /\ deploy.replicas \in Nat \ {0}
         /\ deploy.strategy \in {"RollingUpdate", "Recreate"}
         /\ others \in Nat /\ hard \in Nat /\ used \in Nat
         /\ \A r \in RS : /\ rs[r] \in ReplicaSet /\ Active(r) \in Nat
                          /\ rs[r].spec \in Nat /\ rs[r].pending \in Nat
                          /\ rs[r].available \in Nat /\ rs[r].terminating \in Nat
                          /\ rs[r].over \in Nat /\ rs[r].replicas \in Nat
                          /\ rs[r].statusTerminating \in Nat \cup {Nil}
         /\ \A r \in RS : /\ cache[r].spec \in Nat /\ cache[r].replicas \in Nat
                          /\ cache[r].statusTerminating \in Nat \cup {Nil}
<1>1. deploy \in Deployment
  BY QuotaConstantsAssumption DEF QuotaTypeOK
<1>2. deploy.replicas \in Nat \ {0} /\ deploy.strategy \in {"RollingUpdate", "Recreate"}
  BY <1>1 DEF Deployment
<1>3. others \in Nat /\ hard \in Nat /\ used \in Nat
  BY QuotaConstantsAssumption DEF QuotaTypeOK
<1>4. \A r \in RS : /\ rs[r] \in ReplicaSet
                    /\ rs[r].spec \in Nat /\ rs[r].pending \in Nat
                    /\ rs[r].available \in Nat /\ rs[r].terminating \in Nat
                    /\ rs[r].over \in Nat /\ rs[r].replicas \in Nat
                    /\ rs[r].statusTerminating \in Nat \cup {Nil}
  BY DEF QuotaTypeOK, ReplicaSet
<1>5. \A r \in RS : Active(r) \in Nat
  BY <1>4 DEF Active
<1>6. \A r \in RS : /\ cache[r].spec \in Nat /\ cache[r].replicas \in Nat
                    /\ cache[r].statusTerminating \in Nat \cup {Nil}
  BY DEF QuotaTypeOK
<1> QED
  BY <1>1, <1>2, <1>3, <1>4, <1>5, <1>6

LEMMA Members == New \in RS /\ New \notin Old /\ \A r \in Old : r \in RS
  BY QuotaConstantsAssumption DEF RS

LEMMA ActualIs ==
  ASSUME QuotaTypeOK
  PROVE  Actual \in Nat
<1> DEFINE n == [r \in RS |-> Active(r) + rs[r].terminating]
<1>1. n \in [RS -> Nat]
  BY Typed
<1>2. Total(n, RS) \in Nat
  <2> HIDE DEF n
  <2> QED
    BY <1>1, RSIsFinite, TotalIs
<1> QED
  BY <1>2, Typed DEF Actual

-----------------------------------------------------------------------------
(***************************************************************************)
(* The arithmetic of a rolling update.                                     *)
(***************************************************************************)

\* The replicas of the old ReplicaSets, and what the Deployment controller keeps
\* available.
OldSpecs == Total([r \in Old |-> rs[r].spec], Old)

Minimum == IF UnavailableOf > deploy.replicas THEN 0 ELSE deploy.replicas - UnavailableOf

LEMMA SurplusIs ==
  ASSUME NEW n
  PROVE  Surplus(n) = IF deploy.strategy = "Recreate" THEN OldSpecs ELSE OldSpecs + n - Minimum
  BY DEF Surplus, OldSpecs, Minimum

LEMMA OldSpecsIs ==
  ASSUME QuotaTypeOK
  PROVE  /\ OldSpecs \in Nat
         /\ OldSpecs = 0 => \A r \in Old : rs[r].spec = 0
<1> DEFINE n == [r \in Old |-> rs[r].spec]
<1>1. n \in [Old -> Nat]
  BY Typed, Members
<1>2. Total(n, Old) \in Nat /\ (Total(n, Old) = 0 => \A r \in Old : n[r] = 0)
  <2> HIDE DEF n
  <2> QED
    BY <1>1, RSIsFinite, TotalIs
<1> QED
  BY <1>2 DEF OldSpecs

LEMMA UnavailableIs ==
  ASSUME QuotaTypeOK
  PROVE  /\ UnavailableOf \in Nat /\ Minimum \in Nat
         /\ deploy.replicas - MaxUnavailable = Minimum
<1>1. deploy.maxSurge \in IntOrPercent /\ deploy.maxUnavailable \in IntOrPercent
  BY Typed DEF Deployment
<1>2. Scaled(deploy.maxUnavailable, deploy.replicas, FALSE) \in Nat
  BY <1>1, Typed, ScaledIs
<1>3. UnavailableOf \in Nat
  BY <1>2 DEF UnavailableOf
<1>4. MaxUnavailable = Min({deploy.replicas, UnavailableOf})
  BY DEF MaxUnavailable, UnavailableOf, SurgeOf
<1>5. deploy.replicas \in Nat
  BY Typed
<1>6. MaxUnavailable = IF deploy.replicas <= UnavailableOf THEN deploy.replicas ELSE UnavailableOf
  BY <1>3, <1>4, <1>5, MinIs
<1> QED
  BY <1>3, <1>5, <1>6 DEF Minimum

\* As long as it knows what is desired of the old ReplicaSets, the tracker asks what
\* the Deployment controller asks.
LEMMA SameArithmetic ==
  ASSUME QuotaTypeOK, \A r \in Old : cache[r].spec = rs[r].spec,
         NEW n \in Nat
  PROVE  (/\ \E r \in Old : cache[r].spec > 0
          /\ deploy.strategy = "Recreate" \/ OldDesired + n > deploy.replicas - MaxUnavailable)
         <=> Surplus(n) > 0 /\ \E r \in Old : rs[r].spec > 0
<1>1. [r \in Old |-> cache[r].spec] = [r \in Old |-> rs[r].spec]
  OBVIOUS
<1>2. OldDesired = OldSpecs
  BY <1>1 DEF OldDesired, OldSpecs
<1>3. (\E r \in Old : cache[r].spec > 0) <=> (\E r \in Old : rs[r].spec > 0)
  OBVIOUS
<1>4. (\E r \in Old : rs[r].spec > 0) => OldSpecs > 0
  BY OldSpecsIs, Typed, Members
<1>5. CASE deploy.strategy = "Recreate"
  BY <1>3, <1>4, <1>5, SurplusIs
<1>6. CASE deploy.strategy # "Recreate"
  <2>1. Surplus(n) = OldSpecs + n - Minimum
    BY <1>6, SurplusIs
  <2>2. OldSpecs + n > Minimum <=> OldSpecs + n - Minimum > 0
    BY OldSpecsIs, UnavailableIs
  <2>3. OldDesired + n > deploy.replicas - MaxUnavailable <=> OldSpecs + n > Minimum
    BY <1>2, UnavailableIs
  <2> QED
    BY <1>3, <1>6, <2>1, <2>2, <2>3
<1> QED
  BY <1>5, <1>6

\* The more Pods of the new ReplicaSet are available, the more may be taken away.
LEMMA SurplusGrows ==
  ASSUME QuotaTypeOK, NEW m \in Nat, NEW n \in Nat, m <= n, Surplus(n) <= 0
  PROVE  Surplus(m) <= 0
  BY SurplusIs, OldSpecsIs, UnavailableIs

-----------------------------------------------------------------------------
(***************************************************************************)
(* What a ReplicaSet controller does.                                      *)
(***************************************************************************)

\* How many Pods the quota lets it create.
Created(r) == Min({rs[r].spec - Active(r), Max({hard - used, 0})})

LEMMA CreatedIs ==
  ASSUME QuotaTypeOK, NEW r \in RS, rs[r].spec - Active(r) > 0
  PROVE  /\ Created(r) \in Nat
         /\ used + 1 > hard => Created(r) = 0
<1>1. hard - used \in Int /\ rs[r].spec - Active(r) \in Int
  BY Typed
<1>2. Max({hard - used, 0}) = IF hard - used >= 0 THEN hard - used ELSE 0
  BY <1>1, MaxIs
<1>3. Max({hard - used, 0}) \in Nat
  BY <1>1, <1>2
<1>4. used + 1 > hard => Max({hard - used, 0}) = 0
  BY <1>2, Typed
<1>5. Created(r) = IF rs[r].spec - Active(r) <= Max({hard - used, 0})
                     THEN rs[r].spec - Active(r) ELSE Max({hard - used, 0})
  BY <1>1, <1>3, MinIs DEF Created
<1>6. rs[r].spec - Active(r) \in Nat
  BY <1>1
<1> QED
  BY <1>3, <1>4, <1>5, <1>6

LEMMA SyncedGrows ==
  ASSUME QuotaTypeOK, NEW r \in RS, rs[r].spec - Active(r) > 0
  PROVE  /\ Synced(r) \in ReplicaSet
         /\ Synced(r).spec = rs[r].spec /\ Synced(r).available = rs[r].available
         /\ Synced(r).terminating = rs[r].terminating
         /\ Synced(r).pending = rs[r].pending + Created(r)
<1> DEFINE s == rs[r]
           m == IF deploy.reportsTerminating THEN s.terminating ELSE Nil
           f == r = New /\ Created(r) < s.spec - Active(r)
           y == [s EXCEPT !.replicas = Active(r), !.statusTerminating = m]
           z == [y EXCEPT !.pending = @ + Created(r), !.failing = f]
<1>1. Synced(r) = z
  BY Typed DEF Synced, Created
<1>2. s \in ReplicaSet /\ Active(r) \in Nat /\ m \in Nat \cup {Nil} /\ f \in BOOLEAN
  BY Typed
<1>3. Created(r) \in Nat
  BY CreatedIs
<1> HIDE DEF s, m, f
<1>4. z = [s EXCEPT !.spec = s.spec, !.pending = s.pending + Created(r), !.available = s.available,
                    !.terminating = s.terminating, !.over = s.over, !.replicas = Active(r),
                    !.statusTerminating = m, !.failing = f]
  BY <1>2, <1>3 DEF ReplicaSet
<1>5. z \in ReplicaSet
  <2>1. s.spec \in Nat /\ s.pending + Created(r) \in Nat /\ s.available \in Nat
        /\ s.terminating \in Nat /\ s.over \in Nat
    BY <1>2, <1>3 DEF ReplicaSet
  <2> QED
    BY <1>2, <1>4, <2>1 DEF ReplicaSet
<1>6. z.spec = s.spec /\ z.available = s.available /\ z.terminating = s.terminating
      /\ z.pending = s.pending + Created(r)
  BY <1>2, <1>3 DEF ReplicaSet
<1> QED
  BY <1>1, <1>5, <1>6 DEF s

LEMMA SyncedShrinks ==
  ASSUME QuotaTypeOK, NEW r \in RS, rs[r].spec - Active(r) < 0
  PROVE  /\ Synced(r) \in ReplicaSet
         /\ Synced(r).spec = rs[r].spec
         /\ Synced(r).pending <= rs[r].pending
<1> DEFINE s == rs[r]
           k == 0 - (s.spec - Active(r))
           p == Max({s.pending - k, 0})
           q == Max({k - s.pending, 0})
           m == IF deploy.reportsTerminating THEN s.terminating ELSE Nil
           y == [s EXCEPT !.replicas = Active(r), !.statusTerminating = m]
           z == [y EXCEPT !.pending = Max({@ - k, 0}), !.available = @ - q,
                          !.terminating = @ + k, !.failing = FALSE]
<1>1. Synced(r) = z
  BY Typed DEF Synced
<1>2. s \in ReplicaSet /\ Active(r) \in Nat /\ m \in Nat \cup {Nil}
      /\ s.spec \in Nat /\ s.pending \in Nat /\ s.available \in Nat /\ s.terminating \in Nat
      /\ s.over \in Nat /\ Active(r) = s.pending + s.available
  BY Typed DEF Active
<1>3. k \in Nat /\ k = s.pending + s.available - s.spec
  BY <1>2
<1> HIDE DEF k
<1>4. p \in Nat /\ p <= s.pending
  BY <1>2, <1>3, MaxIs
<1>5. q \in Int /\ s.available - q \in Nat
  <2>1. q = IF k - s.pending >= 0 THEN k - s.pending ELSE 0
    BY <1>2, <1>3, MaxIs
  <2> QED
    BY <1>2, <1>3, <2>1
<1> DEFINE b == s.available - q
           t == s.terminating + k
<1>6. b \in Nat /\ t \in Nat
  BY <1>2, <1>3, <1>5
<1>7. y.pending = s.pending /\ y.available = s.available /\ y.terminating = s.terminating
  BY <1>2 DEF ReplicaSet
<1>8. z = [y EXCEPT !.pending = p, !.available = b, !.terminating = t, !.failing = FALSE]
  BY <1>7
<1> HIDE DEF s, m, p, q, b, t, z
<1>9. z = [s EXCEPT !.spec = s.spec, !.pending = p, !.available = b,
                    !.terminating = t, !.over = s.over, !.replicas = Active(r),
                    !.statusTerminating = m, !.failing = FALSE]
  BY <1>2, <1>8 DEF ReplicaSet
<1>10. z \in ReplicaSet
  BY <1>2, <1>4, <1>6, <1>9 DEF ReplicaSet
<1>11. z.spec = s.spec /\ z.pending = p
  BY <1>2, <1>9 DEF ReplicaSet
<1> QED
  BY <1>1, <1>4, <1>10, <1>11 DEF s

LEMMA SyncedRests ==
  ASSUME QuotaTypeOK, NEW r \in RS, rs[r].spec - Active(r) = 0
  PROVE  /\ Synced(r) \in ReplicaSet
         /\ Synced(r).spec = rs[r].spec /\ Synced(r).available = rs[r].available
         /\ Synced(r).terminating = rs[r].terminating /\ Synced(r).pending = rs[r].pending
<1> DEFINE s == rs[r]
           m == IF deploy.reportsTerminating THEN s.terminating ELSE Nil
           y == [s EXCEPT !.replicas = Active(r), !.statusTerminating = m]
           z == [y EXCEPT !.failing = FALSE]
<1>1. Synced(r) = z
  BY DEF Synced
<1>2. s \in ReplicaSet /\ Active(r) \in Nat /\ m \in Nat \cup {Nil}
  BY Typed
<1> HIDE DEF s, m
<1>3. z \in ReplicaSet /\ z.spec = s.spec /\ z.available = s.available
      /\ z.terminating = s.terminating /\ z.pending = s.pending
  BY <1>2 DEF ReplicaSet
<1> QED
  BY <1>1, <1>3 DEF s

\* A sync leaves what is desired; of a ReplicaSet that has not too many Pods it deletes
\* none, and none is created where the quota is full.
LEMMA SyncedIs ==
  ASSUME QuotaTypeOK, NEW r \in RS
  PROVE  /\ Synced(r) \in ReplicaSet
         /\ Synced(r).spec = rs[r].spec
         /\ Active(r) <= rs[r].spec =>
              /\ Synced(r).available = rs[r].available
              /\ Synced(r).terminating = rs[r].terminating
              /\ Synced(r).pending >= rs[r].pending
              /\ used + 1 > hard => Synced(r).pending = rs[r].pending
<1>1. rs[r].spec \in Nat /\ Active(r) \in Nat /\ rs[r].pending \in Nat
  BY Typed
<1>2. CASE rs[r].spec - Active(r) > 0
  <2>1. Synced(r).pending >= rs[r].pending
    BY <1>1, <1>2, SyncedGrows, CreatedIs
  <2>2. used + 1 > hard => Synced(r).pending = rs[r].pending
    BY <1>1, <1>2, SyncedGrows, CreatedIs
  <2> QED
    BY <1>2, <2>1, <2>2, SyncedGrows
<1>3. CASE rs[r].spec - Active(r) < 0
  <2>1. ~ (Active(r) <= rs[r].spec)
    BY <1>1, <1>3
  <2> QED
    BY <1>3, <2>1, SyncedShrinks
<1>4. CASE rs[r].spec - Active(r) = 0
  BY <1>1, <1>4, SyncedRests
<1> QED
  BY <1>1, <1>2, <1>3, <1>4

LEMMA OneChanges ==
  ASSUME QuotaTypeOK, NEW r \in RS, NEW s \in ReplicaSet, rs' = [rs EXCEPT ![r] = s]
  PROVE  /\ rs' \in [RS -> ReplicaSet]
         /\ rs'[r] = s
         /\ \A q \in RS : q # r => rs'[q] = rs[q]
  BY DEF QuotaTypeOK

LEMMA ScaledDown ==
  ASSUME QuotaTypeOK, NEW r \in RS, ScaleDownOld(r)
  PROVE  rs' \in [RS -> ReplicaSet]
<1>1. [rs[r] EXCEPT !.spec = @ - 1] \in ReplicaSet
  BY Typed DEF ReplicaSet, ScaleDownOld
<1>2. rs' = [rs EXCEPT ![r] = [rs[r] EXCEPT !.spec = @ - 1]]
  BY DEF ScaleDownOld
<1> QED
  BY <1>1, <1>2, OneChanges

LEMMA RoomIs ==
  ASSUME QuotaTypeOK
  PROVE  Room \in Int
<1> DEFINE n == [r \in RS |-> rs[r].spec]
<1>1. n \in [RS -> Nat]
  BY Typed
<1>2. Total(n, RS) \in Nat
  <2> HIDE DEF n
  <2> QED
    BY <1>1, RSIsFinite, TotalIs
<1>3. SurgeOf \in Nat
  <2>1. deploy.maxSurge \in IntOrPercent
    BY Typed DEF Deployment
  <2> QED
    BY <2>1, Typed, ScaledIs DEF SurgeOf
<1>4. deploy.replicas + SurgeOf - Total(n, RS) \in Int
  <2> HIDE DEF n
  <2> QED
    BY <1>2, <1>3, Typed
<1>5. deploy.replicas \in Int
  BY Typed
<1> QED
  BY <1>4, <1>5 DEF Room

LEMMA ScaledUp ==
  ASSUME QuotaTypeOK, ScaleUpNew
  PROVE  /\ rs' \in [RS -> ReplicaSet]
         /\ \A r \in Old : rs'[r] = rs[r]
         /\ rs'[New].spec >= rs[New].spec
         /\ rs'[New].pending = rs[New].pending /\ rs'[New].available = rs[New].available
         /\ rs'[New].terminating = rs[New].terminating
<1> DEFINE d == Min({deploy.replicas, rs[New].spec + Room})
           s == [rs[New] EXCEPT !.spec = d]
<1>1. rs[New].spec \in Nat /\ rs[New] \in ReplicaSet
  BY Typed, Members
<1>2. Room \in Int /\ Room > 0 /\ rs[New].spec < deploy.replicas /\ deploy.replicas \in Nat
  BY RoomIs, Typed DEF ScaleUpNew
<1>3. rs[New].spec + Room \in Int
  BY <1>1, <1>2
<1>4. d = IF deploy.replicas <= rs[New].spec + Room THEN deploy.replicas ELSE rs[New].spec + Room
  BY <1>2, <1>3, MinIs
<1>5. d \in Nat /\ d >= rs[New].spec
  BY <1>1, <1>2, <1>4
<1>6. rs' = [rs EXCEPT ![New] = s]
  BY DEF ScaleUpNew
<1> HIDE DEF d
<1>7. s \in ReplicaSet /\ s.spec = d /\ s.pending = rs[New].pending
      /\ s.available = rs[New].available /\ s.terminating = rs[New].terminating
  BY <1>1, <1>5 DEF ReplicaSet
<1> HIDE DEF s
<1>8. rs' \in [RS -> ReplicaSet] /\ rs'[New] = s /\ \A q \in RS : q # New => rs'[q] = rs[q]
  BY <1>6, <1>7, Members, OneChanges
<1> QED
  BY <1>5, <1>7, <1>8, Members

LEMMA SyncIs ==
  ASSUME QuotaTypeOK, NEW r \in RS, SyncReplicaSet(r)
  PROVE  /\ rs' \in [RS -> ReplicaSet]
         /\ rs'[r] = Synced(r)
         /\ \A q \in RS : q # r => rs'[q] = rs[q]
  BY SyncedIs, OneChanges DEF SyncReplicaSet

LEMMA AvailableIs ==
  ASSUME QuotaTypeOK, NEW r \in RS, PodBecomesAvailable(r)
  PROVE  /\ rs' \in [RS -> ReplicaSet]
         /\ \A q \in RS : q # r => rs'[q] = rs[q]
         /\ rs'[r].pending + rs'[r].available = rs[r].pending + rs[r].available
         /\ rs'[r].terminating = rs[r].terminating /\ rs'[r].spec = rs[r].spec
<1> DEFINE p == rs[r].pending - 1
           a == rs[r].available + 1
           s == [rs[r] EXCEPT !.pending = p, !.available = a]
<1>1. rs[r] \in ReplicaSet /\ p \in Nat /\ a \in Nat /\ p + a = rs[r].pending + rs[r].available
  BY Typed DEF PodBecomesAvailable
<1>2. rs' = [rs EXCEPT ![r] = s]
  BY <1>1 DEF PodBecomesAvailable, ReplicaSet, QuotaTypeOK
<1> HIDE DEF p, a
<1>3. s \in ReplicaSet /\ s.pending = p /\ s.available = a
      /\ s.terminating = rs[r].terminating /\ s.spec = rs[r].spec
  BY <1>1 DEF ReplicaSet
<1> HIDE DEF s
<1>4. rs' \in [RS -> ReplicaSet] /\ rs'[r] = s /\ \A q \in RS : q # r => rs'[q] = rs[q]
  BY <1>2, <1>3, OneChanges
<1> QED
  BY <1>1, <1>3, <1>4

LEMMA GoneIs ==
  ASSUME QuotaTypeOK, NEW r \in RS, PodGone(r)
  PROVE  rs' \in [RS -> ReplicaSet]
<1>1. [rs[r] EXCEPT !.terminating = @ - 1] \in ReplicaSet
  BY Typed DEF ReplicaSet, PodGone
<1>2. rs' = [rs EXCEPT ![r] = [rs[r] EXCEPT !.terminating = @ - 1]]
  BY DEF PodGone
<1> QED
  BY <1>1, <1>2, OneChanges

LEMMA FailedIs ==
  ASSUME QuotaTypeOK, NEW r \in RS, PodFails(r)
  PROVE  /\ rs' \in [RS -> ReplicaSet]
         /\ \A q \in RS : q # r => rs'[q] = rs[q]
         /\ rs'[r].pending = rs[r].pending /\ rs'[r].available < rs[r].available
         /\ rs'[r].terminating = rs[r].terminating /\ rs'[r].spec = rs[r].spec
<1> DEFINE a == rs[r].available - 1
           o == rs[r].over + 1
           s == [rs[r] EXCEPT !.available = a, !.over = o]
<1>1. rs[r] \in ReplicaSet /\ a \in Nat /\ o \in Nat /\ a < rs[r].available
  BY Typed DEF PodFails
<1>2. rs' = [rs EXCEPT ![r] = s]
  BY <1>1 DEF PodFails, ReplicaSet, QuotaTypeOK
<1> HIDE DEF a, o
<1>3. s \in ReplicaSet /\ s.pending = rs[r].pending /\ s.available = a
      /\ s.terminating = rs[r].terminating /\ s.spec = rs[r].spec
  BY <1>1 DEF ReplicaSet
<1> HIDE DEF s
<1>4. rs' \in [RS -> ReplicaSet] /\ rs'[r] = s /\ \A q \in RS : q # r => rs'[q] = rs[q]
  BY <1>2, <1>3, OneChanges
<1> QED
  BY <1>1, <1>3, <1>4

-----------------------------------------------------------------------------
(***************************************************************************)
(* Types.                                                                  *)
(***************************************************************************)

Known ==
  [spec : Nat, replicas : Nat, statusTerminating : Nat \cup {Nil}, failing : BOOLEAN]

LEMMA SnapshotIs ==
  ASSUME rs \in [RS -> ReplicaSet], NEW r \in RS
  PROVE  /\ Snapshot(r) \in Known
         /\ Snapshot(r).spec = rs[r].spec /\ Snapshot(r).replicas = rs[r].replicas
         /\ Snapshot(r).statusTerminating = rs[r].statusTerminating
  BY DEF Snapshot, Known, ReplicaSet

LEMMA TypeInit == Init => QuotaTypeOK
<1> SUFFICES ASSUME Init PROVE QuotaTypeOK
  OBVIOUS
<1>1. deploy \in Deployments /\ deploy.replicas \in Nat
  BY QuotaConstantsAssumption DEF Init, Deployment
<1>2. PICK share \in [Old -> 0 .. deploy.replicas] :
        rs = [r \in RS |-> Settled(IF r = New THEN 0 ELSE share[r])]
  BY DEF Init
<1>3. ASSUME NEW n \in Nat PROVE Settled(n) \in ReplicaSet
  BY DEF Settled, ReplicaSet
<1>4. \A r \in RS : (IF r = New THEN 0 ELSE share[r]) \in Nat
  BY <1>1 DEF RS
<1>5. rs \in [RS -> ReplicaSet]
  BY <1>2, <1>3, <1>4
<1>6. cache \in [RS -> Known]
  BY <1>5, SnapshotIs DEF Init
<1>7. others \in Nat /\ hard \in Hard
  BY QuotaConstantsAssumption DEF Init
<1>8. used \in Nat
  <2> DEFINE n == [r \in RS |-> Active(r) + rs[r].terminating]
  <2>1. \A r \in RS : Active(r) + rs[r].terminating \in Nat
    BY <1>5 DEF Active, ReplicaSet
  <2>2. n \in [RS -> Nat]
    BY <2>1
  <2>3. Total(n, RS) \in Nat
    <3> HIDE DEF n
    <3> QED
      BY <2>2, RSIsFinite, TotalIs
  <2>4. used = others + Total(n, RS)
    BY DEF Init, Actual
  <2> HIDE DEF n
  <2> QED
    BY <1>7, <2>3, <2>4
<1>9. changes \in 0 .. MaxChanges
  BY QuotaConstantsAssumption DEF Init
<1> QED
  BY <1>1, <1>5, <1>6, <1>7, <1>8, <1>9 DEF Init, QuotaTypeOK, Known

LEMMA TypeStep ==
  ASSUME QuotaTypeOK, [Next]_vars
  PROVE  QuotaTypeOK'
<1> USE DEF ClusterStep, tracker, cluster, history
<1>1. ASSUME NEW r \in RS, ScaleDownOld(r) PROVE QuotaTypeOK'
  BY <1>1, ScaledDown DEF QuotaTypeOK, ScaleDownOld
<1>2. ASSUME NEW r \in RS, SyncReplicaSet(r) PROVE QuotaTypeOK'
  <2>1. Synced(r).pending - rs[r].pending \in Int
    BY SyncedIs, Typed DEF ReplicaSet
  <2>2. Max({Synced(r).pending - rs[r].pending, 0}) \in Nat
    BY <2>1, MaxIs
  <2>3. used' \in Nat
    BY <1>2, <2>2, Typed DEF SyncReplicaSet
  <2>4. rs' \in [RS -> ReplicaSet]
    BY <1>2, SyncIs
  <2> QED
    BY <1>2, <2>3, <2>4 DEF QuotaTypeOK, SyncReplicaSet
<1>3. ASSUME NEW r \in RS, PodBecomesAvailable(r) PROVE QuotaTypeOK'
  BY <1>3, AvailableIs DEF QuotaTypeOK, PodBecomesAvailable
<1>4. ASSUME NEW r \in RS, PodGone(r) PROVE QuotaTypeOK'
  BY <1>4, GoneIs DEF QuotaTypeOK, PodGone
<1>5. CASE ScaleUpNew
  BY <1>5, ScaledUp DEF QuotaTypeOK, ScaleUpNew
<1>6. CASE ResyncQuota
  BY <1>6, ActualIs DEF QuotaTypeOK, ResyncQuota
<1>7. ASSUME Help PROVE changes' \in 0 .. MaxChanges /\ sure' \in BOOLEAN /\ current' \in BOOLEAN
  <2>1. changes' \in 0 .. MaxChanges
    BY <1>7, QuotaConstantsAssumption DEF Help, QuotaTypeOK
  <2>2. sure' \in BOOLEAN /\ current' \in BOOLEAN
    BY <1>7 DEF Help
  <2> QED
    BY <2>1, <2>2
<1>8. ASSUME NEW r \in RS, PodFails(r) PROVE QuotaTypeOK'
  BY <1>7, <1>8, FailedIs DEF QuotaTypeOK, PodFails
<1>9. CASE OtherGone
  <2>1. others' \in 0 .. MaxOthers
    BY <1>9, QuotaConstantsAssumption DEF QuotaTypeOK, OtherGone
  <2> QED
    BY <1>7, <1>9, <2>1 DEF QuotaTypeOK, OtherGone
<1>10. CASE OtherCreated
  <2>1. others' \in 0 .. MaxOthers /\ changes' \in 0 .. MaxChanges
    BY <1>10, QuotaConstantsAssumption DEF QuotaTypeOK, OtherCreated
  <2> QED
    BY <1>10, <2>1 DEF QuotaTypeOK, OtherCreated
<1>11. ASSUME NEW r \in RS, ReplicaSetModified(r) PROVE QuotaTypeOK'
  <2>1. cache' = [cache EXCEPT ![r] = Snapshot(r)] /\ Snapshot(r) \in Known
    BY <1>11, SnapshotIs DEF ReplicaSetModified, QuotaTypeOK
  <2>2. cache' \in [RS -> Known]
    BY <2>1 DEF QuotaTypeOK, Known
  <2>3. verdict' \in {"none", "yes", "no"}
    BY <1>11 DEF ReplicaSetModified, QuotaTypeOK
  <2> QED
    BY <1>11, <2>2, <2>3 DEF QuotaTypeOK, ReplicaSetModified, Known
<1>12. CASE StartCheck
  <2>1. sure' \in BOOLEAN
    BY <1>12, Zenon DEF StartCheck
  <2>2. check' \in {"idle", "pods"} /\ verdict' \in {"yes", verdict}
    BY <1>12 DEF StartCheck, Answer, Proceed
  <2> QED
    BY <1>12, <2>1, <2>2 DEF QuotaTypeOK, StartCheck
<1>13. CASE ListPods
  <2>1. current' \in BOOLEAN
    BY <1>13 DEF ListPods
  <2>2. check' \in {"idle", "quota"} /\ verdict' \in {"yes", verdict}
    BY <1>13 DEF ListPods, Answer, Proceed
  <2> QED
    BY <1>13, <2>1, <2>2 DEF QuotaTypeOK, ListPods
<1>14. CASE GetQuota
  <2>1. current' \in BOOLEAN /\ check' = "idle" /\ verdict' \in {"yes", "no"}
    BY <1>14 DEF GetQuota, QuotaTypeOK, Answer
  <2> QED
    BY <1>14, <2>1 DEF QuotaTypeOK, GetQuota
<1>15. CASE RequestFails
  BY <1>15 DEF QuotaTypeOK, RequestFails, Answer
<1>16. CASE UNCHANGED vars
  BY <1>16 DEF QuotaTypeOK, vars
<1> QED
  BY <1>1, <1>2, <1>3, <1>4, <1>5, <1>6, <1>8, <1>9, <1>10, <1>11, <1>12, <1>13, <1>14, <1>15, <1>16
  DEF Next, Controllers, Others, Tracker

-----------------------------------------------------------------------------
(***************************************************************************)
(* A rollout that cannot go on.                                            *)
(***************************************************************************)

\* No Pod goes away, there is none too many, and no old ReplicaSet can be scaled down.
Blocked ==
  /\ \A r \in RS : rs[r].terminating = 0 /\ Active(r) <= rs[r].spec
  /\ Surplus(Active(New)) <= 0 \/ \A r \in Old : rs[r].spec = 0

\* The quota admits no Pod, and counts those there are.
Full == used = Actual /\ used + 1 > hard

\* Nothing that the tracker knows of lets it hope.
Seen ==
  /\ \A r \in Old : /\ cache[r].spec = rs[r].spec /\ cache[r].replicas <= cache[r].spec
                    /\ cache[r].statusTerminating \in {Nil, 0}
  /\ Active(New) < cache[New].spec

QuotaInv ==
  /\ QuotaTypeOK
  /\ current /\ (check = "quota" \/ (check = "idle" /\ verdict = "no")) => Blocked
  /\ current /\ check = "idle" /\ verdict = "no" => Full
  /\ sure /\ check # "idle" => Blocked /\ Full /\ Seen
  /\ NoDeadlockIsMissed

\* No Pod comes or begins to go, and only the new ReplicaSet is scaled, up.
Calm ==
  /\ \A r \in RS : /\ rs'[r].terminating = 0 /\ Active(r)' <= Active(r)
                    /\ rs'[r].spec >= rs[r].spec
  /\ \A r \in Old : rs'[r].spec = rs[r].spec

\* The Pods that count stay the same.
Steady ==
  \A r \in RS : Active(r)' = Active(r) /\ rs'[r].terminating = rs[r].terminating

LEMMA BlockedIs ==
  ASSUME QuotaTypeOK, Blocked, NEW r \in Old, rs[r].spec > 0, NEW n \in Nat, n <= Active(New)
  PROVE  Surplus(n) <= 0
<1>1. Surplus(Active(New)) <= 0 /\ Active(New) \in Nat
  BY Typed, Members DEF Blocked
<1> QED
  BY <1>1, SurplusGrows

LEMMA BlockedStays ==
  ASSUME QuotaTypeOK, QuotaTypeOK', Blocked, Calm, deploy' = deploy
  PROVE  Blocked'
<1>1. ASSUME NEW r \in RS PROVE rs'[r].terminating = 0 /\ Active(r)' <= rs'[r].spec
  <2>1. Active(r) \in Nat /\ rs[r].spec \in Nat /\ Active(r) <= rs[r].spec
    BY Typed DEF Blocked
  <2>2. Active(r)' \in Nat /\ rs'[r].spec \in Nat
    BY DEF QuotaTypeOK, ReplicaSet, Active
  <2>3. rs'[r].terminating = 0 /\ Active(r)' <= Active(r) /\ rs'[r].spec >= rs[r].spec
    BY DEF Calm
  <2> QED
    BY <2>1, <2>2, <2>3
<1>2. CASE \A r \in Old : rs[r].spec = 0
  <2>1. \A r \in Old : rs'[r].spec = 0
    BY <1>2 DEF Calm
  <2> QED
    BY <1>1, <2>1 DEF Blocked
<1>3. CASE Surplus(Active(New)) <= 0
  <2>1. [r \in Old |-> rs'[r].spec] = [r \in Old |-> rs[r].spec]
    BY DEF Calm
  <2>2. OldSpecs' = OldSpecs
    BY <2>1 DEF OldSpecs
  <2>3. Minimum' = Minimum
    BY DEF Minimum, UnavailableOf, SurgeOf, Scaled
  <2>4. UnavailableOf' = UnavailableOf
    BY DEF UnavailableOf, SurgeOf, Scaled
  <2>5. Surplus(Active(New))' = IF deploy.strategy = "Recreate" THEN OldSpecs
                                ELSE OldSpecs + Active(New)' - Minimum
    BY <2>1, <2>4 DEF Surplus, OldSpecs, Minimum
  <2>6. Active(New)' \in Nat /\ Active(New) \in Nat /\ Active(New)' <= Active(New)
    BY Members DEF Calm, QuotaTypeOK, ReplicaSet, Active
  <2>7. OldSpecs \in Nat /\ Minimum \in Nat
    BY OldSpecsIs, UnavailableIs
  <2>8. Surplus(Active(New))' <= 0
    BY <1>3, <2>5, <2>6, <2>7, SurplusIs
  <2> QED
    BY <1>1, <2>8 DEF Blocked
<1> QED
  BY <1>2, <1>3 DEF Blocked

\* A step of the cluster leaves the tracker alone, and makes no history better.
LEMMA ClusterKeeps ==
  ASSUME Controllers \/ Others
  PROVE  /\ deploy' = deploy /\ hard' = hard
         /\ cache' = cache /\ check' = check /\ verdict' = verdict
         /\ current' => current
         /\ sure' => sure
<1> USE DEF ClusterStep, tracker, history
<1>1. ASSUME NEW r \in RS, ScaleDownOld(r) \/ PodBecomesAvailable(r) \/ PodGone(r)
      PROVE  /\ deploy' = deploy /\ hard' = hard
             /\ cache' = cache /\ check' = check /\ verdict' = verdict
             /\ current' = current /\ sure' = sure
  BY <1>1 DEF ScaleDownOld, PodBecomesAvailable, PodGone
<1>2. ASSUME ScaleUpNew \/ ResyncQuota \/ OtherCreated
      PROVE  /\ deploy' = deploy /\ hard' = hard
             /\ cache' = cache /\ check' = check /\ verdict' = verdict
             /\ current' = current /\ sure' = sure
  BY <1>2 DEF ScaleUpNew, ResyncQuota, OtherCreated
<1>3. ASSUME NEW r \in RS, SyncReplicaSet(r)
      PROVE  /\ deploy' = deploy /\ hard' = hard
             /\ cache' = cache /\ check' = check /\ verdict' = verdict
             /\ current' => current
             /\ sure' = sure
  BY <1>3 DEF SyncReplicaSet
<1>4. ASSUME Help PROVE (current' => current) /\ ~ sure'
  BY <1>4 DEF Help
<1>5. ASSUME OtherGone \/ \E r \in RS : PodFails(r)
      PROVE  /\ deploy' = deploy /\ hard' = hard
             /\ cache' = cache /\ check' = check /\ verdict' = verdict
             /\ current' => current
             /\ sure' => sure
  BY <1>4, <1>5 DEF OtherGone, PodFails
<1> QED
  BY <1>1, <1>2, <1>3, <1>5 DEF Controllers, Others

\* While no Pod of it can be replaced unnoticed, nothing moves a blocked rollout: the
\* quota is full, or the check would not be current any more.
LEMMA CalmSteps ==
  ASSUME QuotaTypeOK, Blocked, Controllers \/ Others, Full \/ (current' /\ check = "quota")
  PROVE  Calm
<1>1. \A r \in RS : /\ rs[r].terminating = 0 /\ Active(r) <= rs[r].spec
                    /\ Active(r) \in Nat /\ rs[r].spec \in Nat
  BY Typed DEF Blocked
<1>2. rs' = rs => Calm
  BY <1>1, Members DEF Calm, Active
<1>3. ASSUME NEW r \in RS, ScaleDownOld(r) PROVE FALSE
  <2>1. rs[New].available \in Nat /\ rs[New].available <= Active(New)
    BY Typed, Members DEF Active
  <2>2. r \in Old /\ rs[r].spec > 0 /\ Surplus(rs[New].available) > 0
    BY <1>3 DEF ScaleDownOld
  <2>3. Surplus(rs[New].available) <= 0
    BY <2>1, <2>2, BlockedIs
  <2>4. Surplus(rs[New].available) \in Int
    BY <2>1, SurplusIs, OldSpecsIs, UnavailableIs
  <2> QED
    BY <2>2, <2>3, <2>4
<1>4. ASSUME NEW r \in RS, SyncReplicaSet(r) PROVE Calm
  <2>1. /\ Synced(r).spec = rs[r].spec /\ Synced(r).available = rs[r].available
        /\ Synced(r).terminating = rs[r].terminating
        /\ Synced(r).pending >= rs[r].pending
        /\ used + 1 > hard => Synced(r).pending = rs[r].pending
    BY <1>1, SyncedIs
  <2>2. Synced(r).pending \in Nat /\ rs[r].pending \in Nat
    BY SyncedIs, Typed DEF ReplicaSet
  <2>3. Synced(r).pending = rs[r].pending
    <3>1. CASE Full
      BY <2>1, <3>1 DEF Full
    <3>2. CASE current' /\ check = "quota"
      <4>1. ~ (Synced(r).pending > rs[r].pending)
        BY <1>4, <3>2, Zenon DEF SyncReplicaSet
      <4> QED
        BY <2>1, <2>2, <4>1
    <3> QED
      BY <3>1, <3>2
  <2>4. rs'[r] = Synced(r) /\ \A q \in RS : q # r => rs'[q] = rs[q]
    BY <1>4, SyncIs
  <2>5. \A q \in RS : /\ rs'[q].spec = rs[q].spec /\ rs'[q].terminating = rs[q].terminating
                      /\ Active(q)' = Active(q)
    BY <2>1, <2>3, <2>4 DEF Active
  <2> QED
    BY <1>1, <2>5, Members DEF Calm
<1>5. ASSUME NEW r \in RS, PodBecomesAvailable(r) PROVE Calm
  <2>1. \A q \in RS : /\ rs'[q].spec = rs[q].spec /\ rs'[q].terminating = rs[q].terminating
                      /\ Active(q)' = Active(q)
    BY <1>5, AvailableIs DEF Active
  <2> QED
    BY <1>1, <2>1, Members DEF Calm
<1>6. ASSUME NEW r \in RS, PodGone(r) PROVE FALSE
  BY <1>1, <1>6 DEF PodGone
<1>7. CASE ScaleUpNew
  <2>1. \A q \in RS : /\ rs'[q].spec >= rs[q].spec /\ rs'[q].terminating = rs[q].terminating
                      /\ Active(q)' = Active(q)
    BY <1>1, <1>7, ScaledUp DEF Active, RS
  <2>2. \A q \in Old : rs'[q].spec = rs[q].spec
    BY <1>7, ScaledUp
  <2> QED
    BY <1>1, <2>1, <2>2 DEF Calm
<1>8. CASE ResyncQuota \/ OtherGone \/ OtherCreated
  BY <1>2, <1>8 DEF ResyncQuota, OtherGone, OtherCreated
<1>9. ASSUME NEW r \in RS, PodFails(r) PROVE Calm
  <2>1. rs'[r].available \in Nat
    BY <1>9, FailedIs DEF ReplicaSet
  <2>2. rs[r].pending \in Nat /\ rs[r].available \in Nat
    BY Typed
  <2>3. Active(r)' <= Active(r)
    BY <1>9, <2>1, <2>2, FailedIs DEF Active
  <2>4. \A q \in RS : /\ rs'[q].spec = rs[q].spec /\ rs'[q].terminating = rs[q].terminating
                      /\ q # r => Active(q)' = Active(q)
    BY <1>9, FailedIs DEF Active
  <2> QED
    BY <1>1, <2>3, <2>4, Members DEF Calm
<1> QED
  BY <1>3, <1>4, <1>5, <1>6, <1>7, <1>8, <1>9 DEF Controllers, Others

LEMMA FullStays ==
  ASSUME Full, Steady, others' = others, used' = used, hard' = hard
  PROVE  Full'
<1>1. [r \in RS |-> Active(r)' + rs'[r].terminating] = [r \in RS |-> Active(r) + rs[r].terminating]
  BY DEF Steady
<1>2. Actual' = Actual
  BY <1>1 DEF Actual
<1> QED
  BY <1>2 DEF Full

\* The quota of a blocked rollout stays full until others release some.
LEMMA SteadySteps ==
  ASSUME QuotaTypeOK, Blocked, Full, Controllers \/ Others, sure' \/ (current' /\ check = "idle")
  PROVE  Steady /\ Full'
<1>1. \A r \in RS : /\ rs[r].terminating = 0 /\ Active(r) <= rs[r].spec
                    /\ Active(r) \in Nat /\ rs[r].spec \in Nat
  BY Typed DEF Blocked
<1>2. used + 1 > hard /\ used = Actual /\ used \in Nat /\ hard \in Nat
  BY Typed DEF Full
<1>3. hard' = hard
  BY ClusterKeeps
<1>4. ~ Help
  BY DEF Help
<1>5. ASSUME NEW r \in RS, ScaleDownOld(r) PROVE Steady /\ Full'
  <2>1. /\ r \in Old /\ rs[r] \in ReplicaSet
        /\ rs' = [rs EXCEPT ![r] = [rs[r] EXCEPT !.spec = @ - 1]]
    BY <1>5, Typed DEF ScaleDownOld
  <2>2. \A q \in RS : /\ rs'[q].pending = rs[q].pending /\ rs'[q].available = rs[q].available
                      /\ rs'[q].terminating = rs[q].terminating
    BY <2>1 DEF QuotaTypeOK, ReplicaSet
  <2>3. Steady
    BY <2>2 DEF Steady, Active
  <2> QED
    BY <1>3, <1>5, <2>3, FullStays DEF ScaleDownOld
<1>6. ASSUME NEW r \in RS, SyncReplicaSet(r) PROVE Steady /\ Full'
  <2>1. /\ Synced(r).spec = rs[r].spec /\ Synced(r).available = rs[r].available
        /\ Synced(r).terminating = rs[r].terminating
        /\ Synced(r).pending = rs[r].pending
    BY <1>1, <1>2, SyncedIs
  <2>2. rs'[r] = Synced(r) /\ \A q \in RS : q # r => rs'[q] = rs[q]
    BY <1>6, SyncIs
  <2>3. Steady
    BY <2>1, <2>2 DEF Steady, Active
  <2>4. Synced(r).pending - rs[r].pending = 0
    BY <2>1, Typed
  <2>5. Max({Synced(r).pending - rs[r].pending, 0}) = 0
    BY <2>4, MaxIs
  <2>6. used' = used /\ others' = others
    BY <1>2, <1>6, <2>5 DEF SyncReplicaSet
  <2> QED
    BY <1>3, <2>3, <2>6, FullStays
<1>7. ASSUME NEW r \in RS, PodBecomesAvailable(r) PROVE Steady /\ Full'
  <2>1. Steady
    BY <1>7, AvailableIs DEF Steady, Active
  <2> QED
    BY <1>3, <1>7, <2>1, FullStays DEF PodBecomesAvailable
<1>8. ASSUME NEW r \in RS, PodGone(r) PROVE FALSE
  BY <1>1, <1>8 DEF PodGone
<1>9. CASE ScaleUpNew
  <2>1. Steady
    BY <1>9, ScaledUp DEF Steady, Active, RS
  <2> QED
    BY <1>3, <1>9, <2>1, FullStays DEF ScaleUpNew
<1>10. ~ ResyncQuota /\ ~ OtherCreated
  BY <1>2 DEF ResyncQuota, OtherCreated
<1>11. ~ OtherGone /\ \A r \in RS : ~ PodFails(r)
  BY <1>4 DEF OtherGone, PodFails
<1> QED
  BY <1>5, <1>6, <1>7, <1>8, <1>9, <1>10, <1>11 DEF Controllers, Others

-----------------------------------------------------------------------------
(***************************************************************************)
(* The answers.                                                            *)
(***************************************************************************)

\* A blocked rollout, of which the tracker knows enough, is not found to be able to
\* release quota, at any stage of the check.
LEMMA NotReleasing ==
  ASSUME QuotaTypeOK, Blocked, Seen
  PROVE  /\ ~ Releasing
         /\ ~ (Active(New) >= cache[New].spec)
         /\ ~ RolloutCanReleaseQuota(Active(New))
<1>1. \A r \in RS : rs[r].terminating = 0 /\ Active(r) <= rs[r].spec
  BY DEF Blocked
<1>2. \A r \in Old : /\ cache[r].spec = rs[r].spec /\ cache[r].replicas <= cache[r].spec
                     /\ cache[r].statusTerminating \in {Nil, 0}
  BY DEF Seen
<1>3. \A r \in RS : /\ Active(r) \in Nat /\ rs[r].spec \in Nat /\ rs[r].terminating \in Nat
                    /\ cache[r].spec \in Nat /\ cache[r].replicas \in Nat
  BY Typed
<1>4. ~ Releasing
  BY <1>1, <1>2, <1>3, Members DEF Releasing
<1>5. ~ (Active(New) >= cache[New].spec)
  BY <1>3, Members DEF Seen
<1>6. ~ (/\ \E r \in Old : cache[r].spec > 0
         /\ deploy.strategy = "Recreate" \/ OldDesired + Active(New) > deploy.replicas - MaxUnavailable)
  <2>1. ~ (Surplus(Active(New)) > 0 /\ \E r \in Old : rs[r].spec > 0)
    <3>1. Surplus(Active(New)) \in Int
      BY <1>3, Members, SurplusIs, OldSpecsIs, UnavailableIs
    <3> QED
      BY <3>1 DEF Blocked
  <2> QED
    BY <1>2, <1>3, <2>1, Members, SameArithmetic
<1>7. ~ RolloutCanReleaseQuota(Active(New))
  BY <1>2, <1>3, <1>6, Members DEF RolloutCanReleaseQuota
<1> QED
  BY <1>4, <1>5, <1>7

\* Stuck in plain sight is all of it.
LEMMA PlainlyStuck ==
  ASSUME QuotaTypeOK, Stuck, InPlainSight
  PROVE  Blocked /\ Full /\ Seen /\ cache[New].replicas = Active(New)
<1>1. \A r \in RS : /\ cache[r].spec = rs[r].spec /\ cache[r].replicas = rs[r].replicas
                    /\ cache[r].statusTerminating = rs[r].statusTerminating
                    /\ rs[r].replicas = Active(r)
                    /\ rs[r].statusTerminating \in {Nil, rs[r].terminating}
  BY SnapshotIs DEF InPlainSight, QuotaTypeOK
<1>2. Blocked
  BY DEF Stuck, Blocked
<1>3. Full
  BY DEF Stuck, InPlainSight, Full
<1>4. Seen
  BY <1>1, Members DEF Stuck, Seen
<1> QED
  BY <1>1, <1>2, <1>3, <1>4, Members

\* What lets the Pods pass is that the rollout is blocked, if what is desired of the
\* ReplicaSets is known.
LEMMA PassedIsBlocked ==
  ASSUME QuotaTypeOK, \A r \in RS : cache[r].spec = rs[r].spec,
         ~ Releasing, ~ (Active(New) >= cache[New].spec), ~ RolloutCanReleaseQuota(Active(New))
  PROVE  Blocked
<1>1. \A r \in RS : /\ Active(r) \in Nat /\ rs[r].spec \in Nat /\ rs[r].terminating \in Nat
  BY Typed
<1>2. \A r \in RS : rs[r].terminating = 0 /\ Active(r) <= rs[r].spec
  BY <1>1, Members DEF Releasing, RS
<1>3. ~ (/\ \E r \in Old : cache[r].spec > 0
         /\ deploy.strategy = "Recreate" \/ OldDesired + Active(New) > deploy.replicas - MaxUnavailable)
  BY DEF RolloutCanReleaseQuota
<1>4. ~ (Surplus(Active(New)) > 0 /\ \E r \in Old : rs[r].spec > 0)
  BY <1>1, <1>3, Members, SameArithmetic
<1>5. Surplus(Active(New)) \in Int
  BY <1>1, Members, SurplusIs, OldSpecsIs, UnavailableIs
<1>6. Surplus(Active(New)) <= 0 \/ \A r \in Old : rs[r].spec = 0
  BY <1>1, <1>4, <1>5, Members
<1> QED
  BY <1>2, <1>6 DEF Blocked

-----------------------------------------------------------------------------
(***************************************************************************)
(* The inductive invariant.                                                *)
(***************************************************************************)

LEMMA QuotaInvInit == Init => QuotaInv
  BY TypeInit DEF Init, QuotaInv, NoDeadlockIsMissed

\* A step of the cluster.
LEMMA ClusterStepInv ==
  ASSUME QuotaInv, QuotaTypeOK', Controllers \/ Others
  PROVE  QuotaInv'
<1>1. /\ deploy' = deploy /\ cache' = cache /\ check' = check /\ verdict' = verdict
      /\ current' => current
      /\ sure' => sure
  BY ClusterKeeps
<1>2. QuotaTypeOK
  BY DEF QuotaInv
<1>3. ASSUME current', check = "quota" \/ (check = "idle" /\ verdict = "no") PROVE Blocked'
  <2>1. Blocked
    BY <1>1, <1>3 DEF QuotaInv
  <2>2. Full \/ (current' /\ check = "quota")
    BY <1>1, <1>3 DEF QuotaInv
  <2>3. Calm
    BY <1>2, <2>1, <2>2, CalmSteps
  <2> QED
    BY <1>1, <1>2, <2>1, <2>3, BlockedStays
<1>4. ASSUME current', check = "idle", verdict = "no" PROVE Full'
  <2>1. Blocked /\ Full
    BY <1>1, <1>4 DEF QuotaInv
  <2> QED
    BY <1>2, <1>4, <2>1, SteadySteps
<1>5. ASSUME sure', check # "idle" PROVE Blocked' /\ Full' /\ Seen'
  <2>1. Blocked /\ Full /\ Seen
    BY <1>1, <1>5 DEF QuotaInv
  <2>2. Calm
    BY <1>2, <2>1, CalmSteps
  <2>3. Steady /\ Full'
    BY <1>2, <1>5, <2>1, SteadySteps
  <2>4. Blocked'
    BY <1>1, <1>2, <2>1, <2>2, BlockedStays
  <2>5. Seen'
    BY <1>1, <2>1, <2>2, <2>3, Members DEF Seen, Calm, Steady
  <2> QED
    BY <2>3, <2>4, <2>5
<1>6. NoDeadlockIsMissed'
  BY <1>1 DEF QuotaInv, NoDeadlockIsMissed
<1> QED
  BY <1>1, <1>3, <1>4, <1>5, <1>6 DEF QuotaInv

\* What the tracker does leaves the cluster as it is.
LEMMA Unmoved ==
  ASSUME UNCHANGED cluster
  PROVE  /\ Blocked' <=> Blocked
         /\ Full' <=> Full
         /\ UNCHANGED cache /\ Seen => Seen'
         /\ \A r \in RS : Active(r)' = Active(r)
<1>1. deploy' = deploy /\ rs' = rs /\ others' = others /\ hard' = hard /\ used' = used
  BY DEF cluster
<1>2. \A r \in RS : Active(r)' = Active(r)
  BY <1>1 DEF Active
<1>3. Surplus(Active(New))' = Surplus(Active(New))
  BY <1>1 DEF Surplus, UnavailableOf, SurgeOf, Active
<1>4. Blocked' <=> Blocked
  BY <1>1, <1>2, <1>3 DEF Blocked
<1>5. Full' <=> Full
  BY <1>1 DEF Full, Actual, Active
<1>6. UNCHANGED cache /\ Seen => Seen'
  BY <1>1, <1>2, Members DEF Seen
<1> QED
  BY <1>2, <1>4, <1>5, <1>6
LEMMA TrackerStepInv ==
  ASSUME QuotaInv, QuotaTypeOK', Tracker
  PROVE  QuotaInv'
<1>1. UNCHANGED cluster
  BY DEF Tracker, ReplicaSetModified, StartCheck, ListPods, GetQuota, RequestFails
<1>2. QuotaTypeOK
  BY DEF QuotaInv
<1>3. ASSUME NEW r \in RS, ReplicaSetModified(r) PROVE QuotaInv'
  <2>1. check = "idle" /\ check' = "idle" /\ verdict' \in {"none", verdict}
        /\ current' = current /\ sure' = sure
    BY <1>3 DEF ReplicaSetModified, history
  <2>2. current' /\ verdict' = "no" => Blocked' /\ Full'
    BY <1>1, <2>1, Unmoved DEF QuotaInv
  <2>3. NoDeadlockIsMissed'
    BY <2>1 DEF QuotaInv, NoDeadlockIsMissed
  <2> QED
    BY <2>1, <2>2, <2>3 DEF QuotaInv
<1>4. CASE StartCheck
  <2>1. check = "idle" /\ verdict # "yes" /\ cache' = cache /\ current' = current
    BY <1>4 DEF StartCheck
  <2>2. sure' => Stuck /\ InPlainSight
    BY <1>4 DEF StartCheck
  <2>3. sure' => Blocked /\ Full /\ Seen /\ cache[New].replicas = Active(New)
    BY <1>2, <2>2, PlainlyStuck
  <2>4. CASE RolloutCanReleaseQuota(cache[New].replicas)
    <3>1. check' = "idle" /\ verdict' = "yes"
      BY <1>4, <2>4 DEF StartCheck, Answer
    <3>2. ~ sure'
      BY <1>2, <2>3, <2>4, NotReleasing
    <3> QED
      BY <3>1, <3>2 DEF QuotaInv, NoDeadlockIsMissed
  <2>5. CASE ~ RolloutCanReleaseQuota(cache[New].replicas)
    <3>1. check' = "pods" /\ verdict' # "yes"
      BY <1>4, <2>1, <2>5 DEF StartCheck, Proceed
    <3>2. sure' => Blocked' /\ Full' /\ Seen'
      BY <1>1, <2>1, <2>3, Unmoved
    <3> QED
      BY <3>1, <3>2 DEF QuotaInv, NoDeadlockIsMissed
  <2> QED
    BY <2>4, <2>5
<1>5. CASE ListPods
  <2>1. check = "pods" /\ cache' = cache /\ sure' = sure
    BY <1>5 DEF ListPods
  <2>2. sure => Blocked /\ Full /\ Seen /\ verdict # "yes"
    BY <2>1 DEF QuotaInv, NoDeadlockIsMissed
  <2> DEFINE hopes == \/ Releasing \/ Active(New) >= cache[New].spec
                      \/ RolloutCanReleaseQuota(Active(New))
  <2>3. CASE hopes
    <3>1. check' = "idle" /\ verdict' = "yes"
      BY <1>5, <2>3 DEF ListPods, Answer
    <3>2. ~ sure
      BY <1>2, <2>2, <2>3, NotReleasing
    <3> QED
      BY <2>1, <3>1, <3>2 DEF QuotaInv, NoDeadlockIsMissed
  <2>4. CASE ~ hopes
    <3>1. check' = "quota" /\ verdict' = verdict
      BY <1>5, <2>4 DEF ListPods, Proceed
    <3>2. current' => \A r \in RS : cache[r].spec = rs[r].spec
      BY <1>5 DEF ListPods
    <3>3. current' => Blocked'
      BY <1>1, <1>2, <2>4, <3>2, PassedIsBlocked, Unmoved
    <3>4. sure' => Blocked' /\ Full' /\ Seen' /\ verdict' # "yes"
      BY <1>1, <2>1, <2>2, <3>1, Unmoved
    <3> HIDE DEF hopes
    <3> QED
      BY <3>1, <3>3, <3>4 DEF QuotaInv, NoDeadlockIsMissed
  <2> QED
    BY <2>3, <2>4
<1>6. CASE GetQuota
  <2>1. check = "quota" /\ check' = "idle" /\ sure' = sure
        /\ current' = (current /\ used = Actual)
        /\ verdict' = IF ~ StillExceeded THEN "yes" ELSE "no"
    BY <1>6 DEF GetQuota, Answer
  <2>2. sure => Full
    BY <2>1 DEF QuotaInv
  <2>3. sure' => verdict' # "yes"
    BY <2>1, <2>2 DEF Full, StillExceeded
  <2>4. current' /\ verdict' = "no" => Blocked' /\ Full'
    <3> SUFFICES ASSUME current', verdict' = "no" PROVE Blocked' /\ Full'
      OBVIOUS
    <3>1. Blocked
      BY <2>1 DEF QuotaInv
    <3>2. Full
      BY <2>1 DEF StillExceeded, Full
    <3> QED
      BY <1>1, <3>1, <3>2, Unmoved
  <2> QED
    BY <2>1, <2>3, <2>4 DEF QuotaInv, NoDeadlockIsMissed
<1>7. CASE RequestFails
  BY <1>7 DEF RequestFails, Answer, QuotaInv, NoDeadlockIsMissed
<1> QED
  BY <1>3, <1>4, <1>5, <1>6, <1>7 DEF Tracker

LEMMA QuotaInductive == Spec => []QuotaInv
<1>1. QuotaInv /\ [Next]_vars => QuotaInv'
  <2> SUFFICES ASSUME QuotaInv, [Next]_vars PROVE QuotaInv'
    OBVIOUS
  <2>1. QuotaTypeOK'
    BY TypeStep DEF QuotaInv
  <2>2. CASE Controllers \/ Others
    BY <2>1, <2>2, ClusterStepInv
  <2>3. CASE Tracker
    BY <2>1, <2>3, TrackerStepInv
  <2>4. CASE UNCHANGED vars
    <3>1. UNCHANGED cluster /\ UNCHANGED cache /\ check' = check /\ verdict' = verdict
          /\ current' = current /\ sure' = sure
      BY <2>4 DEF vars, tracker, history
    <3>2. (Blocked' <=> Blocked) /\ (Full' <=> Full) /\ (Seen => Seen')
      BY <3>1, Unmoved
    <3> QED
      BY <2>1, <3>1, <3>2 DEF QuotaInv, NoDeadlockIsMissed
  <2> QED
    BY <2>2, <2>3, <2>4 DEF Next
<1> QED
  BY QuotaInvInit, <1>1, PTL DEF Spec

-----------------------------------------------------------------------------
(***************************************************************************)
(* The theorems.                                                           *)
(***************************************************************************)

\* The ReplicaSets and their Pods, the quota, and what the tracker knows of them keep
\* their types: no controller deletes a Pod that there is not (the state that
\* rolloutCanReleaseQuota and inspectRolloutPods read).
THEOREM TypeCorrect == Spec => []QuotaTypeOK
<1>1. QuotaInv => QuotaTypeOK
  BY DEF QuotaInv
<1> QED
  BY QuotaInductive, <1>1, PTL

\* For any ReplicaSets, strategy, surge, unavailability and quota: a rollout that is
\* stuck, and is seen to be all through the check, is not answered to be able to
\* release quota (deploymentCanReleaseQuota).
THEOREM EveryDeadlockIsSeen == Spec => []NoDeadlockIsMissed
<1>1. QuotaInv => NoDeadlockIsMissed
  BY DEF QuotaInv
<1> QED
  BY QuotaInductive, <1>1, PTL

\* For any of them too: after an answer FALSE that was read from what was so, no
\* controller creates a Pod of the new ReplicaSet, until others release quota
\* (confirmQuotaDeadlock fails the deploy on it).
THEOREM FatalIsJustified == Spec => FatalIsFinal
<1>1. QuotaInv /\ [Next]_vars
      => [verdict = "no" /\ check = "idle" /\ current => Active(New)' <= Active(New)]_vars
  <2> SUFFICES ASSUME QuotaInv, Next, verdict = "no", check = "idle", current
               PROVE  Active(New)' <= Active(New)
    BY DEF vars
  <2>1. QuotaTypeOK /\ Blocked /\ Full
    BY DEF QuotaInv
  <2>2. CASE Controllers \/ Others
    <3>1. Calm
      BY <2>1, <2>2, CalmSteps
    <3> QED
      BY <3>1, Members DEF Calm
  <2>3. CASE Tracker
    <3>1. UNCHANGED cluster
      BY <2>3 DEF Tracker, ReplicaSetModified, StartCheck, ListPods, GetQuota, RequestFails
    <3>2. Active(New)' = Active(New) /\ Active(New) \in Nat
      BY <2>1, <3>1, Unmoved, Typed, Members
    <3> QED
      BY <3>2
  <2> QED
    BY <2>2, <2>3 DEF Next
<1> QED
  BY QuotaInductive, <1>1, PTL DEF Spec, FatalIsFinal

-----------------------------------------------------------------------------
(***************************************************************************)
(* PART 2.  The pollers (ExistencePollers).                                *)
(***************************************************************************)

\* An answer that ends the polling is the one waited for; a timeout follows a
\* last try, which is made when the timer has fired.
Asked ==
  /\ wanted \in Existence /\ object \in Existence
  /\ pc = "found" => answer = wanted
  /\ pc # "returned" => result = "none"
  /\ lastTry => timer = "fired"

\* Once the timer has fired a resource that is not as wanted is on record.
Recorded ==
  /\ timer = "fired" /\ object # wanted => missed
  /\ pc = "answered" /\ lastTry /\ answer \in Existence \ {wanted} => missed

PollerInv ==
  Asked /\ Recorded /\ ResultAgreesWithStatus /\ SuccessIsAnswered /\ NoFalseTimeout

LEMMA PollerInductive == PollerSpec => []PollerInv
<1>1. PollerInit => PollerInv
  BY DEF PollerInit, PollerInv, Asked, Recorded, ResultAgreesWithStatus, SuccessIsAnswered,
         NoFalseTimeout, Succeeded, Existence
<1>2. PollerInv /\ [PollerNext]_pollerVars => PollerInv'
  <2> SUFFICES ASSUME PollerInv, [PollerNext]_pollerVars PROVE PollerInv'
    OBVIOUS
  <2> USE DEF PollerInv, Asked, Recorded, ResultAgreesWithStatus, SuccessIsAnswered, NoFalseTimeout,
              Succeeded, Existence
  <2>1. CASE ResourceChanges
    BY <2>1 DEF ResourceChanges
  <2>2. CASE Cancel
    BY <2>2 DEF Cancel
  <2>3. CASE TimerFires
    BY <2>3 DEF TimerFires
  <2>4. CASE Lookup
    BY <2>4 DEF Lookup
  <2>5. CASE Get
    BY <2>5 DEF Get
  <2>6. CASE AnswerLapse
    BY <2>6 DEF AnswerLapse, PollOn
  <2>7. CASE AnswerError
    BY <2>7 DEF AnswerError
  <2>8. CASE AnswerUnwanted
    BY <2>8 DEF AnswerUnwanted, PollOn
  <2>9. CASE AnswerWanted
    BY <2>9 DEF AnswerWanted
  <2>10. CASE Tick \/ TimeIsOver
    BY <2>10 DEF Tick, TimeIsOver
  <2>11. CASE Found
    BY <2>11 DEF Found
  <2>12. CASE Returned \/ UNCHANGED pollerVars
    BY <2>12 DEF Returned, pollerVars
  <2>13. QED
    BY <2>1, <2>2, <2>3, <2>4, <2>5, <2>6, <2>7, <2>8, <2>9, <2>10, <2>11, <2>12 DEF PollerNext, Poll
<1>3. QED
  BY <1>1, <1>2, PTL DEF PollerSpec

-----------------------------------------------------------------------------
\* What Track returns and what a reader of the task sees agree.
THEOREM ResultAndStatusAgree == PollerSpec => []ResultAgreesWithStatus
<1>1. PollerInv => ResultAgreesWithStatus
  BY DEF PollerInv
<1>2. QED
  BY <1>1, PollerInductive, PTL

\* Success is an answer of the server.
THEOREM SuccessfulMeansAnswered == PollerSpec => []SuccessIsAnswered
<1>1. PollerInv => SuccessIsAnswered
  BY DEF PollerInv
<1>2. QED
  BY <1>1, PollerInductive, PTL

\* A timeout is not reported for a resource that was as wanted ever since.
THEOREM TimeoutsAreTrue == PollerSpec => []NoFalseTimeout
<1>1. PollerInv => NoFalseTimeout
  BY DEF PollerInv
<1>2. QED
  BY <1>1, PollerInductive, PTL
=============================================================================
