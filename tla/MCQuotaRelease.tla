-------------------------- MODULE MCQuotaRelease --------------------------
EXTENDS QuotaRelease

CONSTANTS o1, o2, n1

Int32(k) == [percent |-> FALSE, n |-> k]
Percent(k) == [percent |-> TRUE, n |-> k]

Rolling(replicas, surge, unavailable) ==
  [strategy |-> "RollingUpdate", replicas |-> replicas, maxSurge |-> surge,
   maxUnavailable |-> unavailable, reportsTerminating |-> replicas = 2]

\* The default of 25% each, which rounds to one more and none less; no surge and an
\* unavailability that rounds to none; one and one; more unavailable than there are;
\* three replicas, one and one; and a recreation.
MCDeployments ==
  {Rolling(1, Percent(25), Percent(25)), Rolling(2, Percent(25), Percent(25)),
   Rolling(2, Int32(0), Percent(25)), Rolling(2, Int32(1), Int32(1)),
   Rolling(2, Int32(0), Int32(3)), Rolling(3, Int32(1), Percent(34)),
   [Rolling(1, Int32(0), Int32(0)) EXCEPT !.strategy = "Recreate"]}
=============================================================================
