-------------------------- MODULE ReadinessVerdict --------------------------
(***************************************************************************)
(* What a user of DynamicReadinessTracker is promised: failures are spent  *)
(* from a budget, Track fails at the one that the budget does not cover or *)
(* that is fatal, at no other and never in the mode that ignores failures, *)
(* and its verdict is given once.                                          *)
(***************************************************************************)
EXTENDS Naturals

VARIABLES
  failMode,  \* the mode of the task
  allow,     \* the failures it allows
  spent,     \* the failures charged to it so far
  fatal,     \* was one of them fatal?
  verdict    \* "tracking" until Track returns

vars == <<failMode, allow, spent, fatal, verdict>>

Init == allow \in Nat /\ spent = 0 /\ fatal = FALSE /\ verdict = "tracking"

Fails(n, f) == failMode # "IgnoreAndContinueDeployProcess" /\ (f \/ n > allow)

Charge ==
  /\ verdict = "tracking"
  /\ spent' = spent + 1
  /\ fatal' \in {fatal, TRUE}
  /\ verdict' = IF Fails(spent', fatal') THEN "failed" ELSE "tracking"
  /\ UNCHANGED <<failMode, allow>>

Succeed ==
  /\ verdict = "tracking"
  /\ verdict' = "ready"
  /\ UNCHANGED <<failMode, allow, spent, fatal>>

\* The tracker gives up: an error, or a caller that asked it to stop.
GiveUp ==
  /\ verdict = "tracking"
  /\ verdict' \in {"error", "stopped"}
  /\ UNCHANGED <<failMode, allow, spent, fatal>>

Next == Charge \/ Succeed \/ GiveUp

Spec == Init /\ [][Next]_vars
=============================================================================
