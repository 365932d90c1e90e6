SPECIFICATION Spec
CONSTANTS
  o1 = o1  o2 = o2  n1 = n1
  Old = {o1}
  New = n1
  Nil = Nil
  Deployments <- MCDeployments
  Hard = {1, 2, 3}
  MaxOthers = 1
  MaxChanges = 1
INVARIANTS
  NoDeadlockIsMissed
PROPERTIES
  FatalIsFinal
CHECK_DEADLOCK FALSE
