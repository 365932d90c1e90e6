SPECIFICATION FairReadinessSpec
CONSTANTS
  u1 = u1  u2 = u2  u3 = u3
  d1 = d1  d2 = d2
  n1 = n1  n2 = n2
  A = A  B = B
  None = None
  Nil = Nil
  Root = Root
  Pod = {}
  UID = {u2}
  DUID = {d1}
  Name = {n2}
  Template = {B}
  NameOf <- OneNameOf
  TemplateOf <- OneTemplateOf
  Rank <- OneRank
  InitialReplicaSets <- ReadinessInitialSets
  LiveStates <- ReadinessStates
  MaxChanges = 1
  MayStop = TRUE
  Replicas = {1}
  AllowedFailures = {0, 1}
  Capacity <- MCCapacity
PROPERTIES
  BudgetIsKept
  ReadyIsCurrent
  FailureIsCurrent
  ReadyIsDelivered
  CancellationEndsTracking
