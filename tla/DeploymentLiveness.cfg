SPECIFICATION FairSpec
CONSTANTS
  u1 = u1  u2 = u2  u3 = u3
  d1 = d1  d2 = d2
  n1 = n1  n2 = n2
  A = A  B = B
  None = None
  UID = {u2, u3}
  DUID = {d1}
  Name = {n2}
  Template = {A, B}
  NameOf <- HeirNameOf
  TemplateOf <- HeirTemplateOf
  Rank <- HeirRank
  InitialReplicaSets <- HeirInitialSets
  LiveStates <- HeirStates
  MaxChanges = 3
  MayStop = TRUE
PROPERTIES
  QuotaFailureIsDecided
