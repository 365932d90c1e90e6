SPECIFICATION HistorySpec
CONSTANTS
  u1 = u1  u2 = u2  u3 = u3
  d1 = d1  d2 = d2
  n1 = n1  n2 = n2
  A = A  B = B
  None = None
  UID = {u1, u2, u3}
  DUID = {d1}
  Name = {n1, n2}
  Template = {A, B}
  NameOf <- MCNameOf
  TemplateOf <- MCTemplateOf
  Rank <- MCRank
  InitialReplicaSets <- ThreeInitialSets
  LiveStates <- PlaceStates
  MaxChanges = 3
  MayStop = FALSE
INVARIANTS
  FailureIsAttributable
  NothingSuppressed
  KnownIsCurrent
  KnownIsComplete
PROPERTIES
  ChargedOncePerFailure
  FatalQuotaIsConfirmed
