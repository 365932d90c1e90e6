SPECIFICATION FairReadinessSpec
CONSTANTS
  None = None
  Root = root
  Pod = {}
  MaxChanges = 2
  MaxTimeouts = 2
  MayStop = TRUE
  Modes <- TwoModes
  AllowedFailures = {1}
  RegularCapacity = 1
INVARIANTS
  SavedIsLatest
PROPERTIES
  BudgetIsKept
  VerdictIsCurrent
  TrackingEnds
  ReadyIsDelivered
