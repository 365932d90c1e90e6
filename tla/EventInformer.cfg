SPECIFICATION Spec
CONSTANTS
  a = a  b = b  e = e
  Tracker = {a, b}
  Event = {e}
  Involved <- MCInvolved
  MaxVersion = 2
  MaxErrors = 1
  Capacity = 1
INVARIANTS
  ForbiddenIsJudgedAsAsked
  EveryChangeIsTold
PROPERTIES
  InformersStop
  CleanupReturns
