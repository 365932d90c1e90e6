SPECIFICATION FairReadinessSpec
CONSTANTS
  c1 = c1  c2 = c2
  Nil = Nil
  Root = Root
  Pod = {}
  Container = {c1, c2}
  First <- MCFirst
  Readers = {"trackPod", "relay"}
  MaxChanges = 2
  Mode = "FailWholeDeployProcessImmediately"
  Allow = 0
  Capacity <- MCCapacity
PROPERTIES
  LogsEndBeforeSuccess
  CompletionIsNoticed
  CancellationEndsTracking
