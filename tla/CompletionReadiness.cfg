SPECIFICATION FairReadinessSpec
CONSTANTS
  p1 = p1  p2 = p2
  Nil = Nil
  Root = Root
  Pod = {p1}
  Kinds = {"Job", "Canary"}
  RelayCapacity = 1
  MaxChanges = 2
  Mode = "FailWholeDeployProcessImmediately"
  Allow = 1
  Capacity <- MCCapacity
PROPERTIES
  EveryFailureIsCharged
  NoPodIsLeftRunning
  SuccessIsNoticed
  CancellationEndsTracking
