SPECIFICATION FairReadinessSpec
CONSTANTS
  p1 = p1
  v1 = v1  v2 = v2
  Nil = Nil
  Root = Root
  Pod = {p1}
  Revision = {v1, v2}
  Kinds = {"StatefulSet", "DaemonSet"}
  Objects <- MCObjects
  InitialPods <- MCPods
  RelayCapacity = 1
  MaxChanges = 2
  Mode = "FailWholeDeployProcessImmediately"
  Allow = 2
  Capacity <- MCCapacity
INVARIANTS
  LivePodIsTracked
PROPERTIES
  EveryFailureIsCharged
  ReadyIsCurrent
  ReadyIsNoticed
