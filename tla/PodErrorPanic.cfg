SPECIFICATION PodSpec
CONSTANTS
  p1 = p1  p2 = p2
  r1 = r1  r2 = r2
  Nil = Nil
  Root = Root
  Replicas = {1}
  Pod = {p1}
  RS = {r1}
  RSOf <- OneRSOf
  Allow = 1
  Mode = "FailWholeDeployProcessImmediately"
  StatusCapacity = 1
  RelayCapacity = 2
  ReportCapacity = 1
  MaxEvents = 3
INVARIANTS
  PodErrorHasResource
