CONSTANTS
  Listeners = {l1}
  Routes = {}
  Gateway = g
  Nobody = nobody
  Policies = {p1}
  ReplicaCount = 1
  Capabilities = {"v1", "enabled"}
  LaggingReads = FALSE
  OddAnswers = FALSE
  Rotations = FALSE
  MaxOps = 2
  MaxExternal = 0
SPECIFICATION Spec
PROPERTIES ProtectedChildStays
