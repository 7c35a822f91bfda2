CONSTANTS
  Listeners = {l1}
  Routes = {r1}
  Gateway = g
  Nobody = nobody
  Policies = {p1}
  ReplicaCount = 1
  Capabilities = {"v1", "enabled"}
  LaggingReads = TRUE
  OddAnswers = FALSE
  Rotations = TRUE
  MaxOps = 2
  MaxExternal = 1
SPECIFICATION MCSpec
INVARIANTS TypeOK LockInWindow AppliedWhenOk
PROPERTIES HandlersFinish DestroyForgetsOnlyRemoved
