CONSTANTS
  Listeners = {l1}
  Routes = {}
  Gateway = g
  Nobody = nobody
  Policies = {p1}
  ReplicaCount = 2
  Capabilities = {"v1", "enabled"}
  LaggingReads = FALSE
  OddAnswers = TRUE
  Rotations = FALSE
  MaxOps = 2
  MaxExternal = 1
SPECIFICATION MCSpec
INVARIANTS NoSelfConflict
PROPERTIES NoBlindWrite DestroyForgetsOnlyRemoved KeepsPromise EnforcedWhenOk ServedDropsFollowErrors
