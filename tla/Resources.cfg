SPECIFICATION Spec
CONSTANTS
  Kinds <- AllKinds
  MaxOps = 3
  MaxExternal = 2
INVARIANT TypeOK
INVARIANT OkMeansApplied
INVARIANT OkMeansGone
PROPERTY StateNeverAhead
PROPERTY KeepsPromise
PROPERTY SecretsKept
INVARIANT SecretsTrue
