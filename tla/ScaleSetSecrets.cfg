SPECIFICATION Spec
CONSTANTS
  Kinds <- ScaleSets
  MaxOps = 3
  MaxExternal = 1
PROPERTY UpdatesKeepSecrets
