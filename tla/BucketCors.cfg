CONSTANTS
  RuleLists = {some, open}
  OpenLists = {open}
  NoRules = none
  Failures = TRUE
  MaxOps = 3
  MaxExternal = 2
SPECIFICATION Spec
INVARIANTS TypeOK StateTrue NeverRefused
PROPERTIES NothingOverwritten UnmanagedUntouched KeysKept
