CONSTANTS
  RuleLists = {some}
  OpenLists = {}
  NoRules = none
  Failures = FALSE
  MaxOps = 1
  MaxExternal = 1
SPECIFICATION Spec
PROPERTIES RefusalDoesNotTaint
