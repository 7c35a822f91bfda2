CONSTANTS
  IPs = {ip1}
  Targets = {c1}
  Balancer = lb
  None = none
  KnowsTypes = TRUE
  MaxOps = 2
  MaxExternal = 0
SPECIFICATION Spec
PROPERTIES WaitKeepsRecord
