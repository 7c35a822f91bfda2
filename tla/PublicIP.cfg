CONSTANTS
  IPs = {ip1, ip2}
  Targets = {c1, c2}
  Balancer = lb
  None = none
  KnowsTypes = FALSE
  MaxOps = 3
  MaxExternal = 1
SPECIFICATION FairSpec
INVARIANTS TypeOK NoFalseAlarm StrandedMeansError
PROPERTIES OkMatchesPlan ForgetsOnlyReleased HandlersFinish
