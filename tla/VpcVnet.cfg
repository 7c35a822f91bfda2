CONSTANTS
  Vpc = vpc
  VNets = {n1, n2}
  KnowsEgress = TRUE
  MaxOps = 4
  MaxExternal = 1
SPECIFICATION MCSpec
PROPERTIES KeepsPromise IntentHonoured HandlersFinish
