SPECIFICATION ReconcileSpec
CONSTANTS
  Nil = Nil
  Bad = Bad
  g1 = g1
  g2 = g2
  Requests = {}
  Offsets = {0}
  Retention = 1
  NewKeys = {g1}
  Sizes = {1}
  Changes = {"restart", "strategy"}
  Faults = {"lost"}
  MaxChanges = 2
  MaxFaults = 1
  MaxEvents = 3
  MaxTime = 3
  Present <- RestartPresent
  FirstCreds = "v1"
  Interleaved = TRUE
  FirstXR <- Deployed
  Listed <- ListedInSomeOrder
PROPERTIES
  NotInterrupted
  RestartHappens
