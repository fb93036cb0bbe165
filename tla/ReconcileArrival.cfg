SPECIFICATION ReconcileSpec
CONSTANTS
  Nil = Nil
  Bad = Bad
  g1 = g1
  g2 = g2
  Requests = {}
  Offsets = {0}
  Retention = 1
  NewKeys = {g1}
  Sizes = {1}
  Changes = {"credentials"}
  Faults = {"lost"}
  MaxChanges = 1
  MaxFaults = 1
  MaxEvents = 1
  MaxTime = 1
  Present = {}
  FirstCreds = Nil
  Interleaved = TRUE
  FirstXR <- Fresh
  Listed <- ListedInSomeOrder
INVARIANT
  RejectedForSecretOrKey
PROPERTIES
  UrlConverges
  UrlMovesForward
  KeysArrive
