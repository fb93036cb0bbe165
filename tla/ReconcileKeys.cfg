SPECIFICATION ReconcileSpec
CONSTANTS
  Nil = Nil
  Bad = Bad
  g1 = g1
  g2 = g2
  Requests = {}
  Offsets = {0}
  Retention = 1
  NewKeys = {g1, g2, Bad}
  Sizes = {1, 2}
  Changes = {"scale", "encryption"}
  Faults = {"lost", "partial"}
  MaxChanges = 1
  MaxFaults = 1
  MaxEvents = 1
  MaxTime = 1
  Present <- KeysPresent
  FirstCreds = "v1"
  Interleaved = FALSE
  FirstXR <- Encrypted
  Listed <- ListedInSomeOrder
SYMMETRY KeySymmetry
INVARIANTS
  ReconcileTypeOK
  VolumeKeyKept
  RejectedForSecretOrKey
PROPERTY
  ImplementsVolumeKeys
