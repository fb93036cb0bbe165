SPECIFICATION Spec
CONSTANTS
  Nil = Nil
  Bad = Bad
  gen = gen
  r1 = r1
  ns = ns
  ref = ref
  template = template
  secretRef = secretRef
  xr = xr
  oldUrl = oldUrl
  k0 = k0
  k1 = k1
  g1 = g1
  g2 = g2
  Retention <- MCRetention
  Offsets = {0}
  NewKeys = {g1}
  Requests <- EncryptionRequests
INVARIANT
  NewKeyOnlyWhenAbsent
