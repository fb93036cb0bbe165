SPECIFICATION Spec
CONSTANTS
  Nil = Nil
  Bad = Bad
  n1 = n1
  n2 = n2
  n3 = n3
  gen = gen
  r1 = r1
  v1 = v1
  v2 = v2
  d1 = d1
  d2 = d2
  c1 = c1
  c2 = c2
  Names = {n1, n2, n3}
  Metas <- MCMetas
  Types <- MCTypes
  Scheme <- MCScheme
  Values = {v1}
  Refs = {r1}
  DetailNames = {d1}
  DetailValues = {v1, v2}
  CompositeValues = {c1}
  InitialResources <- MCInitialResources
  InitialDetails <- MCNoDetails
INVARIANTS
  TypeOK
  UniqueNames
PROPERTIES
  IdentityKept
  OrderKept
  ImplementsKeyedStore
