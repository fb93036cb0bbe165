CONSTANTS
  Procs = {p1}
  Calls = {c1, c2}
  Nil = Nil
  Inputs = {"bad", "alerting", "cluster"}
  Bad = "bad"
  Puts <- MCPuts
  AbstractSocket = FALSE
  MaxCrashes = 2
SPECIFICATION Spec
INVARIANTS TypeOK LookupsSucceed
PROPERTIES CallsEnd Recovers
