CONSTANTS
  Procs = {p1, p2}
  Calls = {c1, c2}
  Nil = Nil
  Inputs = {"bad", "alerting", "cluster"}
  Bad = "bad"
  Puts <- MCPuts
  AbstractSocket = TRUE
  MaxCrashes = 1
SPECIFICATION Spec
INVARIANT NoDataRace
