SPECIFICATION Spec
CONSTANTS
  Procs = {p, q}
  Chains = {"plain", "flagged"}
  Plain = "plain"
  Known = {"config"}
  Files <- MCFiles
  Apps <- MCApps
  None = None
  Bounds <- BakeBounds
INVARIANT TornIsStale
CHECK_DEADLOCK FALSE
