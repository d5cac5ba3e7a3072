SPECIFICATION FairSpec
CONSTANTS
  Procs = {p, q}
  Chains = {"plain", "flagged"}
  Plain = "plain"
  Known = {"config"}
  Files <- MCFiles
  Apps <- MCApps
  None = None
  Bounds <- BakeBounds
INVARIANT FarmStands
INVARIANT FreshIsCurrent
PROPERTY Settles
CHECK_DEADLOCK FALSE
