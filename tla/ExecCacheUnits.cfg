CONSTANTS
  Keys = {"k1"}
  Files = {"f","g"}
  Conf = "conf"
  Contents = {"ok","odd"}
  Gone = "gone"
  Tools = {"t"}
  Units = {"u"}
  Members <- MCMembers
  TTL = 0
  PruneAge = 0
  Clean <- MCClean
  Fixed <- MCFixed
  Procs = {"cli","lsp"}
  Sessions = {"lsp"}
  Workers = {"w1","w2","wl"}
  Owner <- ThreeOwners
  Tasks <- UnitAndFile
  Restoring = FALSE
  Interfering = FALSE
  ClockJumps = FALSE
  Bounds <- UnitBounds
  None = None
SPECIFICATION Spec
INVARIANT FixSound
PROPERTY Implements
PROPERTY VerdictsOnlyRenewed
CHECK_DEADLOCK FALSE
