CONSTANTS
  Keys = {"k1","k2"}
  Files = {"f"}
  Conf = "conf"
  Contents = {"ok","odd"}
  Gone = "gone"
  Tools = {"t","s"}
  Units = {}
  Members <- NoMembers
  TTL = 1
  PruneAge = 1
  Clean <- MCClean
  Fixed <- MCFixed
  Procs = {"cli","lsp"}
  Sessions = {"lsp"}
  Workers = {"wc","wl"}
  Owner <- TwoOwners
  Tasks <- LintAgainstFix
  Restoring = FALSE
  Interfering = TRUE
  ClockJumps = FALSE
  Bounds <- FileBounds
  None = None
SPECIFICATION FairSpec
INVARIANT TypeOK
INVARIANT LintSound
INVARIANT NothingStranded
INVARIANT PruneSticks
PROPERTY SessionsYield
PROPERTY OnlyRacesLose
PROPERTY SavesEnd
CHECK_DEADLOCK FALSE
