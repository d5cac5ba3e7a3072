SPECIFICATION FairSpec
CONSTANTS
  Procs = {"p", "q"}
  PidOf <- Pids
  NamespaceOf <- OneHost
  Bins = {"depBin", "toolBin", "parser"}
  States = {"depState", "toolState"}
  Order <- SmallOrder
  BinOf <- BinOfSmall
  StateOf <- StateOfSmall
  Deletable = {"toolState"}
  Bundle = {"depBin", "toolState", "parser"}
  Undeclared = {"parser"}
  Before <- LeftBefore
  MaxCalls = 2
  MaxDeaths = 1
  MaxDeletions = 1
INVARIANT TypeOK
INVARIANT MarkersTrue
INVARIANT OneAtATime
INVARIANT ClosureFirst
PROPERTY ReadyStays
PROPERTY StepOnlyWhenNeeded
PROPERTY LiveLayoutKept
PROPERTY CommandsEnd
CHECK_DEADLOCK FALSE
