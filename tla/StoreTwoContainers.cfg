SPECIFICATION Spec
CONSTANTS
  Procs = {"p", "q"}
  PidOf <- Pids
  NamespaceOf <- TwoContainers
  Bins = {"depBin", "toolBin", "parser"}
  States = {"depState", "toolState"}
  Order <- SmallOrder
  BinOf <- BinOfSmall
  StateOf <- StateOfSmall
  Deletable = {"toolState"}
  Bundle = {"depBin", "toolState", "parser"}
  Undeclared = {"parser"}
  Before <- LeftBefore
  MaxCalls = 2
  MaxDeaths = 1
  MaxDeletions = 1
CHECK_DEADLOCK FALSE
PROPERTY LiveLayoutKept
