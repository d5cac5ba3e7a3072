SPECIFICATION Spec
CONSTANTS
  Operations <- Check
  ToolOf <- CheckTools
  Processes <- OneEach
  Parsed = {"eslint"}
  Enforced = {"eslint"}
  Grave <- AllFindings
  Answers <- CheckAnswers
  Asked <- Untyped
  Baselines <- CheckBaselines
INVARIANT CoverageMeansRan
CHECK_DEADLOCK FALSE
