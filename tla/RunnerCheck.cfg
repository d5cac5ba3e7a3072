SPECIFICATION Spec
CONSTANTS
  Operations <- Check
  ToolOf <- CheckTools
  Processes <- OneEach
  Parsed = {"eslint"}
  Enforced = {"eslint"}
  Grave <- AllFindings
  Answers <- CheckAnswers
  Asked <- CheckAsked
  Baselines <- CheckBaselines
INVARIANT NewNeverSilenced
INVARIANT BaselineAbsorbs
INVARIANT ReportTrue
INVARIANT Honest
CHECK_DEADLOCK FALSE
